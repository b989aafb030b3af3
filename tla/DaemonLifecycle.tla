--------------------------- MODULE DaemonLifecycle ---------------------------
(***************************************************************************)
(* The daemon of one session, the files through which clients find it, and *)
(* the clients that start it, replace it and send it commands              *)
(* (cli/src/connection.rs, cli/src/native/daemon.rs).                      *)
(*                                                                         *)
(* A client first makes sure that a daemon runs (ensure_daemon), holding   *)
(* the startup lock, and then sends one command (send_command).  A daemon  *)
(* of another build is asked to hand its browser over, its files are       *)
(* removed, and a replacement is started and told to resume.  A daemon     *)
(* stops after a close or a hand-off, when idle, on a signal, or by a      *)
(* crash, and removes its files when the socket path is still its own.     *)
(* No step of a process on the shared files is atomic with the next one.   *)
(***************************************************************************)
EXTENDS Integers, Sequences, FiniteSets

CONSTANTS
    Clients,        \* the client processes, one command each
    Scenarios,      \* what the clients do and how much may go wrong: see Scenario
    MaxDaemons,     \* bound: daemon processes, in any scenario
    MaxBrowsers,    \* bound: browsers launched, in any scenario
    FirstBuild      \* the build of a daemon that may run already

(* A behaviour belongs to one scenario, chosen at its start. *)
Scenario ==
    [kind    : [Clients -> {"work", "close", "prepare"}],
     cold    : [Clients -> BOOLEAN],    \* the client goes through ensure_cold_daemon
     build   : [Clients -> STRING],     \* the executable it runs and spawns
     slow    : BOOLEAN,     \* a start may outlast the 15 s its client waits for it
     daemons : Nat,         \* bound: daemon processes
     browsers: Nat,         \* bound: browsers launched
     tries   : Nat \ {0},   \* bound: attempts of send_command (MAX_RETRIES, 5)
     crashes : Nat,         \* bound: daemons that die without running any cleanup
     stops   : Nat]         \* bound: daemons that stop because idle or signalled

Daemons  == 1 .. MaxDaemons
Browsers == 1 .. MaxBrowsers
Nobody   == 0
Orphan   == MaxDaemons + 1      \* the token of a daemon that never was
Absent   == "absent"

ASSUME LifecycleAssumption ==
    /\ MaxDaemons \in Nat \ {0} /\ MaxBrowsers \in Nat /\ Nobody \notin Clients
    /\ \A s \in Scenarios :
         /\ s \in Scenario /\ s.daemons <= MaxDaemons /\ s.browsers <= MaxBrowsers
         /\ \A c \in Clients : s.cold[c] => s.kind[c] = "work"

VARIABLES
    scenario,   \* the scenario; it never changes
    file,       \* sock, pid, token, stream: the daemon they are of; ver, sha: a build
    record,     \* the browser the handoff descriptor names, and whose request wrote it
    lock,       \* the holder of the startup lock, or Nobody
    cl,         \* the clients' calls
    dm,         \* the daemons
    launched,   \* number of browsers launched so far
    ends        \* numbers of crashes and of idle or signalled stops so far

vars == <<scenario, file, record, lock, cl, dm, launched, ends>>

Kind(c)  == scenario.kind[c]
Cold(c)  == scenario.cold[c]
Build(c) == scenario.build[c]

Files      == {"sock", "pid", "ver", "sha", "token", "stream"}
OwnedFiles == {"sock", "pid", "token", "stream"}

(* The orders in which the files are written, and removed by a client and  *)
(* by a daemon.  The files that say which daemon and which build it is are *)
(* read together, and removed in one step.                                 *)
WriteOrder  == <<"pid", "ver", "sha">>
CleanOrder  == <<{"pid", "ver", "sha"}, {"token", "stream"}, {"sock"}>>
RemoveOrder == <<{"sock"}, {"pid", "ver", "sha"}, {"stream"}>>
NoFile(f)   == IF f \in OwnedFiles THEN Nobody ELSE Absent
Holds(f)    == file[f] # NoFile(f)
Removed(F)  == [f \in Files |-> IF f \in F THEN NoFile(f) ELSE file[f]]

(* The listener exists from the bind until the accept loop has returned. *)
Listening(d) == dm[d].pc \in {"ident", "stream", "serve", "shutdown"}
Alive(d)     == dm[d].pc \notin {"unborn", "dead"}

(* connect() on the socket path succeeds: the one liveness test of clients. *)
daemon_ready == Holds("sock") /\ Listening(file["sock"])

(* A daemon before its start. *)
NoDaemon == [pc |-> "unborn", at |-> 1, build |-> Absent, cold |-> FALSE,
             ident |-> Nobody,   \* whose socket the path was after the bind
             sha |-> FALSE,      \* the hash has been written
             browser |-> Nobody,
             job |-> Nobody,     \* the client whose command the worker runs
             step |-> "none",    \* stage of that command
             exit |-> "none"]    \* the handler of a close or a hand-over

(* The end of a process: what it held in memory is gone. *)
Dead(d, why) == [dm EXCEPT ![d] = [NoDaemon EXCEPT !.pc = "dead", !.exit = why]]
-----------------------------------------------------------------------------
(* The clients *)

NoAnswer == [ok |-> FALSE, browser |-> Nobody]

Idle(c) == [pc |-> "lock",       \* where the call stands
            sub |-> Kind(c),     \* the command being sent
            inside |-> TRUE,     \* still in ensure_daemon
            at |-> 1,            \* next file to remove
            child |-> Nobody,    \* the daemon this client spawned
            seen |-> {},         \* daemons in their exit delay at the first ready
            handed |-> Nobody,   \* the browser that was handed over
            pid |-> Nobody,      \* ... when its process is known
            try |-> 1,           \* attempt of send_command
            peer |-> Nobody, accepted |-> FALSE, token |-> Nobody,
            answer |-> NoAnswer, answered |-> FALSE,
            runs |-> 0,          \* how often the client's own command ran
            lost |-> 0]          \* connections lost after it was written

Goto(c, label) == cl' = [cl EXCEPT ![c].pc = label]

(* A call that goes on to its command, or ends, forgets what it knew;      *)
(* leaving ensure_daemon drops the startup lock.                           *)
Forget(c, label, runs, lost) ==
    cl' = [cl EXCEPT ![c] = [Idle(c) EXCEPT !.pc = label, !.inside = FALSE,
                                            !.runs = runs, !.lost = lost]]
Admitted(c) == Forget(c, "connect", 0, 0) /\ lock' = Nobody
FailLost(c, lost) ==
    /\ Forget(c, "failed", cl[c].runs, lost)
    /\ lock' = IF cl[c].inside THEN Nobody ELSE lock
Fail(c) == FailLost(c, cl[c].lost)

(* Mutant: the lock is opened and never taken. *)
AcquireNothing(c) ==
    /\ cl[c].pc = "lock"
    /\ lock' = c
    /\ Goto(c, "admit")
    /\ UNCHANGED <<file, record, dm, launched, ends>>

(* DaemonStartupLock::acquire: try_lock until the deadline. *)
AcquireLock(c) ==
    /\ cl[c].pc = "lock" /\ lock = Nobody
    /\ lock' = c
    /\ Goto(c, "admit")
    /\ UNCHANGED <<file, record, dm, launched, ends>>
LockTimeout(c) ==
    /\ cl[c].pc = "lock" /\ lock # Nobody
    /\ Forget(c, "failed", 0, 0)
    /\ UNCHANGED <<file, record, lock, dm, launched, ends>>

(* Cold admission asks for a session without any trace. *)
AdmitCold(c) ==
    /\ cl[c].pc = "admit" /\ Cold(c)
    /\ IF (\E f \in Files : Holds(f)) \/ daemon_ready
       THEN Fail(c)
       ELSE Goto(c, "token") /\ UNCHANGED lock
    /\ UNCHANGED <<file, record, dm, launched, ends>>

(* The first connect; the exit delay of the daemons that are leaving is    *)
(* noted, since the second connect comes later than its end.               *)
Admit(c) ==
    /\ cl[c].pc = "admit" /\ ~Cold(c)
    /\ IF daemon_ready
       THEN cl' = [cl EXCEPT ![c].pc = "recheck",
                             ![c].seen = {d \in Daemons : dm[d].exit = "delay"}]
       ELSE cl' = [cl EXCEPT ![c].pc = "clean", ![c].at = Len(CleanOrder) + 1]
    /\ UNCHANGED <<file, record, lock, dm, launched, ends>>

(* The version file has to name this build; the executable's hash may      *)
(* still be pending (60 s grace), and does not matter when the recorded    *)
(* process runs this very executable.                                      *)
daemon_version_matches(c) == file["ver"] = Build(c)
sha_matches(c) ==
    \/ Holds("pid") /\ Alive(file["pid"]) /\ dm[file["pid"]].build = Build(c)
    \/ file["sha"] \in {Build(c), "pending"}

(* The second connect, 150 ms later, and what is decided on it. *)
Recheck(c) ==
    /\ cl[c].pc = "recheck"
    /\ \A d \in cl[c].seen : Alive(d) => dm[d].exit # "delay"
    /\ IF ~daemon_ready
       THEN /\ cl' = [cl EXCEPT ![c].pc = "clean", ![c].at = Len(CleanOrder) + 1,
                                ![c].seen = {}]
            /\ UNCHANGED lock
       ELSE IF ~Holds("token") THEN Fail(c)
       ELSE IF \/ Kind(c) = "prepare"
               \/ daemon_version_matches(c) /\ sha_matches(c)
            THEN Admitted(c)
       ELSE /\ cl' = [cl EXCEPT ![c].pc = "connect", ![c].sub = "prepare",
                                ![c].seen = {}]
            /\ UNCHANGED lock
    /\ UNCHANGED <<file, record, dm, launched, ends>>

(* cleanup_stale_files: once before a start, and once more, before that,   *)
(* for a daemon that has handed over (disconnect_stale_daemon): the turns  *)
(* after the third begin again.                                            *)
CleanTurn(n) == CleanOrder[IF n <= 3 THEN n ELSE n - 3]
Clean(c) ==
    /\ cl[c].pc = "clean"
    /\ file' = Removed(CleanTurn(cl[c].at))
    /\ cl' = [cl EXCEPT ![c].pc = IF cl[c].at = 2 * Len(CleanOrder)
                                  THEN "token" ELSE "clean",
                        ![c].at = IF cl[c].at = 2 * Len(CleanOrder)
                                  THEN 1 ELSE cl[c].at + 1]
    /\ UNCHANGED <<record, lock, dm, launched, ends>>

(* A fresh token is written, only as a new file when cold, and the child   *)
(* is started with it.  A daemon's number stands for its token as well.    *)
Spawn(c) ==
    /\ cl[c].pc = "token"
    /\ \E d \in Daemons :
         /\ dm[d].pc = "unborn" /\ d <= scenario.daemons /\ \A e \in Daemons : dm[e].pc = "unborn" => d <= e
         /\ IF Cold(c) /\ Holds("token")
            THEN Fail(c) /\ UNCHANGED <<file, dm>>
            ELSE /\ file' = [file EXCEPT !["token"] = d]
                 /\ cl' = [cl EXCEPT ![c].pc = "poll", ![c].child = d]
                 /\ dm' = [dm EXCEPT ![d].pc = "write", ![d].build = Build(c),
                                     ![d].cold = Cold(c)]
                 /\ UNCHANGED lock
    /\ UNCHANGED <<record, launched, ends>>

(* The child could not be started: its token, which no daemon has, stays   *)
(* behind.                                                                 *)
SpawnFails(c) ==
    /\ cl[c].pc = "token"
    /\ file' = IF Cold(c) /\ Holds("token") THEN file
               ELSE [file EXCEPT !["token"] = Orphan]
    /\ Fail(c)
    /\ UNCHANGED <<record, dm, launched, ends>>

(* One turn of the wait for the child: it is ready, or the child's exit    *)
(* is looked at next.                                                      *)
Poll(c) ==
    /\ cl[c].pc = "poll"
    /\ IF ~daemon_ready THEN Goto(c, "pollexit") /\ UNCHANGED lock
       ELSE IF Cold(c) /\ (file["pid"] # cl[c].child \/ file["token"] # cl[c].child)
            THEN Fail(c)
       ELSE IF cl[c].handed # Nobody
            THEN /\ cl' = [cl EXCEPT ![c].pc = "connect", ![c].sub = "resume",
                                     ![c].try = 1]
                 /\ UNCHANGED lock
       ELSE Admitted(c)
    /\ UNCHANGED <<file, record, dm, launched, ends>>

(* The child has exited: its words on stderr are looked for the loss of    *)
(* the bind, but the child sent its stderr to /dev/null before the bind,   *)
(* so that the call fails whatever the winner does.                        *)
PollExit(c) ==
    /\ cl[c].pc = "pollexit"
    /\ IF dm[cl[c].child].pc = "dead" THEN Fail(c)
       ELSE Goto(c, "poll") /\ UNCHANGED lock
    /\ UNCHANGED <<file, record, dm, launched, ends>>

PollTimeout(c) ==
    /\ scenario.slow
    /\ cl[c].pc = "poll"
    /\ Fail(c)
    /\ UNCHANGED <<file, record, dm, launched, ends>>

(* What follows an attempt that failed with a transient error.  The first  *)
(* action of a cold start is sent by send_command_once.                    *)
Tries(c) == IF Cold(c) THEN 1 ELSE scenario.tries
Own(c)   == ~cl[c].inside
Retry(c, written) ==
    LET lost == IF written /\ Own(c) THEN cl[c].lost + 1 ELSE cl[c].lost IN
    IF cl[c].try < Tries(c)
    THEN /\ cl' = [cl EXCEPT ![c].pc = "connect", ![c].try = @ + 1, ![c].lost = lost,
                             ![c].peer = Nobody, ![c].accepted = FALSE, ![c].token = Nobody]
         /\ UNCHANGED lock
    ELSE FailLost(c, lost)

(* send_command_once: connect, load the token and write, wait for a line. *)
Connect(c) ==
    /\ cl[c].pc = "connect"
    /\ IF daemon_ready
       THEN cl' = [cl EXCEPT ![c].pc = "send", ![c].peer = file["sock"]] /\ UNCHANGED lock
       ELSE Retry(c, FALSE)
    /\ UNCHANGED <<file, record, dm, launched, ends>>

(* The connection is gone: the peer is dead, or its listener is closed and *)
(* the connection was never accepted.                                      *)
Broken(c) == LET d == cl[c].peer IN ~Alive(d) \/ (~Listening(d) /\ ~cl[c].accepted)

Send(c) ==
    /\ cl[c].pc = "send"
    /\ IF ~Holds("token") \/ Broken(c) THEN Retry(c, FALSE)
       ELSE cl' = [cl EXCEPT ![c].pc = "wait", ![c].token = file["token"]] /\ UNCHANGED lock
    /\ UNCHANGED <<file, record, dm, launched, ends>>

ConnectionLost(c) ==
    /\ cl[c].pc \in {"wait", "running"} /\ ~cl[c].answered /\ Broken(c)
    /\ Retry(c, TRUE)
    /\ UNCHANGED <<file, record, dm, launched, ends>>

(* Mutant: a read that timed out is a transient error. *)
ReadTimeoutRetried(c) ==
    /\ cl[c].pc \in {"wait", "running"} /\ ~cl[c].answered
    /\ Retry(c, FALSE)
    /\ UNCHANGED <<file, record, dm, launched, ends>>

(* 300 s without a line: the one failure of a read that is not retried. *)
ReadTimeout(c) ==
    /\ cl[c].pc \in {"wait", "running"} /\ ~cl[c].answered
    /\ Fail(c)
    /\ UNCHANGED <<file, record, dm, launched, ends>>

(* The answer to the client's own command, to the request to hand over,    *)
(* and to the request to resume.                                           *)
Receive(c) ==
    /\ cl[c].answered /\ cl[c].pc \in {"wait", "running"}
    /\ LET r == [cl[c] EXCEPT !.peer = Nobody, !.accepted = FALSE, !.token = Nobody,
                              !.answered = FALSE, !.answer = NoAnswer]
           a == cl[c].answer
       IN  IF Own(c)
           THEN Forget(c, "done", cl[c].runs, cl[c].lost) /\ UNCHANGED lock
           ELSE IF ~a.ok THEN Fail(c)
           ELSE IF cl[c].sub = "prepare"
           THEN /\ \E known \in BOOLEAN :
                     cl' = [cl EXCEPT ![c] =
                              [r EXCEPT !.pc = "clean", !.at = 1, !.try = 1,
                                        !.handed = a.browser,
                                        !.pid = IF known THEN a.browser ELSE Nobody]]
                /\ UNCHANGED lock
           ELSE IF cl[c].pid # Nobody /\ a.browser # cl[c].pid THEN Fail(c)
           ELSE Admitted(c)
    /\ UNCHANGED <<file, record, dm, launched, ends>>
-----------------------------------------------------------------------------
(* The daemons *)

(* run_daemon: pid, version and the pending hash.  A cold daemon creates   *)
(* each file, and exits when one is there.                                 *)
WriteMetadata(d) ==
    /\ dm[d].pc = "write"
    /\ LET f == WriteOrder[dm[d].at]
           v == [pid |-> d, ver |-> dm[d].build, sha |-> "pending"][f]
       IN  IF dm[d].cold /\ Holds(f)
           THEN dm' = Dead(d, "none") /\ UNCHANGED file
           ELSE /\ file' = [file EXCEPT ![f] = v]
                /\ dm' = [dm EXCEPT ![d].at = IF dm[d].at = 3 THEN 1 ELSE @ + 1,
                                    ![d].pc = IF dm[d].at = 3 THEN "unlink" ELSE "write"]
    /\ UNCHANGED <<record, lock, cl, launched, ends>>

(* A daemon that is not cold removes whatever socket is in its way. *)
Unlink(d) ==
    /\ dm[d].pc = "unlink"
    /\ file' = IF dm[d].cold THEN file ELSE Removed({"sock"})
    /\ dm' = [dm EXCEPT ![d].pc = "bind"]
    /\ UNCHANGED <<record, lock, cl, launched, ends>>

Bind(d) ==
    /\ dm[d].pc = "bind"
    /\ IF Holds("sock")
       THEN dm' = Dead(d, "lostbind") /\ UNCHANGED file
       ELSE file' = [file EXCEPT !["sock"] = d] /\ dm' = [dm EXCEPT ![d].pc = "ident"]
    /\ UNCHANGED <<record, lock, cl, launched, ends>>

(* The hash is computed by a thread of its own, and written at its leisure. *)
WriteSha(d) ==
    /\ dm[d].pc \in {"ident", "stream", "serve", "shutdown", "check", "remove"}
    /\ ~dm[d].sha
    /\ file' = [file EXCEPT !["sha"] = dm[d].build]
    /\ dm' = [dm EXCEPT ![d].sha = TRUE]
    /\ UNCHANGED <<record, lock, cl, launched, ends>>

(* The socket's identity is that of the path, looked up after the bind. *)
Identify(d) ==
    /\ dm[d].pc = "ident"
    /\ dm' = [dm EXCEPT ![d].pc = "stream", ![d].ident = file["sock"]]
    /\ UNCHANGED <<file, record, lock, cl, launched, ends>>

(* The stream file is removed, and written again when the server started. *)
StartStream(d) ==
    /\ dm[d].pc = "stream"
    /\ file' \in {Removed({"stream"}), [file EXCEPT !["stream"] = d]}
    /\ dm' = [dm EXCEPT ![d].pc = "serve"]
    /\ UNCHANGED <<record, lock, cl, launched, ends>>

Accept(d, c) ==
    /\ dm[d].pc = "serve"
    /\ cl[c].pc \in {"send", "wait"} /\ cl[c].peer = d /\ ~cl[c].accepted
    /\ cl' = [cl EXCEPT ![c].accepted = TRUE]
    /\ UNCHANGED <<file, record, lock, dm, launched, ends>>

Reply(c, ok, b) ==
    cl' = [cl EXCEPT ![c].answered = TRUE, ![c].answer = [ok |-> ok, browser |-> b]]

(* A request is on the connection and its handler has not read it. *)
Readable(d, c) == cl[c].pc = "wait" /\ cl[c].peer = d /\ cl[c].accepted /\ ~cl[c].answered

(* handle_connection: a wrong token, and a worker that is shutting down. *)
Refuse(d, c) ==
    /\ Alive(d) /\ Readable(d, c)
    /\ cl[c].token # d \/ dm[d].pc \notin {"serve"}
    /\ Reply(c, FALSE, Nobody)
    /\ UNCHANGED <<file, record, lock, dm, launched, ends>>

(* The worker takes the command of one connection at a time. *)
Take(d, c) ==
    /\ dm[d].pc \in {"serve", "shutdown"} /\ Readable(d, c) /\ cl[c].token = d
    /\ dm[d].job = Nobody
    /\ cl' = [cl EXCEPT ![c].pc = "running",
                        ![c].runs = IF Own(c) THEN @ + 1 ELSE @]
    /\ dm' = [dm EXCEPT ![d].job = c, ![d].step = cl[c].sub]
    /\ UNCHANGED <<file, record, lock, launched, ends>>

(* The connection of the command that runs may be gone by its end. *)
JobEnds(d, ok, b, exits) ==
    LET c == dm[d].job
        heard == cl[c].pc = "running" /\ cl[c].peer = d
    IN  /\ IF heard THEN Reply(c, ok, b) ELSE UNCHANGED cl
        /\ dm' = [dm EXCEPT ![d].job = Nobody, ![d].step = "none",
                            ![d].browser = b,
                            ![d].exit = IF heard /\ ok /\ exits /\ @ = "none"
                                        THEN "replied" ELSE @]

(* Work uses the daemon's browser.  Without one it is auto_launch that      *)
(* answers: it launches a browser, attaches to one of the session or of    *)
(* its profile that runs already, as the service state says, or fails.     *)
Work(d) ==
    /\ Alive(d) /\ dm[d].step = "work"
    /\ \/ /\ dm[d].browser # Nobody
          /\ JobEnds(d, TRUE, dm[d].browser, FALSE)
          /\ UNCHANGED launched
       \/ /\ dm[d].browser = Nobody /\ launched < scenario.browsers
          /\ JobEnds(d, TRUE, launched + 1, FALSE)
          /\ launched' = launched + 1
       \/ /\ dm[d].browser = Nobody
          /\ \E b \in 1 .. launched : JobEnds(d, TRUE, b, FALSE)
          /\ UNCHANGED launched
       \/ /\ dm[d].browser = Nobody
          /\ JobEnds(d, FALSE, Nobody, FALSE)
          /\ UNCHANGED launched
    /\ UNCHANGED <<file, record, lock, ends>>

Close(d) ==
    /\ Alive(d) /\ dm[d].step = "close"
    /\ JobEnds(d, TRUE, Nobody, TRUE)
    /\ UNCHANGED <<file, record, lock, launched, ends>>

(* handle_runtime_handoff_prepare: without a browser the answer depends on *)
(* the descriptor; with one, an older descriptor is removed, the new one   *)
(* renamed into its place, and then the browser relinquished.              *)
PrepareBrowserless(d) ==
    /\ Alive(d) /\ dm[d].step = "prepare" /\ dm[d].browser = Nobody
    /\ JobEnds(d, record.browser = Nobody, Nobody, TRUE)
    /\ UNCHANGED <<file, record, lock, launched, ends>>

RemoveOldRecord(d) ==
    /\ Alive(d) /\ dm[d].step = "prepare" /\ dm[d].browser # Nobody
    /\ record.browser # Nobody
    /\ record' = [record EXCEPT !.browser = Nobody]
    /\ dm' = [dm EXCEPT ![d].step = "publish"]
    /\ UNCHANGED <<file, lock, cl, launched, ends>>

WriteRecord(d) ==
    /\ Alive(d) /\ dm[d].browser # Nobody
    /\ \/ dm[d].step = "prepare" /\ record.browser = Nobody
       \/ dm[d].step = "publish"
    /\ record' = [browser |-> dm[d].browser, by |-> dm[d].job]
    /\ dm' = [dm EXCEPT ![d].step = "relinquish"]
    /\ UNCHANGED <<file, lock, cl, launched, ends>>

(* The browser's connection is not alive, or a file operation fails: the   *)
(* browser stays, and an older descriptor that was removed stays away.     *)
PrepareFails(d) ==
    /\ Alive(d) /\ dm[d].step \in {"prepare", "publish"} /\ dm[d].browser # Nobody
    /\ JobEnds(d, FALSE, dm[d].browser, FALSE)
    /\ UNCHANGED <<file, record, lock, launched, ends>>

Relinquish(d) ==
    /\ Alive(d) /\ dm[d].step = "relinquish"
    /\ LET c == dm[d].job
           heard == cl[c].pc = "running" /\ cl[c].peer = d
       IN  /\ IF heard THEN Reply(c, TRUE, dm[d].browser) ELSE UNCHANGED cl
           /\ dm' = [dm EXCEPT ![d].job = Nobody, ![d].step = "none",
                               ![d].browser = Nobody,
                               ![d].exit = IF heard /\ @ = "none" THEN "replied" ELSE @]
    /\ UNCHANGED <<file, record, lock, launched, ends>>

(* Mutant: a daemon that has a browser is taken to have resumed. *)
ResumeWithAny(d) ==
    /\ Alive(d) /\ dm[d].step = "resume"
    /\ IF dm[d].browser # Nobody \/ record.browser = Nobody
       THEN JobEnds(d, dm[d].browser # Nobody, dm[d].browser, FALSE)
       ELSE dm' = [dm EXCEPT ![d].browser = record.browser, ![d].step = "forget"] /\ UNCHANGED cl
    /\ UNCHANGED <<file, record, lock, launched, ends>>

(* handle_runtime_handoff_resume: attach to the recorded browser, which    *)
(* may fail, and only then remove the record, if it can be removed.        *)
Resume(d) ==
    /\ Alive(d) /\ dm[d].step = "resume"
    /\ IF dm[d].browser # Nobody \/ record.browser = Nobody
       THEN JobEnds(d, FALSE, dm[d].browser, FALSE)
       ELSE dm' = [dm EXCEPT ![d].browser = record.browser, ![d].step = "forget"] /\ UNCHANGED cl
    /\ UNCHANGED <<file, record, lock, launched, ends>>
ResumeFails(d) ==
    /\ Alive(d) /\ dm[d].step = "resume" /\ dm[d].browser = Nobody /\ record.browser # Nobody
    /\ JobEnds(d, FALSE, Nobody, FALSE)
    /\ UNCHANGED <<file, record, lock, launched, ends>>
RemoveRecord(d) ==
    /\ Alive(d) /\ dm[d].step = "forget"
    /\ record' \in {record, [record EXCEPT !.browser = Nobody]}
    /\ JobEnds(d, TRUE, dm[d].browser, FALSE)
    /\ UNCHANGED <<file, lock, launched, ends>>

(* After a close or a hand-over was answered its handler removes the       *)
(* stream file, sleeps 100 ms and tells the accept loop.                   *)
HandlerRemovesStream(d) ==
    /\ Alive(d) /\ dm[d].exit = "replied"
    /\ file' = Removed({"stream"})
    /\ dm' = [dm EXCEPT ![d].exit = "delay"]
    /\ UNCHANGED <<record, lock, cl, launched, ends>>
HandlerNotifies(d) ==
    /\ Alive(d) /\ dm[d].exit = "delay"
    /\ dm' = [dm EXCEPT ![d].exit = "notified"]
    /\ UNCHANGED <<file, record, lock, cl, launched, ends>>

(* The accept loop ends: told by a handler, or idle or signalled, whatever *)
(* the worker is doing.  The worker is given 2 s, the listener still open. *)
StopNotified(d) ==
    /\ dm[d].pc = "serve" /\ dm[d].exit = "notified"
    /\ dm' = [dm EXCEPT ![d].pc = "shutdown"]
    /\ UNCHANGED <<file, record, lock, cl, launched, ends>>
StopIdleOrSignalled(d) ==
    /\ dm[d].pc = "serve" /\ ends.stops < scenario.stops
    /\ dm' = [dm EXCEPT ![d].pc = "shutdown"]
    /\ ends' = [ends EXCEPT !.stops = @ + 1]
    /\ UNCHANGED <<file, record, lock, cl, launched>>
CloseListener(d) ==
    /\ dm[d].pc = "shutdown"
    /\ dm' = [dm EXCEPT ![d].pc = "check"]
    /\ UNCHANGED <<file, record, lock, cl, launched, ends>>

(* owns_session_artifacts, and then the removals one by one. *)
CheckOwnership(d) ==
    /\ dm[d].pc = "check"
    /\ dm' = IF Holds("sock") /\ file["sock"] = dm[d].ident
             THEN [dm EXCEPT ![d].pc = "remove"] ELSE Dead(d, "none")
    /\ UNCHANGED <<file, record, lock, cl, launched, ends>>
RemoveArtifact(d) ==
    /\ dm[d].pc = "remove"
    /\ file' = Removed(RemoveOrder[dm[d].at])
    /\ dm' = IF dm[d].at = Len(RemoveOrder) THEN Dead(d, "none")
             ELSE [dm EXCEPT ![d].at = @ + 1]
    /\ UNCHANGED <<record, lock, cl, launched, ends>>

(* The process is killed, or panics: no cleanup runs. *)
Crash(d) ==
    /\ Alive(d) /\ ends.crashes < scenario.crashes
    /\ dm' = Dead(d, "none")
    /\ ends' = [ends EXCEPT !.crashes = @ + 1]
    /\ UNCHANGED <<file, record, lock, cl, launched>>
-----------------------------------------------------------------------------
(* No daemon has run yet, or one of FirstBuild serves, with a browser. *)
Init ==
    /\ scenario \in Scenarios
    /\ lock = Nobody /\ record = [browser |-> Nobody, by |-> Nobody]
    /\ ends = [crashes |-> 0, stops |-> 0]
    /\ cl = [c \in Clients |-> Idle(c)]
    /\ \/ /\ dm = [d \in Daemons |-> NoDaemon]
          /\ file = [f \in Files |-> NoFile(f)]
          /\ launched = 0
       \/ /\ scenario.browsers > 0
          /\ dm = [[d \in Daemons |-> NoDaemon] EXCEPT
                     ![1] = [NoDaemon EXCEPT !.pc = "serve", !.build = FirstBuild,
                                             !.ident = 1, !.sha = TRUE, !.browser = 1]]
          /\ file = [f \in Files |-> IF f \in OwnedFiles THEN 1 ELSE FirstBuild]
          /\ launched = 1

EnsureStep(c) ==
    \/ AcquireLock(c) \/ LockTimeout(c) \/ AdmitCold(c) \/ Admit(c) \/ Recheck(c)
    \/ Clean(c) \/ Spawn(c) \/ SpawnFails(c) \/ Poll(c) \/ PollExit(c) \/ PollTimeout(c)
SendStep(c) ==
    \/ Connect(c) \/ Send(c) \/ ConnectionLost(c) \/ ReadTimeout(c) \/ Receive(c)
StartStep(d) ==
    \/ WriteMetadata(d) \/ Unlink(d) \/ Bind(d) \/ WriteSha(d) \/ Identify(d) \/ StartStream(d)
ServeStep(d) ==
    \/ \E c \in Clients : Accept(d, c) \/ Refuse(d, c) \/ Take(d, c)
    \/ Work(d) \/ Close(d) \/ PrepareBrowserless(d) \/ RemoveOldRecord(d) \/ WriteRecord(d)
    \/ PrepareFails(d) \/ Relinquish(d) \/ Resume(d) \/ ResumeFails(d) \/ RemoveRecord(d)
    \/ HandlerRemovesStream(d) \/ HandlerNotifies(d)
StopStep(d) ==
    \/ StopNotified(d) \/ StopIdleOrSignalled(d) \/ CloseListener(d)
    \/ CheckOwnership(d) \/ RemoveArtifact(d)

ClientStep(c) == (EnsureStep(c) \/ SendStep(c)) /\ UNCHANGED scenario
DaemonStep(d) ==
    (StartStep(d) \/ ServeStep(d) \/ StopStep(d) \/ Crash(d)) /\ UNCHANGED scenario

Next ==
    \/ \E c \in Clients : ClientStep(c)
    \/ \E d \in Daemons : DaemonStep(d)

Spec == Init /\ [][Next]_vars

-----------------------------------------------------------------------------
(* Type correctness. *)
TypeOK ==
    /\ DOMAIN file = Files
    /\ \A f \in OwnedFiles : file[f] \in Daemons \cup {Nobody, Orphan}
    /\ \A f \in Files \ OwnedFiles :
         file[f] \in {Absent, "pending", FirstBuild} \cup {Build(c) : c \in Clients}
    /\ record \in [browser : Browsers \cup {Nobody}, by : Clients \cup {Nobody}]
    /\ lock \in Clients \cup {Nobody}
    /\ \A c \in Clients : /\ cl[c].try \in 1 .. scenario.tries
                          /\ {cl[c].peer, cl[c].token, cl[c].child} \subseteq Daemons \cup {Nobody, Orphan}
    /\ \A d \in Daemons : /\ dm[d].browser \in Browsers \cup {Nobody}
                          /\ dm[d].job \in Clients \cup {Nobody}
    /\ launched \in 0 .. scenario.browsers
    /\ ends \in [crashes : 0 .. scenario.crashes, stops : 0 .. scenario.stops]

(* send_command writes the same command again after a transient error.  It *)
(* runs a second time only when the connection it was written on has been  *)
(* lost: a slow answer is never a reason to run a command twice            *)
(* (is_command_response_read_timeout).                                     *)
RunAgainOnlyAfterLoss == \A c \in Clients : cl[c].runs <= cl[c].lost + 1

(* The first action of a cold start runs at most once, whatever happens to *)
(* the daemons and the connection (send_command_once in mcp.rs).           *)
ColdOnce == \A c \in Clients : Cold(c) => cl[c].runs <= 1

(* A command runs as often as send_command and send_command_once allow.    *)
RunsHaveCause == TypeOK /\ RunAgainOnlyAfterLoss /\ ColdOnce

(* A client that is told that the replacement resumed the hand-over it had *)
(* asked for goes on with the very browser that was handed over, its       *)
(* process known or not, whatever other clients have the replacement do    *)
(* meanwhile.  The descriptor names one browser: when a hand-over asked    *)
(* for by another client has written it since, it names that one's.        *)
ResumedWhatWasHanded ==
    \A c \in Clients :
        cl[c].inside /\ cl[c].sub = "resume" /\ cl[c].answered /\ cl[c].answer.ok
          => cl[c].answer.browser = cl[c].handed \/ record.by # c

(* When nobody starts or stops a daemon, and a daemon answers on the path, *)
(* the token file is that daemon's: the session is not locked out.  A      *)
(* start that outlasts its client may bind with a token that was replaced. *)
Quiet == /\ lock = Nobody
         /\ \A d \in Daemons : dm[d].pc \in {"unborn", "serve", "dead"}
QuietSessionAuthorised == ~scenario.slow /\ Quiet /\ daemon_ready => file["token"] = file["sock"]

-----------------------------------------------------------------------------
(* What a comment or a document says and the code does not keep: no run     *)
(* checks these; the README names the scenario that refutes each.           *)

(* A daemon that retires after a hand-over removes nothing that a daemon   *)
(* which has bound the path meanwhile has written (run_daemon's cleanup    *)
(* and the handler that answered the hand-over).                           *)
RetiringSparesReplacement ==
    [][\A d \in Daemons :
          dm[d].exit # "none" /\ dm[d].pc # "bind" /\ dm'[d] # dm[d]
            => \A f \in {"sock", "pid", "stream"} :
                 file[f] \notin {Nobody, d} /\ Listening(file[f]) => file'[f] = file[f]]_vars

(* A daemon that is still there at the second connect is not shutting down. *)
ReadyIsNotLeaving ==
    [][\A c \in Clients :
          cl[c].pc = "recheck" /\ cl'[c].pc = "connect"
            => dm[file["sock"]].pc # "shutdown"]_vars

(* A client whose daemon lost the bind uses the winner when there is one.  *)
LoserUsesWinner ==
    [][\A c \in Clients :
          (/\ cl[c].pc = "pollexit" /\ cl'[c].pc = "failed"
           /\ dm[cl[c].child].exit = "lostbind") => ~daemon_ready]_vars
=============================================================================
