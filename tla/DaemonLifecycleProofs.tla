------------------------ MODULE DaemonLifecycleProofs ------------------------
(***************************************************************************)
(* Proofs about DaemonLifecycle: commands run as often as the transport    *)
(* allows (RunsAreCaused), a session at rest is not locked out             *)
(* (QuietSessionsAreAuthorised), and a client whose hand-over was resumed  *)
(* has the browser that was handed over (HandOversAreResumed).             *)
(***************************************************************************)
EXTENDS DaemonLifecycle, TLAPS

Procs  == Daemons \cup {Nobody, Orphan}
Held   == Browsers \cup {Nobody}
Builds == {Absent, "pending", FirstBuild} \cup {Build(c) : c \in Clients}
Labels == {"lock", "admit", "recheck", "clean", "token", "poll", "pollexit", "connect", "send",
           "wait", "running", "done", "failed"}
Phases == {"unborn", "write", "unlink", "bind", "ident", "stream", "serve", "shutdown", "check",
           "remove", "dead"}
Descriptors == [browser : Held, by : Clients \cup {Nobody}]
Answers == [ok : BOOLEAN, browser : Held]
ClientRecord ==
    [pc : Labels, sub : {"work", "close", "prepare", "resume"}, inside : BOOLEAN, at : 1 .. 6,
     child : Procs, seen : SUBSET Daemons, handed : Held, pid : Held, try : Nat \ {0}, peer : Procs,
     accepted : BOOLEAN, token : Procs, answer : Answers,
     answered : BOOLEAN, runs : Nat, lost : Nat]
DaemonRecord ==
    [pc : Phases, at : 1 .. 3, build : Builds, cold : BOOLEAN, ident : Procs, sha : BOOLEAN,
     browser : Held, job : Clients \cup {Nobody},
     step : {"none", "work", "close", "prepare", "publish", "relinquish", "resume", "forget"},
     exit : {"none", "lostbind", "replied", "delay", "notified"}]

(* Files, clients and daemons. *)
FilesTyped ==
    /\ scenario \in Scenarios /\ DOMAIN file = Files
    /\ file = [f \in Files |-> file[f]]
    /\ \A f \in OwnedFiles : file[f] \in Procs
    /\ \A f \in Files \ OwnedFiles : file[f] \in Builds
    /\ file["sock"] # Orphan
    /\ record \in Descriptors /\ lock \in Clients \cup {Nobody}
    /\ launched \in 0 .. scenario.browsers
    /\ ends \in [crashes : 0 .. scenario.crashes, stops : 0 .. scenario.stops]
ClientsTyped ==
    /\ cl \in [Clients -> ClientRecord]
    /\ \A c \in Clients : cl[c].try <= scenario.tries
DaemonsTyped ==
    /\ dm \in [Daemons -> DaemonRecord]
    /\ \A d \in Daemons : dm[d].step # "none" => dm[d].job \in Clients
Typed == FilesTyped /\ ClientsTyped /\ DaemonsTyped

(* A command that is being sent has not run since a connection was last     *)
(* lost; a cold client never asks for a hand-over and sends once.           *)
Sending == {"connect", "send", "wait"}
Counted ==
    \A c \in Clients :
        /\ cl[c].inside => cl[c].runs = 0 /\ cl[c].lost = 0
        /\ cl[c].pc \in Sending => cl[c].runs <= cl[c].lost
        /\ cl[c].runs <= cl[c].lost + 1
        /\ Cold(c) => /\ cl[c].try = 1 /\ cl[c].runs <= 1
                      /\ cl[c].pc \in Sending => cl[c].runs = 0
                      /\ cl[c].inside =>
                           /\ cl[c].pc \in {"lock", "admit", "token", "poll", "pollexit"}
                           /\ cl[c].handed = Nobody

(* The startup lock is held by the client that is inside ensure_daemon. *)
Locked ==
    \A c \in Clients :
        /\ lock = c <=> cl[c].inside /\ cl[c].pc # "lock"
        /\ cl[c].pc \in {"lock", "admit", "recheck", "clean", "token", "poll", "pollexit"} =>
             cl[c].inside

(* A daemon that starts has neither a command nor an end. *)
Unused ==
    \A d \in Daemons :
        dm[d].pc \in {"unborn", "write", "unlink", "bind", "ident", "stream"} =>
            dm[d].step = "none" /\ dm[d].exit = "none"

(* When every start is in time: a daemon that has not bound yet is the      *)
(* child its client waits for, and the token is that of the daemon on the   *)
(* socket path except while the files are being removed.                    *)
Starting(d) == dm[d].pc \in {"write", "unlink", "bind"}
Watched ==
    ~scenario.slow =>
        /\ \A d \in Daemons : Starting(d) =>
             \E c \in Clients : /\ lock = c /\ cl[c].child = d
                                /\ cl[c].pc \in {"poll", "pollexit"}
        /\ \A c \in Clients :
             /\ cl[c].pc = "token" => file["sock"] = Nobody
             /\ cl[c].pc \in {"poll", "pollexit"} =>
                  /\ cl[c].child \in Daemons /\ file["token"] = cl[c].child
                  /\ file["sock"] \in {Nobody, cl[c].child}
        /\ file["sock"] # Nobody =>
             \/ file["token"] = file["sock"]
             \/ \E c \in Clients : lock = c /\ cl[c].pc = "clean" /\ cl[c].at \in {3, 6}

Inductive == Typed /\ Counted /\ Locked /\ Unused /\ Watched

-----------------------------------------------------------------------------
(* Operators. *)

(* The files a client removes at each turn: the token in the second, the    *)
(* socket in the third, and so again.                                       *)
LEMMA CleanTurns ==
    ASSUME NEW n \in 1 .. 6
    PROVE  /\ "sock" \in CleanTurn(n) <=> n \in {3, 6}
           /\ "token" \in CleanTurn(n) <=> n \in {2, 5}
<1>1. CleanOrder[1] = {"pid", "ver", "sha"}
  BY DEF CleanOrder
<1>2. CleanOrder[2] = {"token", "stream"}
  BY DEF CleanOrder
<1>3. CleanOrder[3] = {"sock"}
  BY DEF CleanOrder
<1>5. CASE n \in {1, 4}
  <2>1. CleanTurn(n) = {"pid", "ver", "sha"}
    BY <1>1, <1>5 DEF CleanTurn
  <2> QED BY <2>1, <1>5
<1>6. CASE n \in {2, 5}
  <2>1. CleanTurn(n) = {"token", "stream"}
    BY <1>2, <1>6 DEF CleanTurn
  <2> QED BY <2>1, <1>6
<1>7. CASE n \in {3, 6}
  <2>1. CleanTurn(n) = {"sock"}
    BY <1>3, <1>7 DEF CleanTurn
  <2> QED BY <2>1, <1>7
<1> QED BY <1>5, <1>6, <1>7

LEMMA CleanLength == Len(CleanOrder) = 3
BY DEF CleanOrder

(* The scenario does not change, and what it bounds is a number. *)
LEMMA ScenarioFacts ==
    ASSUME FilesTyped
    PROVE  /\ scenario.tries \in Nat \ {0} /\ scenario.browsers \in 0 .. MaxBrowsers
           /\ scenario.crashes \in Nat /\ scenario.stops \in Nat /\ scenario.slow \in BOOLEAN
           /\ \A c \in Clients : /\ Kind(c) \in {"work", "close", "prepare"} /\ Cold(c) \in BOOLEAN
                                 /\ Cold(c) => Kind(c) = "work"
           /\ MaxDaemons \in Nat \ {0} /\ MaxBrowsers \in Nat /\ Nobody \notin Clients
           /\ Orphan \notin Daemons /\ Nobody \notin Daemons /\ Orphan # Nobody
<1>1. scenario \in Scenario /\ scenario.browsers <= MaxBrowsers
      /\ \A c \in Clients : scenario.cold[c] => scenario.kind[c] = "work"
  BY LifecycleAssumption DEF FilesTyped
<1>2. /\ scenario.tries \in Nat \ {0} /\ scenario.browsers \in Nat
      /\ scenario.crashes \in Nat /\ scenario.stops \in Nat /\ scenario.slow \in BOOLEAN
      /\ scenario.kind \in [Clients -> {"work", "close", "prepare"}]
      /\ scenario.cold \in [Clients -> BOOLEAN]
  BY <1>1 DEF Scenario
<1> QED BY <1>1, <1>2, LifecycleAssumption DEF Kind, Cold, Orphan, Nobody, Daemons

(* Removing files keeps their types. *)
LEMMA RemovedTyped ==
    ASSUME FilesTyped, NEW F, file' = Removed(F)
    PROVE  /\ DOMAIN file' = Files /\ file' = [f \in Files |-> file'[f]]
           /\ \A f \in OwnedFiles : file'[f] \in Procs
           /\ \A f \in Files \ OwnedFiles : file'[f] \in Builds
           /\ file'["sock"] # Orphan
           /\ \A f \in Files : file'[f] = IF f \in F THEN NoFile(f) ELSE file[f]
<1>1. /\ DOMAIN file' = Files /\ file' = [f \in Files |-> file'[f]]
      /\ \A f \in Files : file'[f] = IF f \in F THEN NoFile(f) ELSE file[f]
  BY DEF Removed
<1>2. \A f \in OwnedFiles : NoFile(f) = Nobody /\ f \in Files
  BY DEF NoFile, OwnedFiles, Files
<1>3. \A f \in Files \ OwnedFiles : NoFile(f) = Absent
  BY DEF NoFile
<1>4. "sock" \in OwnedFiles
  BY DEF OwnedFiles
<1> QED BY <1>1, <1>2, <1>3, <1>4, ScenarioFacts DEF FilesTyped, Procs, Builds

(* Writing one file. *)
LEMMA WrittenTyped ==
    ASSUME FilesTyped, NEW f \in Files, NEW v, file' = [file EXCEPT ![f] = v],
           f \in OwnedFiles => v \in Procs, f \notin OwnedFiles => v \in Builds,
           f = "sock" => v # Orphan
    PROVE  /\ DOMAIN file' = Files /\ file' = [g \in Files |-> file'[g]]
           /\ \A g \in OwnedFiles : file'[g] \in Procs
           /\ \A g \in Files \ OwnedFiles : file'[g] \in Builds
           /\ file'["sock"] # Orphan
           /\ file'[f] = v /\ \A g \in Files : g # f => file'[g] = file[g]
<1>1. /\ DOMAIN file' = Files /\ file' = [g \in Files |-> file'[g]]
      /\ file'[f] = v /\ \A g \in Files : g # f => file'[g] = file[g]
  BY DEF FilesTyped
<1>2. OwnedFiles \subseteq Files /\ "sock" \in Files
  BY DEF OwnedFiles, Files
<1> QED BY <1>1, <1>2 DEF FilesTyped

-----------------------------------------------------------------------------
(* What the steps do to one client or one daemon. *)

(* A step that changes one client keeps the types when its record does. *)
LEMMA OneClient ==
    ASSUME Inductive, NEW c \in Clients, NEW r, cl' = [cl EXCEPT ![c] = r],
           r \in ClientRecord, r.try <= scenario.tries, UNCHANGED scenario
    PROVE  /\ ClientsTyped' /\ cl'[c] = r
           /\ \A b \in Clients : b # c => cl'[b] = cl[b]
<1>1. cl \in [Clients -> ClientRecord] /\ \A b \in Clients : cl[b].try <= scenario.tries
  BY DEF Inductive, Typed, ClientsTyped
<1>2. cl' \in [Clients -> ClientRecord]
  BY <1>1
<1> QED BY <1>1, <1>2 DEF ClientsTyped

(* A step that changes one daemon. *)
LEMMA OneDaemon ==
    ASSUME Inductive, NEW d \in Daemons, NEW r, dm' = [dm EXCEPT ![d] = r],
           r \in DaemonRecord, r.step # "none" => r.job \in Clients, UNCHANGED scenario
    PROVE  /\ DaemonsTyped' /\ dm'[d] = r
           /\ \A e \in Daemons : e # d => dm'[e] = dm[e]
<1>1. /\ dm \in [Daemons -> DaemonRecord]
      /\ \A e \in Daemons : dm[e].step # "none" => dm[e].job \in Clients
  BY DEF Inductive, Typed, DaemonsTyped
<1>2. DaemonRecord' = DaemonRecord
  BY DEF DaemonRecord, Builds, Build
<1>3. dm' \in [Daemons -> DaemonRecord]
  BY <1>1
<1> QED BY <1>1, <1>2, <1>3 DEF DaemonsTyped

(* The files, the browsers and the limits are as they were. *)
LEMMA SameFiles ==
    ASSUME Inductive, lock' \in Clients \cup {Nobody}, UNCHANGED <<scenario, file, record, launched, ends>>
    PROVE  FilesTyped'
BY DEF Inductive, Typed, FilesTyped, Builds, Build

LEMMA SameDaemons ==
    ASSUME Inductive, UNCHANGED <<scenario, dm>>
    PROVE  DaemonsTyped' /\ Unused'
BY DEF Inductive, Typed, DaemonsTyped, DaemonRecord, Builds, Build, Unused

LEMMA SameClients ==
    ASSUME Inductive, UNCHANGED <<scenario, cl, lock>>
    PROVE  ClientsTyped' /\ Counted' /\ Locked'
BY DEF Inductive, Typed, ClientsTyped, Counted, Locked, Cold

(* The record a client starts with. *)
LEMMA IdleTyped ==
    ASSUME FilesTyped, NEW c \in Clients
    PROVE  Idle(c) \in ClientRecord
<1>1. Nobody \in Procs /\ Nobody \in Held
  BY DEF Procs, Held
<1>2. NoAnswer \in Answers
  BY <1>1 DEF NoAnswer, Answers
<1> QED BY <1>1, <1>2, ScenarioFacts DEF Idle, ClientRecord, Labels

(* A call that has left ensure_daemon or has ended. *)
LEMMA Forgotten ==
    ASSUME Inductive, NEW c \in Clients, NEW label \in Labels, NEW runs \in Nat, NEW lost \in Nat,
           Forget(c, label, runs, lost), UNCHANGED scenario
    PROVE  /\ ClientsTyped'
           /\ cl'[c].pc = label /\ ~cl'[c].inside /\ cl'[c].runs = runs /\ cl'[c].lost = lost
           /\ cl'[c].try = 1 /\ cl'[c].handed = Nobody /\ cl'[c].child = Nobody
           /\ \A b \in Clients : b # c => cl'[b] = cl[b]
<1> DEFINE r == [Idle(c) EXCEPT !.pc = label, !.inside = FALSE, !.runs = runs, !.lost = lost]
<1>1. Idle(c) \in ClientRecord
  BY IdleTyped DEF Inductive, Typed
<1>2. Idle(c).try = 1 /\ Idle(c).handed = Nobody /\ Idle(c).child = Nobody
  BY DEF Idle
<1>3. /\ r \in ClientRecord /\ r.pc = label /\ ~r.inside /\ r.runs = runs /\ r.lost = lost
      /\ r.try = 1 /\ r.handed = Nobody /\ r.child = Nobody
  BY <1>1, <1>2 DEF ClientRecord
<1>4. cl' = [cl EXCEPT ![c] = r]
  BY DEF Forget
<1>5. scenario.tries \in Nat \ {0}
  BY ScenarioFacts DEF Inductive, Typed
<1> HIDE DEF r
<1>6. r.try <= scenario.tries
  BY <1>3, <1>5
<1>7. ClientsTyped' /\ cl'[c] = r /\ \A b \in Clients : b # c => cl'[b] = cl[b]
  BY <1>3, <1>4, <1>6, OneClient
<1> QED BY <1>3, <1>7

(* A call ends, or goes on to its own command: the lock is free, and it     *)
(* leaves no daemon behind that is still on its way to the bind.            *)
LEMMA Left ==
    ASSUME Inductive, NEW c \in Clients, NEW label \in {"failed", "done", "connect"},
           NEW runs \in Nat, NEW lost \in Nat,
           Forget(c, label, runs, lost), UNCHANGED <<scenario, dm>>,
           lock' = IF lock = c THEN Nobody ELSE lock,
           FilesTyped', file'["sock"] = file["sock"],
           file'["token"] = file["token"] \/ cl[c].pc = "token",
           runs <= lost + 1, label = "connect" => runs = 0, Cold(c) => runs <= 1,
           cl[c].pc # "clean",
           ~scenario.slow /\ cl[c].pc \in {"poll", "pollexit"} => ~Starting(cl[c].child)
    PROVE  Inductive'
<1>1. /\ ClientsTyped'
      /\ cl'[c].pc = label /\ ~cl'[c].inside /\ cl'[c].runs = runs /\ cl'[c].lost = lost
      /\ cl'[c].try = 1 /\ cl'[c].handed = Nobody /\ cl'[c].child = Nobody
      /\ \A b \in Clients : b # c => cl'[b] = cl[b]
  BY Forgotten DEF Labels
<1>2. DaemonsTyped' /\ Unused'
  BY SameDaemons
<1>3. Counted'
  BY <1>1 DEF Inductive, Counted, Sending, Cold
<1>4. Locked'
  <2>1. Nobody \notin Clients
    BY ScenarioFacts DEF Inductive, Typed
  <2> QED BY <1>1, <2>1 DEF Inductive, Locked
<1>5. Watched'
  <2> SUFFICES ASSUME ~scenario.slow PROVE Watched'
    BY DEF Watched
  <2>1. \A b \in Clients : cl[b].pc \in {"admit", "recheck", "clean", "token", "poll", "pollexit"}
                             => lock = b
    BY DEF Inductive, Locked
  <2>2. ASSUME NEW d \in Daemons, Starting(d)'
        PROVE  \E b \in Clients : /\ lock' = b /\ cl'[b].child = d
                                  /\ cl'[b].pc \in {"poll", "pollexit"}
    <3>1. Starting(d)
      BY <2>2 DEF Starting
    <3>2. PICK b \in Clients : lock = b /\ cl[b].child = d /\ cl[b].pc \in {"poll", "pollexit"}
      BY <3>1 DEF Inductive, Watched
    <3>3. b # c
      BY <3>1, <3>2
    <3> QED BY <1>1, <3>2, <3>3
  <2>3. ASSUME NEW b \in Clients
        PROVE  /\ cl'[b].pc = "token" => file'["sock"] = Nobody
               /\ cl'[b].pc \in {"poll", "pollexit"} =>
                    /\ cl'[b].child \in Daemons /\ file'["token"] = cl'[b].child
                    /\ file'["sock"] \in {Nobody, cl'[b].child}
    <3>1. CASE b = c
      BY <1>1, <3>1
    <3>2. CASE b # c
      BY <1>1, <2>1, <3>2 DEF Inductive, Watched
    <3> QED BY <3>1, <3>2
  <2>4. file'["sock"] # Nobody =>
             \/ file'["token"] = file'["sock"]
             \/ \E b \in Clients : lock' = b /\ cl'[b].pc = "clean" /\ cl'[b].at \in {3, 6}
    <3> SUFFICES ASSUME file["sock"] # Nobody, file["token"] # file["sock"]
                 PROVE  \E b \in Clients : lock' = b /\ cl'[b].pc = "clean" /\ cl'[b].at \in {3, 6}
      BY DEF Inductive, Watched
    <3>1. PICK b \in Clients : lock = b /\ cl[b].pc = "clean" /\ cl[b].at \in {3, 6}
      BY DEF Inductive, Watched
    <3> QED BY <1>1, <3>1
  <2> QED BY <2>2, <2>3, <2>4 DEF Watched
<1> QED BY <1>1, <1>2, <1>3, <1>4, <1>5 DEF Inductive, Typed

(* A client goes from one place of its call to another, inside or outside   *)
(* of ensure_daemon as it was.                                              *)
LEMMA Moved ==
    ASSUME Inductive, NEW c \in Clients, NEW r, cl' = [cl EXCEPT ![c] = r],
           UNCHANGED <<scenario, lock>>, file'["sock"] = file["sock"], file'["token"] = file["token"],
           \A d \in Daemons : Starting(d)' => Starting(d),
           r \in ClientRecord, r.try <= scenario.tries,
           r.inside = cl[c].inside, cl[c].pc # "lock", r.pc # "lock",
           r.pc \in {"admit", "recheck", "clean", "token", "poll", "pollexit"} => r.inside,
           r.inside => r.runs = 0 /\ r.lost = 0,
           r.pc \in Sending => r.runs <= r.lost,
           r.runs <= r.lost + 1,
           Cold(c) => /\ r.try = 1 /\ r.runs <= 1
                      /\ r.pc \in Sending => r.runs = 0
                      /\ r.inside => /\ r.pc \in {"lock", "admit", "token", "poll", "pollexit"}
                                     /\ r.handed = Nobody,
           cl[c].pc # "clean",
           ~scenario.slow => /\ r.pc = "token" => file["sock"] = Nobody
                             /\ r.pc \in {"poll", "pollexit"} =>
                                  r.child = cl[c].child /\ cl[c].pc \in {"poll", "pollexit"}
                             /\ cl[c].pc \in {"poll", "pollexit"} /\ Starting(cl[c].child) =>
                                  r.child = cl[c].child /\ r.pc \in {"poll", "pollexit"}
    PROVE  ClientsTyped' /\ Counted' /\ Locked' /\ Watched'
<1>1. ClientsTyped' /\ cl'[c] = r /\ \A b \in Clients : b # c => cl'[b] = cl[b]
  BY OneClient
<1>2. Counted'
  BY <1>1 DEF Inductive, Counted, Sending, Cold
<1>3. Locked'
  BY <1>1 DEF Inductive, Locked
<1>4. Watched'
  <2> SUFFICES ASSUME ~scenario.slow PROVE Watched'
    BY DEF Watched
  <2>1. ASSUME NEW d \in Daemons, Starting(d)'
        PROVE  \E b \in Clients : /\ lock' = b /\ cl'[b].child = d
                                  /\ cl'[b].pc \in {"poll", "pollexit"}
    <3>1. PICK b \in Clients : lock = b /\ cl[b].child = d /\ cl[b].pc \in {"poll", "pollexit"}
      BY <2>1 DEF Inductive, Watched
    <3> QED BY <1>1, <2>1, <3>1
  <2>2. ASSUME NEW b \in Clients
        PROVE  /\ cl'[b].pc = "token" => file'["sock"] = Nobody
               /\ cl'[b].pc \in {"poll", "pollexit"} =>
                    /\ cl'[b].child \in Daemons /\ file'["token"] = cl'[b].child
                    /\ file'["sock"] \in {Nobody, cl'[b].child}
    BY <1>1 DEF Inductive, Watched
  <2>3. file'["sock"] # Nobody =>
             \/ file'["token"] = file'["sock"]
             \/ \E b \in Clients : lock' = b /\ cl'[b].pc = "clean" /\ cl'[b].at \in {3, 6}
    BY <1>1 DEF Inductive, Watched
  <2> QED BY <2>1, <2>2, <2>3 DEF Watched
<1> QED BY <1>1, <1>2, <1>3, <1>4

-----------------------------------------------------------------------------
(* The clients. *)

LEMMA AcquireLockStep ==
    ASSUME Inductive, NEW c \in Clients, AcquireLock(c), UNCHANGED scenario
    PROVE  Inductive'
<1> DEFINE r == [cl[c] EXCEPT !.pc = "admit"]
<1>1. cl[c] \in ClientRecord /\ cl[c].try <= scenario.tries /\ cl[c].pc = "lock" /\ lock = Nobody
      /\ lock' = c /\ Nobody \notin Clients
  BY ScenarioFacts DEF Inductive, Typed, ClientsTyped, AcquireLock
<1>2. /\ r \in ClientRecord /\ r.pc = "admit" /\ r.inside = cl[c].inside /\ r.try = cl[c].try
      /\ r.runs = cl[c].runs /\ r.lost = cl[c].lost /\ r.handed = cl[c].handed
  BY <1>1 DEF ClientRecord, Labels
<1>3. cl' = [cl EXCEPT ![c] = r]
  BY DEF AcquireLock, Goto
<1> HIDE DEF r
<1>4. ClientsTyped' /\ cl'[c] = r /\ \A b \in Clients : b # c => cl'[b] = cl[b]
  BY <1>1, <1>2, <1>3, OneClient
<1>5. FilesTyped' /\ DaemonsTyped' /\ Unused'
  BY <1>1, SameFiles, SameDaemons DEF AcquireLock
<1>6. Counted'
  BY <1>1, <1>2, <1>4 DEF Inductive, Counted, Sending, Cold
<1>7. Locked'
  BY <1>1, <1>2, <1>4 DEF Inductive, Locked
<1>8. Watched'
  <2>1. UNCHANGED <<file, dm>>
    BY DEF AcquireLock
  <2> QED BY <1>1, <1>2, <1>4, <2>1 DEF Inductive, Watched, Starting
<1> QED BY <1>4, <1>5, <1>6, <1>7, <1>8 DEF Inductive, Typed

(* The record of a client, and its place in the call. *)
LEMMA ClientFacts ==
    ASSUME Inductive, NEW c \in Clients
    PROVE  /\ cl[c] \in ClientRecord /\ cl[c].try <= scenario.tries
           /\ cl[c].runs \in Nat /\ cl[c].lost \in Nat /\ cl[c].runs <= cl[c].lost + 1
           /\ Cold(c) => cl[c].runs <= 1
           /\ Nobody \notin Clients
           /\ cl[c].pc # "lock" => (cl[c].inside <=> lock = c)
<1>1. cl[c] \in ClientRecord
  BY DEF Inductive, Typed, ClientsTyped
<1>2. cl[c].runs \in Nat /\ cl[c].lost \in Nat
  BY <1>1 DEF ClientRecord
<1> QED BY <1>1, <1>2, ScenarioFacts DEF Inductive, Typed, ClientsTyped, Counted, Locked

LEMMA FailStep ==
    ASSUME Inductive, NEW c \in Clients, NEW lost \in {cl[c].lost, cl[c].lost + 1},
           FailLost(c, lost), UNCHANGED <<scenario, dm>>,
           FilesTyped', file'["sock"] = file["sock"],
           file'["token"] = file["token"] \/ cl[c].pc = "token",
           cl[c].pc # "clean", cl[c].pc # "lock",
           ~scenario.slow /\ cl[c].pc \in {"poll", "pollexit"} => ~Starting(cl[c].child)
    PROVE  Inductive'
<1> DEFINE runs == cl[c].runs
<1>1. runs \in Nat /\ lost \in Nat /\ runs <= lost + 1
  BY ClientFacts
<1>2. Forget(c, "failed", runs, lost) /\ lock' = IF lock = c THEN Nobody ELSE lock
  BY ClientFacts DEF FailLost
<1>3. Cold(c) => runs <= 1
  BY ClientFacts
<1> HIDE DEF runs
<1> QED BY <1>1, <1>2, <1>3, Left

LEMMA AdmittedStep ==
    ASSUME Inductive, NEW c \in Clients, Admitted(c),
           UNCHANGED <<scenario, file, record, dm, launched, ends>>, cl[c].inside,
           cl[c].pc # "clean", cl[c].pc # "lock",
           ~scenario.slow /\ cl[c].pc \in {"poll", "pollexit"} => ~Starting(cl[c].child)
    PROVE  Inductive'
<1>1. Forget(c, "connect", 0, 0) /\ lock' = IF lock = c THEN Nobody ELSE lock
  BY ClientFacts DEF Admitted
<1>2. FilesTyped'
  BY SameFiles DEF Admitted
<1> QED BY <1>1, <1>2, Left

LEMMA LockTimeoutStep ==
    ASSUME Inductive, NEW c \in Clients, LockTimeout(c), UNCHANGED scenario
    PROVE  Inductive'
<1>1. FilesTyped'
  BY SameFiles DEF LockTimeout, Inductive, Typed, FilesTyped
<1>2. cl[c].pc = "lock" /\ lock # c
  BY DEF LockTimeout, Inductive, Locked
<1>3. Forget(c, "failed", 0, 0) /\ lock' = IF lock = c THEN Nobody ELSE lock
  BY <1>2 DEF LockTimeout
<1> QED BY <1>1, <1>2, <1>3, Left DEF LockTimeout

LEMMA AdmitColdStep ==
    ASSUME Inductive, NEW c \in Clients, AdmitCold(c), UNCHANGED scenario
    PROVE  Inductive'
<1>1. cl[c].pc = "admit" /\ Cold(c) /\ UNCHANGED <<file, record, dm, launched, ends>>
  BY DEF AdmitCold
<1>2. CASE Fail(c)
  <2>1. lock' \in Clients \cup {Nobody}
    BY <1>2 DEF Fail, FailLost, Inductive, Typed, FilesTyped
  <2>2. FilesTyped'
    BY <1>1, <2>1, SameFiles
  <2> QED BY <1>1, <1>2, <2>2, FailStep DEF Fail
<1>3. CASE Goto(c, "token") /\ UNCHANGED lock /\ ~Holds("sock")
  <2> DEFINE r == [cl[c] EXCEPT !.pc = "token"]
  <2>1. /\ r \in ClientRecord /\ r.pc = "token" /\ r.inside = cl[c].inside /\ r.try = cl[c].try
        /\ r.runs = cl[c].runs /\ r.lost = cl[c].lost /\ r.handed = cl[c].handed
        /\ r.child = cl[c].child
    BY ClientFacts DEF ClientRecord, Labels
  <2>2. cl' = [cl EXCEPT ![c] = r]
    BY <1>3 DEF Goto
  <2>3. file["sock"] = Nobody
    BY <1>3 DEF Holds, NoFile, OwnedFiles
  <2> HIDE DEF r
  <2>4. ClientsTyped' /\ Counted' /\ Locked' /\ Watched'
    <3>1. \A d \in Daemons : Starting(d)' => Starting(d)
      BY <1>1 DEF Starting
    <3>2. cl[c].inside /\ cl[c].runs = 0 /\ cl[c].lost = 0 /\ cl[c].try = 1 /\ cl[c].handed = Nobody
      BY <1>1 DEF Inductive, Counted, Locked
    <3> QED BY <1>1, <1>3, <2>1, <2>2, <2>3, <3>1, <3>2, ClientFacts, Moved DEF Sending
  <2>5. FilesTyped' /\ DaemonsTyped' /\ Unused'
    BY <1>1, <1>3, SameFiles, SameDaemons DEF Inductive, Typed, FilesTyped
  <2> QED BY <2>4, <2>5 DEF Inductive, Typed
<1> QED BY <1>1, <1>2, <1>3 DEF AdmitCold, Files

(* A client goes on, and nothing else changes. *)
LEMMA Walked ==
    ASSUME Inductive, NEW c \in Clients, NEW r, cl' = [cl EXCEPT ![c] = r],
           UNCHANGED <<scenario, file, record, lock, dm, launched, ends>>,
           r \in ClientRecord, r.try <= scenario.tries,
           r.inside = cl[c].inside, cl[c].pc # "lock", r.pc # "lock",
           r.pc \in {"admit", "recheck", "clean", "token", "poll", "pollexit"} => r.inside,
           r.inside => r.runs = 0 /\ r.lost = 0,
           r.pc \in Sending => r.runs <= r.lost,
           r.runs <= r.lost + 1,
           Cold(c) => /\ r.try = 1 /\ r.runs <= 1
                      /\ r.pc \in Sending => r.runs = 0
                      /\ r.inside => /\ r.pc \in {"lock", "admit", "token", "poll", "pollexit"}
                                     /\ r.handed = Nobody,
           cl[c].pc # "clean",
           ~scenario.slow => /\ r.pc = "token" => file["sock"] = Nobody
                             /\ r.pc \in {"poll", "pollexit"} =>
                                  r.child = cl[c].child /\ cl[c].pc \in {"poll", "pollexit"}
                             /\ cl[c].pc \in {"poll", "pollexit"} /\ Starting(cl[c].child) =>
                                  r.child = cl[c].child /\ r.pc \in {"poll", "pollexit"}
    PROVE  Inductive'
<1>1. \A d \in Daemons : Starting(d)' => Starting(d)
  BY DEF Starting
<1>2. ClientsTyped' /\ Counted' /\ Locked' /\ Watched'
  BY <1>1, Moved
<1>3. FilesTyped' /\ DaemonsTyped' /\ Unused'
  BY SameFiles, SameDaemons DEF Inductive, Typed, FilesTyped
<1> QED BY <1>2, <1>3 DEF Inductive, Typed

(* An attempt failed: the command is sent again or the call ends. *)
LEMMA RetryStep ==
    ASSUME Inductive, NEW c \in Clients, NEW written \in BOOLEAN, Retry(c, written),
           UNCHANGED <<scenario, file, record, dm, launched, ends>>,
           cl[c].pc \in {"connect", "send", "wait", "running"},
           ~written => cl[c].pc \in Sending
    PROVE  Inductive'
<1> DEFINE lost == IF written /\ Own(c) THEN cl[c].lost + 1 ELSE cl[c].lost
<1>1. /\ lost \in {cl[c].lost, cl[c].lost + 1} /\ lost \in Nat /\ cl[c].runs <= lost + 1
      /\ cl[c].runs <= lost
      /\ cl[c].inside => cl[c].runs = 0 /\ lost = 0
  BY ClientFacts DEF Inductive, Counted, Own
<1>2. \/ cl[c].try < Tries(c) /\ UNCHANGED lock
         /\ cl' = [cl EXCEPT ![c].pc = "connect", ![c].try = @ + 1, ![c].lost = lost,
                             ![c].peer = Nobody, ![c].accepted = FALSE, ![c].token = Nobody]
      \/ FailLost(c, lost)
  BY DEF Retry
<1> HIDE DEF lost
<1>3. CASE FailLost(c, lost)
  <2>1. lock' \in Clients \cup {Nobody}
    BY <1>3 DEF FailLost, Inductive, Typed, FilesTyped
  <2>2. FilesTyped'
    BY <2>1, SameFiles
  <2> QED BY <1>1, <1>3, <2>2, FailStep
<1>4. CASE cl[c].try < Tries(c) /\ UNCHANGED lock
           /\ cl' = [cl EXCEPT ![c].pc = "connect", ![c].try = @ + 1, ![c].lost = lost,
                               ![c].peer = Nobody, ![c].accepted = FALSE, ![c].token = Nobody]
  <2> DEFINE r == [cl[c] EXCEPT !.pc = "connect", !.try = @ + 1, !.lost = lost,
                                !.peer = Nobody, !.accepted = FALSE, !.token = Nobody]
  <2>1. cl[c] \in ClientRecord /\ cl[c].try \in Nat \ {0} /\ scenario.tries \in Nat \ {0}
    BY ClientFacts, ScenarioFacts DEF ClientRecord, Inductive, Typed
  <2>2. ~Cold(c) /\ cl[c].try + 1 <= scenario.tries
    BY <1>4, <2>1 DEF Tries, Inductive, Counted
  <2>3. /\ r \in ClientRecord /\ r.pc = "connect" /\ r.inside = cl[c].inside
        /\ r.try = cl[c].try + 1 /\ r.runs = cl[c].runs /\ r.lost = lost
    <3>1. "connect" \in Labels /\ Nobody \in Procs /\ cl[c].try + 1 \in Nat \ {0}
      BY <2>1 DEF Labels, Procs
    <3> QED BY <1>1, <2>1, <3>1 DEF ClientRecord
  <2>4. cl' = [cl EXCEPT ![c] = r]
    BY <1>4
  <2> HIDE DEF r
  <2> QED BY <1>1, <1>4, <2>2, <2>3, <2>4, Walked
<1> QED BY <1>2, <1>3, <1>4

LEMMA ConnectStep ==
    ASSUME Inductive, NEW c \in Clients, Connect(c), UNCHANGED scenario
    PROVE  Inductive'
<1>1. cl[c].pc = "connect" /\ UNCHANGED <<file, record, dm, launched, ends>>
  BY DEF Connect
<1>2. CASE Retry(c, FALSE)
  BY <1>1, <1>2, RetryStep DEF Sending
<1>3. CASE cl' = [cl EXCEPT ![c].pc = "send", ![c].peer = file["sock"]] /\ UNCHANGED lock
  <2> DEFINE r == [cl[c] EXCEPT !.pc = "send", !.peer = file["sock"]]
  <2>1. file["sock"] \in Procs
    BY DEF Inductive, Typed, FilesTyped, OwnedFiles
  <2>2. /\ r \in ClientRecord /\ r.pc = "send" /\ r.inside = cl[c].inside /\ r.try = cl[c].try
        /\ r.runs = cl[c].runs /\ r.lost = cl[c].lost /\ r.handed = cl[c].handed
    <3>1. "send" \in Labels
      BY DEF Labels
    <3> QED BY <2>1, <3>1, ClientFacts DEF ClientRecord
  <2>3. cl' = [cl EXCEPT ![c] = r]
    BY <1>3
  <2>4. /\ cl[c].inside => ~Cold(c) /\ cl[c].runs = 0 /\ cl[c].lost = 0
        /\ cl[c].runs <= cl[c].lost
        /\ Cold(c) => cl[c].try = 1 /\ cl[c].runs = 0
    BY <1>1 DEF Inductive, Counted, Sending
  <2> HIDE DEF r
  <2> QED BY <1>1, <1>3, <2>2, <2>3, <2>4, ClientFacts, Walked
<1> QED BY <1>2, <1>3 DEF Connect

LEMMA SendStepKeeps ==
    ASSUME Inductive, NEW c \in Clients, Send(c), UNCHANGED scenario
    PROVE  Inductive'
<1>1. cl[c].pc = "send" /\ UNCHANGED <<file, record, dm, launched, ends>>
  BY DEF Send
<1>2. CASE Retry(c, FALSE)
  BY <1>1, <1>2, RetryStep DEF Sending
<1>3. CASE cl' = [cl EXCEPT ![c].pc = "wait", ![c].token = file["token"]] /\ UNCHANGED lock
  <2> DEFINE r == [cl[c] EXCEPT !.pc = "wait", !.token = file["token"]]
  <2>1. file["token"] \in Procs
    BY DEF Inductive, Typed, FilesTyped, OwnedFiles
  <2>2. /\ r \in ClientRecord /\ r.pc = "wait" /\ r.inside = cl[c].inside /\ r.try = cl[c].try
        /\ r.runs = cl[c].runs /\ r.lost = cl[c].lost /\ r.handed = cl[c].handed
    <3>1. "wait" \in Labels
      BY DEF Labels
    <3> QED BY <2>1, <3>1, ClientFacts DEF ClientRecord
  <2>3. cl' = [cl EXCEPT ![c] = r]
    BY <1>3
  <2>4. /\ cl[c].inside => ~Cold(c) /\ cl[c].runs = 0 /\ cl[c].lost = 0
        /\ cl[c].runs <= cl[c].lost
        /\ Cold(c) => cl[c].try = 1 /\ cl[c].runs = 0
    BY <1>1 DEF Inductive, Counted, Sending
  <2> HIDE DEF r
  <2> QED BY <1>1, <1>3, <2>2, <2>3, <2>4, ClientFacts, Walked
<1> QED BY <1>2, <1>3 DEF Send

LEMMA ConnectionLostStep ==
    ASSUME Inductive, NEW c \in Clients, ConnectionLost(c), UNCHANGED scenario
    PROVE  Inductive'
BY RetryStep DEF ConnectionLost

LEMMA ReadTimeoutStep ==
    ASSUME Inductive, NEW c \in Clients, ReadTimeout(c), UNCHANGED scenario
    PROVE  Inductive'
<1>1. lock' \in Clients \cup {Nobody}
  BY DEF ReadTimeout, Fail, FailLost, Inductive, Typed, FilesTyped
<1>2. FilesTyped'
  BY <1>1, SameFiles DEF ReadTimeout
<1> QED BY <1>2, FailStep DEF ReadTimeout, Fail

(* The end of ensure_daemon by failure, the files untouched. *)
LEMMA PlainFail ==
    ASSUME Inductive, NEW c \in Clients, Fail(c),
           UNCHANGED <<scenario, file, record, dm, launched, ends>>,
           cl[c].pc # "clean", cl[c].pc # "lock",
           ~scenario.slow /\ cl[c].pc \in {"poll", "pollexit"} => ~Starting(cl[c].child)
    PROVE  Inductive'
<1>1. lock' \in Clients \cup {Nobody}
  BY DEF Fail, FailLost, Inductive, Typed, FilesTyped
<1>2. FilesTyped'
  BY <1>1, SameFiles
<1> QED BY <1>2, FailStep DEF Fail

LEMMA ReceiveStep ==
    ASSUME Inductive, NEW c \in Clients, Receive(c), UNCHANGED scenario
    PROVE  Inductive'
<1> DEFINE r0 == [cl[c] EXCEPT !.peer = Nobody, !.accepted = FALSE, !.token = Nobody,
                               !.answered = FALSE, !.answer = NoAnswer]
           r(known) == [r0 EXCEPT !.pc = "clean", !.at = 1, !.try = 1,
                                  !.handed = cl[c].answer.browser,
                                  !.pid = IF known THEN cl[c].answer.browser ELSE Nobody]
<1>1. cl[c].pc \in {"wait", "running"} /\ UNCHANGED <<file, record, dm, launched, ends>>
  BY DEF Receive
<1>2. CASE Own(c) /\ Forget(c, "done", cl[c].runs, cl[c].lost) /\ UNCHANGED lock
  <2>1. FilesTyped'
    BY <1>1, <1>2, SameFiles DEF Inductive, Typed, FilesTyped
  <2>2. lock' = IF lock = c THEN Nobody ELSE lock
    BY <1>1, <1>2, ClientFacts DEF Own
  <2> DEFINE runs == cl[c].runs
             lost == cl[c].lost
  <2>3. runs \in Nat /\ lost \in Nat /\ runs <= lost + 1
    BY ClientFacts
  <2>4. Cold(c) => runs <= 1
    BY ClientFacts
  <2>5. Forget(c, "done", runs, lost)
    BY <1>2
  <2> HIDE DEF runs, lost
  <2> QED BY <1>1, <1>2, <2>1, <2>2, <2>3, <2>4, <2>5, Left
<1>3. CASE Fail(c)
  BY <1>1, <1>3, PlainFail
<1>4. CASE ~Own(c) /\ UNCHANGED lock /\ \E known \in BOOLEAN : cl' = [cl EXCEPT ![c] = r(known)]
  <2>1. PICK known \in BOOLEAN : cl' = [cl EXCEPT ![c] = r(known)]
    BY <1>4
  <2>2. /\ Nobody \in Procs /\ Nobody \in Held /\ "clean" \in Labels /\ 1 \in 1 .. 6
        /\ NoAnswer \in Answers /\ 1 \in Nat \ {0}
    BY DEF Procs, Held, Labels, NoAnswer, Answers
  <2>8. cl[c].answer.browser \in Held
    BY ClientFacts DEF ClientRecord, Answers
  <2>3. r0 \in ClientRecord
    BY <2>2, ClientFacts DEF ClientRecord
  <2>4. /\ r0.inside = cl[c].inside /\ r0.runs = cl[c].runs /\ r0.lost = cl[c].lost
    BY ClientFacts DEF ClientRecord
  <2> HIDE DEF r0
  <2> DEFINE q == r(known)
  <2>5. /\ q \in ClientRecord /\ q.pc = "clean" /\ q.try = 1
        /\ q.inside = cl[c].inside /\ q.runs = cl[c].runs /\ q.lost = cl[c].lost
    BY <2>2, <2>3, <2>4, <2>8 DEF ClientRecord
  <2>9. cl' = [cl EXCEPT ![c] = q]
    BY <2>1
  <2> HIDE DEF r, q
  <2>6. cl[c].inside /\ cl[c].runs = 0 /\ cl[c].lost = 0 /\ ~Cold(c)
    BY <1>1, <1>4, ClientFacts DEF Own, Inductive, Counted, ClientRecord
  <2>7. scenario.tries \in Nat \ {0}
    BY ScenarioFacts DEF Inductive, Typed
  <2>10. UNCHANGED lock
    BY <1>4
  <2>11. q.runs = 0 /\ q.lost = 0 /\ q.inside /\ q.runs <= q.lost + 1 /\ q.try <= scenario.tries
         /\ q.pc \notin Sending
    BY <2>5, <2>6, <2>7 DEF Sending
  <2> QED BY <1>1, <2>5, <2>6, <2>9, <2>10, <2>11, Walked
<1>5. CASE Admitted(c) /\ ~Own(c)
  BY <1>1, <1>5, AdmittedStep, ClientFacts DEF Own, ClientRecord
<1> HIDE DEF r
<1>6. Own(c) \/ Fail(c) \/ (Admitted(c) /\ ~Own(c))
      \/ (~Own(c) /\ UNCHANGED lock /\ \E known \in BOOLEAN : cl' = [cl EXCEPT ![c] = r(known)])
  BY DEF Receive, r
<1>7. Own(c) => Forget(c, "done", cl[c].runs, cl[c].lost) /\ UNCHANGED lock
  BY DEF Receive
<1> QED BY <1>2, <1>3, <1>4, <1>5, <1>6, <1>7

LEMMA AdmitStep ==
    ASSUME Inductive, NEW c \in Clients, Admit(c), UNCHANGED scenario
    PROVE  Inductive'
<1> DEFINE S == {d \in Daemons : dm[d].exit = "delay"}
           r == [cl[c] EXCEPT !.pc = "recheck", !.seen = S]
           q == [cl[c] EXCEPT !.pc = "clean", !.at = 4]
<1>1. /\ cl[c].pc = "admit" /\ ~Cold(c) /\ UNCHANGED <<file, record, lock, dm, launched, ends>>
      /\ cl' = [cl EXCEPT ![c] = r] \/ cl' = [cl EXCEPT ![c] = q]
  <2>1. Len(CleanOrder) + 1 = 4
    BY CleanLength
  <2> QED BY <2>1, Zenon DEF Admit
<1>2. S \in SUBSET Daemons /\ {"recheck", "clean"} \subseteq Labels /\ 4 \in 1 .. 6
  BY DEF Labels
<1>3. cl[c].inside /\ cl[c].runs = 0 /\ cl[c].lost = 0
  BY <1>1, ClientFacts DEF Inductive, Counted, Locked
<1> HIDE DEF S
<1>4. CASE cl' = [cl EXCEPT ![c] = r]
  <2>1. /\ r \in ClientRecord /\ r.pc = "recheck" /\ r.inside = cl[c].inside /\ r.try = cl[c].try
        /\ r.runs = cl[c].runs /\ r.lost = cl[c].lost
    BY <1>2, ClientFacts DEF ClientRecord
  <2> HIDE DEF r
  <2> QED BY <1>1, <1>3, <1>4, <2>1, ClientFacts, Walked DEF Sending
<1>5. CASE cl' = [cl EXCEPT ![c] = q]
  <2>1. /\ q \in ClientRecord /\ q.pc = "clean" /\ q.inside = cl[c].inside /\ q.try = cl[c].try
        /\ q.runs = cl[c].runs /\ q.lost = cl[c].lost
    BY <1>2, ClientFacts DEF ClientRecord
  <2> HIDE DEF q
  <2> QED BY <1>1, <1>3, <1>5, <2>1, ClientFacts, Walked DEF Sending
<1> QED BY <1>1, <1>4, <1>5

LEMMA RecheckStep ==
    ASSUME Inductive, NEW c \in Clients, Recheck(c), UNCHANGED scenario
    PROVE  Inductive'
<1> DEFINE r == [cl[c] EXCEPT !.pc = "clean", !.at = 4, !.seen = {}]
           q == [cl[c] EXCEPT !.pc = "connect", !.sub = "prepare", !.seen = {}]
<1>1. /\ cl[c].pc = "recheck" /\ UNCHANGED <<file, record, dm, launched, ends>>
  BY DEF Recheck
<1>2. \/ cl' = [cl EXCEPT ![c] = r] /\ UNCHANGED lock
      \/ cl' = [cl EXCEPT ![c] = q] /\ UNCHANGED lock
      \/ Fail(c) \/ Admitted(c)
  <2>1. Len(CleanOrder) + 1 = 4
    BY CleanLength
  <2> QED BY <2>1, Zenon DEF Recheck
<1>3. cl[c].inside /\ cl[c].runs = 0 /\ cl[c].lost = 0 /\ ~Cold(c)
  BY <1>1, ClientFacts DEF Inductive, Counted, Locked
<1>4. {} \in SUBSET Daemons /\ {"connect", "clean"} \subseteq Labels /\ 4 \in 1 .. 6
  BY DEF Labels
<1>5. CASE cl' = [cl EXCEPT ![c] = r] /\ UNCHANGED lock
  <2>1. /\ r \in ClientRecord /\ r.pc = "clean" /\ r.inside = cl[c].inside /\ r.try = cl[c].try
        /\ r.runs = cl[c].runs /\ r.lost = cl[c].lost
    BY <1>4, ClientFacts DEF ClientRecord
  <2> HIDE DEF r
  <2> QED BY <1>1, <1>3, <1>5, <2>1, ClientFacts, Walked DEF Sending
<1>6. CASE cl' = [cl EXCEPT ![c] = q] /\ UNCHANGED lock
  <2>1. /\ q \in ClientRecord /\ q.pc = "connect" /\ q.inside = cl[c].inside /\ q.try = cl[c].try
        /\ q.runs = cl[c].runs /\ q.lost = cl[c].lost
    BY <1>4, ClientFacts DEF ClientRecord
  <2> HIDE DEF q
  <2>2. q.runs = 0 /\ q.lost = 0 /\ q.inside /\ q.runs <= q.lost
    BY <1>3, <2>1
  <2> QED BY <1>1, <1>3, <1>6, <2>1, <2>2, ClientFacts, Walked
<1>7. CASE Fail(c)
  BY <1>1, <1>7, PlainFail
<1>8. CASE Admitted(c)
  BY <1>1, <1>3, <1>8, AdmittedStep
<1> QED BY <1>2, <1>5, <1>6, <1>7, <1>8

(* The daemon on the path is past its bind: the child its client waits for. *)
LEMMA ReadyChild ==
    ASSUME Inductive, NEW c \in Clients, ~scenario.slow, cl[c].pc \in {"poll", "pollexit"},
           daemon_ready
    PROVE  ~Starting(cl[c].child)
<1>1. file["sock"] # Nobody /\ Listening(file["sock"])
  BY DEF daemon_ready, Holds, NoFile, OwnedFiles
<1>2. file["sock"] = cl[c].child
  BY <1>1 DEF Inductive, Watched
<1> QED BY <1>1, <1>2 DEF Listening, Starting

LEMMA PollStep ==
    ASSUME Inductive, NEW c \in Clients, Poll(c), UNCHANGED scenario
    PROVE  Inductive'
<1> DEFINE r == [cl[c] EXCEPT !.pc = "pollexit"]
           q == [cl[c] EXCEPT !.pc = "connect", !.sub = "resume", !.try = 1]
<1>1. /\ cl[c].pc = "poll" /\ UNCHANGED <<file, record, dm, launched, ends>>
  BY DEF Poll
<1>2. \/ cl' = [cl EXCEPT ![c] = r] /\ UNCHANGED lock
      \/ daemon_ready /\ cl' = [cl EXCEPT ![c] = q] /\ UNCHANGED lock /\ cl[c].handed # Nobody
      \/ daemon_ready /\ Fail(c)
      \/ daemon_ready /\ Admitted(c)
  BY DEF Poll, Goto
<1>3. /\ cl[c].inside /\ cl[c].runs = 0 /\ cl[c].lost = 0
      /\ Cold(c) => cl[c].handed = Nobody /\ cl[c].try = 1
  BY <1>1, ClientFacts DEF Inductive, Counted, Locked
<1>4. {"connect", "pollexit"} \subseteq Labels /\ 1 \in Nat \ {0} /\ 1 <= scenario.tries
  BY ScenarioFacts DEF Labels, Inductive, Typed
<1>5. CASE cl' = [cl EXCEPT ![c] = r] /\ UNCHANGED lock
  <2>1. /\ r \in ClientRecord /\ r.pc = "pollexit" /\ r.inside = cl[c].inside /\ r.try = cl[c].try
        /\ r.runs = cl[c].runs /\ r.lost = cl[c].lost /\ r.handed = cl[c].handed
        /\ r.child = cl[c].child
    BY <1>4, ClientFacts DEF ClientRecord
  <2> HIDE DEF r
  <2>2. r.runs = 0 /\ r.lost = 0 /\ r.inside /\ r.runs <= r.lost + 1 /\ r.pc \notin Sending
    BY <1>3, <2>1 DEF Sending
  <2> QED BY <1>1, <1>3, <1>5, <2>1, <2>2, ClientFacts, Walked
<1>6. CASE daemon_ready /\ cl' = [cl EXCEPT ![c] = q] /\ UNCHANGED lock /\ cl[c].handed # Nobody
  <2>1. /\ q \in ClientRecord /\ q.pc = "connect" /\ q.inside = cl[c].inside /\ q.try = 1
        /\ q.runs = cl[c].runs /\ q.lost = cl[c].lost
    BY <1>4, ClientFacts DEF ClientRecord
  <2> HIDE DEF q
  <2>2. q.runs = 0 /\ q.lost = 0 /\ q.inside /\ q.runs <= q.lost + 1 /\ q.runs <= q.lost
    BY <1>3, <2>1
  <2>3. ~scenario.slow => ~Starting(cl[c].child)
    BY <1>1, <1>6, ReadyChild
  <2> QED BY <1>1, <1>3, <1>4, <1>6, <2>1, <2>2, <2>3, Walked
<1>7. CASE daemon_ready /\ Fail(c)
  BY <1>1, <1>7, ReadyChild, PlainFail
<1>8. CASE daemon_ready /\ Admitted(c)
  BY <1>1, <1>3, <1>8, ReadyChild, AdmittedStep
<1> QED BY <1>2, <1>5, <1>6, <1>7, <1>8

LEMMA PollExitStep ==
    ASSUME Inductive, NEW c \in Clients, PollExit(c), UNCHANGED scenario
    PROVE  Inductive'
<1> DEFINE r == [cl[c] EXCEPT !.pc = "poll"]
<1>1. /\ cl[c].pc = "pollexit" /\ UNCHANGED <<file, record, dm, launched, ends>>
  BY DEF PollExit
<1>2. \/ cl' = [cl EXCEPT ![c] = r] /\ UNCHANGED lock
      \/ dm[cl[c].child].pc = "dead" /\ Fail(c)
  BY DEF PollExit, Goto
<1>3. /\ cl[c].inside /\ cl[c].runs = 0 /\ cl[c].lost = 0
      /\ Cold(c) => cl[c].handed = Nobody /\ cl[c].try = 1
  BY <1>1, ClientFacts DEF Inductive, Counted, Locked
<1>4. CASE cl' = [cl EXCEPT ![c] = r] /\ UNCHANGED lock
  <2>1. /\ r \in ClientRecord /\ r.pc = "poll" /\ r.inside = cl[c].inside /\ r.try = cl[c].try
        /\ r.runs = cl[c].runs /\ r.lost = cl[c].lost /\ r.handed = cl[c].handed
        /\ r.child = cl[c].child
    <3>1. "poll" \in Labels
      BY DEF Labels
    <3> QED BY <3>1, ClientFacts DEF ClientRecord
  <2> HIDE DEF r
  <2>2. r.runs = 0 /\ r.lost = 0 /\ r.inside /\ r.runs <= r.lost + 1 /\ r.pc \notin Sending
    BY <1>3, <2>1 DEF Sending
  <2> QED BY <1>1, <1>3, <1>4, <2>1, <2>2, ClientFacts, Walked
<1>5. CASE dm[cl[c].child].pc = "dead" /\ Fail(c)
  <2>1. ~Starting(cl[c].child)
    BY <1>5 DEF Starting
  <2> QED BY <1>1, <1>5, <2>1, PlainFail
<1> QED BY <1>2, <1>4, <1>5

LEMMA PollTimeoutStep ==
    ASSUME Inductive, NEW c \in Clients, PollTimeout(c), UNCHANGED scenario
    PROVE  Inductive'
BY PlainFail DEF PollTimeout

(* While a client cleans or writes the token, no daemon is on its way. *)
LEMMA NobodyStarts ==
    ASSUME Inductive, NEW c \in Clients, cl[c].pc \in {"clean", "token"}
    PROVE  /\ lock = c /\ cl[c].inside
           /\ \A b \in Clients :
                b # c => cl[b].pc \notin {"admit", "recheck", "clean", "token", "poll", "pollexit"}
           /\ ~scenario.slow => \A d \in Daemons : ~Starting(d)
<1>1. lock = c /\ cl[c].inside
  BY DEF Inductive, Locked
<1>2. \A b \in Clients :
        b # c => cl[b].pc \notin {"admit", "recheck", "clean", "token", "poll", "pollexit"}
  BY <1>1 DEF Inductive, Locked
<1> QED BY <1>1, <1>2 DEF Inductive, Watched

LEMMA CleanStep ==
    ASSUME Inductive, NEW c \in Clients, Clean(c), UNCHANGED scenario
    PROVE  Inductive'
<1> DEFINE n == cl[c].at
           r == [cl[c] EXCEPT !.pc = IF n = 6 THEN "token" ELSE "clean",
                              !.at = IF n = 6 THEN 1 ELSE n + 1]
<1>1. /\ cl[c].pc = "clean" /\ UNCHANGED <<record, lock, dm, launched, ends>>
      /\ file' = Removed(CleanTurn(n))
  BY DEF Clean
<1>2. cl' = [cl EXCEPT ![c] = r]
  <2>1. 2 * Len(CleanOrder) = 6
    BY CleanLength
  <2> QED BY <2>1, Zenon DEF Clean
<1>3. n \in 1 .. 6 /\ 1 \in 1 .. 6 /\ (n # 6 => n + 1 \in 1 .. 6) /\ {"token", "clean"} \subseteq Labels
  BY ClientFacts DEF ClientRecord, Labels
<1>4. /\ cl[c].inside /\ cl[c].runs = 0 /\ cl[c].lost = 0 /\ ~Cold(c)
  BY <1>1, NobodyStarts DEF Inductive, Counted
<1> HIDE DEF n
<1>5. /\ r \in ClientRecord /\ r.inside = cl[c].inside /\ r.try = cl[c].try
      /\ r.runs = cl[c].runs /\ r.lost = cl[c].lost
      /\ r.pc = (IF n = 6 THEN "token" ELSE "clean") /\ r.at = (IF n = 6 THEN 1 ELSE n + 1)
  <2>1. CASE n = 6
    BY <1>3, <2>1, ClientFacts DEF ClientRecord
  <2>2. CASE n # 6
    BY <1>3, <2>2, ClientFacts DEF ClientRecord
  <2> QED BY <2>1, <2>2
<1> HIDE DEF r
<1>6. ClientsTyped' /\ cl'[c] = r /\ \A b \in Clients : b # c => cl'[b] = cl[b]
  BY <1>2, <1>5, ClientFacts, OneClient
<1>7. /\ FilesTyped'
      /\ \A f \in Files : file'[f] = IF f \in CleanTurn(n) THEN NoFile(f) ELSE file[f]
  BY <1>1, RemovedTyped DEF Inductive, Typed, FilesTyped, Builds, Build
<1>8. DaemonsTyped' /\ Unused'
  BY <1>1, SameDaemons
<1>9. Counted'
  BY <1>4, <1>5, <1>6 DEF Inductive, Counted, Sending, Cold
<1>10. Locked'
  BY <1>1, <1>4, <1>5, <1>6 DEF Inductive, Locked
<1>11. Watched'
  <2> SUFFICES ASSUME ~scenario.slow PROVE Watched'
    BY DEF Watched
  <2>1. /\ file'["sock"] = IF n \in {3, 6} THEN Nobody ELSE file["sock"]
        /\ file'["token"] = IF n \in {2, 5} THEN Nobody ELSE file["token"]
    BY <1>3, <1>7, CleanTurns DEF Files, NoFile, OwnedFiles
  <2>2. \A d \in Daemons : ~Starting(d)'
    BY <1>1, NobodyStarts DEF Starting
  <2>3. \A b \in Clients : /\ cl'[b].pc = "token" => file'["sock"] = Nobody
                           /\ cl'[b].pc \notin {"poll", "pollexit"}
    BY <1>1, <1>5, <1>6, <2>1, NobodyStarts
  <2>4. ASSUME file'["sock"] # Nobody
        PROVE  \/ file'["token"] = file'["sock"]
               \/ \E b \in Clients : lock' = b /\ cl'[b].pc = "clean" /\ cl'[b].at \in {3, 6}
    <3>1. n \notin {3, 6} /\ file'["sock"] = file["sock"] /\ cl'[c].pc = "clean"
          /\ cl'[c].at = n + 1 /\ lock' = c
      BY <1>1, <1>5, <1>6, <2>1, <2>4, NobodyStarts
    <3>2. CASE n \in {2, 5}
      BY <3>1, <3>2
    <3>3. CASE n \notin {2, 5}
      <4>1. file["token"] = file["sock"]
        BY <1>1, <2>4, <3>1, NobodyStarts DEF Inductive, Watched, n
      <4> QED BY <2>1, <3>1, <3>3, <4>1
    <3> QED BY <3>2, <3>3
  <2> QED BY <2>2, <2>3, <2>4 DEF Watched
<1> QED BY <1>6, <1>7, <1>8, <1>9, <1>10, <1>11 DEF Inductive, Typed

LEMMA SpawnFailsStep ==
    ASSUME Inductive, NEW c \in Clients, SpawnFails(c), UNCHANGED scenario
    PROVE  Inductive'
<1>1. cl[c].pc = "token" /\ UNCHANGED <<record, dm, launched, ends>> /\ Fail(c)
  BY DEF SpawnFails
<1>2. lock' \in Clients \cup {Nobody}
  BY <1>1 DEF Fail, FailLost, Inductive, Typed, FilesTyped
<1>3. FilesTyped' /\ file'["sock"] = file["sock"]
  <2>1. CASE file' = file
    BY <1>1, <1>2, <2>1, SameFiles
  <2>2. CASE file' = [file EXCEPT !["token"] = Orphan]
    <3>1. "token" \in Files /\ "token" \in OwnedFiles /\ Orphan \in Procs /\ "sock" \in Files
      BY DEF Files, OwnedFiles, Procs
    <3>2. /\ DOMAIN file' = Files /\ file' = [g \in Files |-> file'[g]]
          /\ \A g \in OwnedFiles : file'[g] \in Procs
          /\ \A g \in Files \ OwnedFiles : file'[g] \in Builds
          /\ file'["sock"] # Orphan /\ file'["sock"] = file["sock"]
      BY <2>2, <3>1, WrittenTyped DEF Inductive, Typed
    <3> QED BY <1>1, <1>2, <3>2 DEF Inductive, Typed, FilesTyped, Builds, Build
  <2> QED BY <2>1, <2>2 DEF SpawnFails
<1> QED BY <1>1, <1>3, FailStep DEF Fail

LEMMA SpawnStep ==
    ASSUME Inductive, NEW c \in Clients, Spawn(c), UNCHANGED scenario
    PROVE  Inductive'
<1>1. cl[c].pc = "token" /\ UNCHANGED <<record, launched, ends>>
  BY DEF Spawn
<1>2. CASE Fail(c) /\ UNCHANGED <<file, dm>>
  BY <1>1, <1>2, PlainFail
<1>3. ASSUME NEW d \in Daemons, dm[d].pc = "unborn", file' = [file EXCEPT !["token"] = d],
             cl' = [cl EXCEPT ![c].pc = "poll", ![c].child = d],
             dm' = [dm EXCEPT ![d].pc = "write", ![d].build = Build(c), ![d].cold = Cold(c)],
             UNCHANGED lock
      PROVE  Inductive'
  <2> DEFINE r == [cl[c] EXCEPT !.pc = "poll", !.child = d]
             w == [dm[d] EXCEPT !.pc = "write", !.build = Build(c), !.cold = Cold(c)]
  <2>1. "poll" \in Labels /\ d \in Procs /\ "write" \in Phases /\ Build(c) \in Builds
        /\ Cold(c) \in BOOLEAN
    BY ScenarioFacts DEF Labels, Procs, Phases, Builds, Inductive, Typed
  <2>2. /\ r \in ClientRecord /\ r.inside = cl[c].inside /\ r.try = cl[c].try
        /\ r.runs = cl[c].runs /\ r.lost = cl[c].lost /\ r.pc = "poll" /\ r.child = d
        /\ r.handed = cl[c].handed
    BY <2>1, ClientFacts DEF ClientRecord
  <2>3. cl' = [cl EXCEPT ![c] = r]
    BY <1>3
  <2>4. dm[d] \in DaemonRecord /\ dm[d].step = "none" /\ dm[d].exit = "none"
    BY <1>3 DEF Inductive, Typed, DaemonsTyped, Unused
  <2>5. w \in DaemonRecord /\ w.pc = "write" /\ w.step = "none" /\ w.exit = "none"
    BY <2>1, <2>4 DEF DaemonRecord
  <2>6. dm' = [dm EXCEPT ![d] = w]
    BY <1>3
  <2> HIDE DEF r, w
  <2>7. ClientsTyped' /\ cl'[c] = r /\ \A b \in Clients : b # c => cl'[b] = cl[b]
    BY <2>2, <2>3, ClientFacts, OneClient
  <2>8. DaemonsTyped' /\ dm'[d] = w /\ \A e \in Daemons : e # d => dm'[e] = dm[e]
    BY <2>5, <2>6, OneDaemon
  <2>9. /\ FilesTyped' /\ file'["token"] = d /\ file'["sock"] = file["sock"]
    <3>1. "token" \in Files /\ "token" \in OwnedFiles /\ d \in Procs /\ "sock" \in Files
      BY DEF Files, OwnedFiles, Procs
    <3>2. /\ DOMAIN file' = Files /\ file' = [g \in Files |-> file'[g]]
          /\ \A g \in OwnedFiles : file'[g] \in Procs
          /\ \A g \in Files \ OwnedFiles : file'[g] \in Builds
          /\ file'["sock"] # Orphan /\ file'["sock"] = file["sock"] /\ file'["token"] = d
      BY <1>3, <3>1, WrittenTyped DEF Inductive, Typed
    <3> QED BY <1>1, <1>3, <3>2 DEF Inductive, Typed, FilesTyped, Builds, Build
  <2>10. Unused'
    BY <2>5, <2>8 DEF Inductive, Unused
  <2>11. Counted'
    BY <1>1, <2>2, <2>7 DEF Inductive, Counted, Sending, Cold
  <2>12. Locked'
    BY <1>1, <1>3, <2>2, <2>7 DEF Inductive, Locked
  <2>13. Watched'
    <3> SUFFICES ASSUME ~scenario.slow PROVE Watched'
      BY DEF Watched
    <3>1. file'["sock"] = Nobody /\ lock = c
      BY <1>1, <2>9, NobodyStarts DEF Inductive, Watched
    <3>2. \A e \in Daemons : Starting(e)' => e = d
      BY <1>1, <2>8, NobodyStarts DEF Starting
    <3>3. \A b \in Clients : b # c => cl'[b].pc \notin {"token", "poll", "pollexit"}
      BY <1>1, <2>7, NobodyStarts
    <3> QED BY <1>3, <2>2, <2>7, <2>9, <3>1, <3>2, <3>3 DEF Watched
  <2> QED BY <2>7, <2>8, <2>9, <2>10, <2>11, <2>12, <2>13 DEF Inductive, Typed
<1> QED BY <1>2, <1>3 DEF Spawn

(* Every step of a client. *)
LEMMA ClientStepKeeps ==
    ASSUME Inductive, NEW c \in Clients, ClientStep(c)
    PROVE  Inductive'
BY AcquireLockStep, LockTimeoutStep, AdmitColdStep, AdmitStep, RecheckStep, CleanStep,
    SpawnStep,
   SpawnFailsStep, PollStep, PollExitStep, PollTimeoutStep, ConnectStep, SendStepKeeps,
   ConnectionLostStep, ReadTimeoutStep, ReceiveStep
   DEF ClientStep, EnsureStep, SendStep

-----------------------------------------------------------------------------
(* The daemons. *)

(* A daemon goes on: it may remove the socket, or bind the path as the      *)
(* child its client waits for; the token is never its to change.            *)
LEMMA DaemonGoesOn ==
    ASSUME Inductive, NEW d \in Daemons, NEW w, dm' = [dm EXCEPT ![d] = w],
           w \in DaemonRecord, w.step # "none" => w.job \in Clients,
           w.pc \in {"unborn", "write", "unlink", "bind", "ident", "stream"} =>
               w.step = "none" /\ w.exit = "none",
           w.pc \in {"write", "unlink", "bind"} => Starting(d),
           FilesTyped', file'["token"] = file["token"],
           file'["sock"] \in {file["sock"], Nobody} \/ (file'["sock"] = d /\ Starting(d)),
           UNCHANGED <<scenario, cl, lock>>
    PROVE  Inductive'
<1>1. DaemonsTyped' /\ dm'[d] = w /\ \A e \in Daemons : e # d => dm'[e] = dm[e]
  BY OneDaemon
<1>2. ClientsTyped' /\ Counted' /\ Locked'
  BY SameClients
<1>3. Unused'
  BY <1>1 DEF Inductive, Unused
<1>4. Watched'
  <2> SUFFICES ASSUME ~scenario.slow PROVE Watched'
    BY DEF Watched
  <2>1. \A e \in Daemons : Starting(e)' => Starting(e)
    BY <1>1 DEF Starting
  <2>2. CASE file'["sock"] \in {file["sock"], Nobody}
    BY <2>1, <2>2 DEF Inductive, Watched
  <2>3. CASE file'["sock"] = d /\ Starting(d)
    <3>1. PICK c \in Clients : lock = c /\ cl[c].child = d /\ cl[c].pc \in {"poll", "pollexit"}
      BY <2>3 DEF Inductive, Watched
    <3>2. file["token"] = d
      BY <3>1 DEF Inductive, Watched
    <3>3. \A b \in Clients : b # c => cl[b].pc \notin {"token", "poll", "pollexit"}
      BY <3>1 DEF Inductive, Locked
    <3> QED BY <2>1, <2>3, <3>1, <3>2, <3>3 DEF Inductive, Watched
  <2> QED BY <2>2, <2>3
<1> QED BY <1>1, <1>2, <1>3, <1>4 DEF Inductive, Typed

(* ... and dies. *)
LEMMA DaemonDies ==
    ASSUME Inductive, NEW d \in Daemons, NEW why \in {"none", "lostbind"}, dm' = Dead(d, why),
           FilesTyped', file'["token"] = file["token"],
           file'["sock"] \in {file["sock"], Nobody},
           UNCHANGED <<scenario, cl, lock>>
    PROVE  Inductive'
<1> DEFINE w == [NoDaemon EXCEPT !.pc = "dead", !.exit = why]
<1>1. w \in DaemonRecord /\ w.pc = "dead" /\ w.step = "none"
  <2>1. Nobody \in Procs /\ Nobody \in Held /\ "dead" \in Phases /\ Absent \in Builds
        /\ 1 \in 1 .. 3
    BY DEF Procs, Held, Phases, Builds
  <2> QED BY <2>1 DEF NoDaemon, DaemonRecord
<1>2. dm' = [dm EXCEPT ![d] = w]
  BY DEF Dead
<1> HIDE DEF w
<1> QED BY <1>1, <1>2, DaemonGoesOn

(* The files after a removal and after a write. *)
LEMMA AfterRemoval ==
    ASSUME Inductive, NEW F, file' = Removed(F), "token" \notin F,
           UNCHANGED <<scenario, record, lock, launched, ends>>
    PROVE  /\ FilesTyped' /\ file'["token"] = file["token"]
           /\ file'["sock"] \in {file["sock"], Nobody}
<1>1. /\ FilesTyped'
      /\ \A f \in Files : file'[f] = IF f \in F THEN NoFile(f) ELSE file[f]
  BY RemovedTyped DEF Inductive, Typed, FilesTyped, Builds, Build
<1> QED BY <1>1 DEF Files, NoFile, OwnedFiles

LEMMA AfterWrite ==
    ASSUME Inductive, NEW f \in Files, NEW v, file' = [file EXCEPT ![f] = v],
           f \in OwnedFiles => v \in Procs, f \notin OwnedFiles => v \in Builds,
           f = "sock" => v # Orphan, f # "token",
           UNCHANGED <<scenario, record, lock, launched, ends>>
    PROVE  /\ FilesTyped' /\ file'["token"] = file["token"]
           /\ file'["sock"] = IF f = "sock" THEN v ELSE file["sock"]
<1>1. /\ DOMAIN file' = Files /\ file' = [g \in Files |-> file'[g]]
      /\ \A g \in OwnedFiles : file'[g] \in Procs
      /\ \A g \in Files \ OwnedFiles : file'[g] \in Builds
      /\ file'["sock"] # Orphan
      /\ file'[f] = v /\ \A g \in Files : g # f => file'[g] = file[g]
  BY WrittenTyped DEF Inductive, Typed
<1> QED BY <1>1 DEF Files, Inductive, Typed, FilesTyped, Builds, Build

LEMMA DaemonFacts ==
    ASSUME Inductive, NEW d \in Daemons
    PROVE  /\ dm[d] \in DaemonRecord /\ (dm[d].step # "none" => dm[d].job \in Clients)
           /\ dm[d].pc \in {"unborn", "write", "unlink", "bind", "ident", "stream"} =>
                dm[d].step = "none" /\ dm[d].exit = "none"
           /\ d \in Procs /\ d # Orphan
BY ScenarioFacts DEF Inductive, Typed, DaemonsTyped, Unused, Procs

LEMMA WriteMetadataStep ==
    ASSUME Inductive, NEW d \in Daemons, WriteMetadata(d), UNCHANGED scenario
    PROVE  Inductive'
<1> DEFINE f == WriteOrder[dm[d].at]
           v == [pid |-> d, ver |-> dm[d].build, sha |-> "pending"][f]
           w == [dm[d] EXCEPT !.at = IF dm[d].at = 3 THEN 1 ELSE @ + 1,
                              !.pc = IF dm[d].at = 3 THEN "unlink" ELSE "write"]
<1>1. dm[d].pc = "write" /\ UNCHANGED <<record, lock, cl, launched, ends>>
  BY DEF WriteMetadata
<1>2. \/ dm' = Dead(d, "none") /\ UNCHANGED file
      \/ file' = [file EXCEPT ![f] = v] /\ dm' = [dm EXCEPT ![d] = w]
  BY Zenon DEF WriteMetadata
<1>3. CASE dm' = Dead(d, "none") /\ UNCHANGED file
  BY <1>1, <1>3, SameFiles, DaemonDies DEF Inductive, Typed, FilesTyped
<1>4. CASE file' = [file EXCEPT ![f] = v] /\ dm' = [dm EXCEPT ![d] = w]
  <2>1. dm[d].at \in 1 .. 3 /\ dm[d].build \in Builds
    BY DaemonFacts DEF DaemonRecord
  <2>2. (f = "pid" /\ v = d) \/ (f = "ver" /\ v = dm[d].build) \/ (f = "sha" /\ v = "pending")
    <3>1. WriteOrder[1] = "pid" /\ WriteOrder[2] = "ver" /\ WriteOrder[3] = "sha"
      BY DEF WriteOrder
    <3>2. dm[d].at = 1 \/ dm[d].at = 2 \/ dm[d].at = 3
      BY <2>1
    <3>3. f = "pid" \/ f = "ver" \/ f = "sha"
      BY <3>1, <3>2
    <3> HIDE DEF f
    <3>4. CASE f = "pid"
      BY <3>4
    <3>5. CASE f = "ver"
      BY <3>5
    <3>6. CASE f = "sha"
      BY <3>6
    <3> QED BY <3>3, <3>4, <3>5, <3>6
  <2> HIDE DEF f, v
  <2>3. f \in Files /\ f # "token" /\ f # "sock" /\ (f \in OwnedFiles => v \in Procs)
        /\ (f \notin OwnedFiles => v \in Builds)
    BY <2>1, <2>2, DaemonFacts DEF Files, OwnedFiles, Builds
  <2>4. FilesTyped' /\ file'["token"] = file["token"] /\ file'["sock"] = file["sock"]
    BY <1>1, <1>4, <2>3, AfterWrite
  <2>5. /\ w \in DaemonRecord /\ w.pc \in {"write", "unlink"} /\ w.step = dm[d].step
        /\ w.exit = dm[d].exit /\ w.job = dm[d].job
    <3>1. {"write", "unlink"} \subseteq Phases /\ 1 \in 1 .. 3
          /\ (dm[d].at # 3 => dm[d].at + 1 \in 1 .. 3)
      BY <2>1 DEF Phases
    <3>2. CASE dm[d].at = 3
      BY <3>1, <3>2, DaemonFacts DEF DaemonRecord
    <3>3. CASE dm[d].at # 3
      BY <3>1, <3>3, DaemonFacts DEF DaemonRecord
    <3> QED BY <3>2, <3>3
  <2> HIDE DEF w
  <2>6. Starting(d)
    BY <1>1 DEF Starting
  <2> QED BY <1>1, <1>4, <2>4, <2>5, <2>6, DaemonFacts, DaemonGoesOn
<1> QED BY <1>2, <1>3, <1>4

LEMMA UnlinkStep ==
    ASSUME Inductive, NEW d \in Daemons, Unlink(d), UNCHANGED scenario
    PROVE  Inductive'
<1> DEFINE w == [dm[d] EXCEPT !.pc = "bind"]
<1>1. dm[d].pc = "unlink" /\ UNCHANGED <<record, lock, cl, launched, ends>>
      /\ dm' = [dm EXCEPT ![d] = w] /\ (file' = file \/ file' = Removed({"sock"}))
  BY DEF Unlink
<1>2. /\ FilesTyped' /\ file'["token"] = file["token"]
      /\ file'["sock"] \in {file["sock"], Nobody}
  BY <1>1, SameFiles, AfterRemoval DEF Inductive, Typed, FilesTyped
<1>3. /\ w \in DaemonRecord /\ w.pc = "bind" /\ w.step = dm[d].step /\ w.exit = dm[d].exit
      /\ w.job = dm[d].job
  <2>1. "bind" \in Phases
    BY DEF Phases
  <2> QED BY <2>1, DaemonFacts DEF DaemonRecord
<1> HIDE DEF w
<1>4. Starting(d)
  BY <1>1 DEF Starting
<1> QED BY <1>1, <1>2, <1>3, <1>4, DaemonFacts, DaemonGoesOn

LEMMA BindStep ==
    ASSUME Inductive, NEW d \in Daemons, Bind(d), UNCHANGED scenario
    PROVE  Inductive'
<1> DEFINE w == [dm[d] EXCEPT !.pc = "ident"]
<1>1. dm[d].pc = "bind" /\ UNCHANGED <<record, lock, cl, launched, ends>>
  BY DEF Bind
<1>2. CASE dm' = Dead(d, "lostbind") /\ UNCHANGED file
  BY <1>1, <1>2, SameFiles, DaemonDies DEF Inductive, Typed, FilesTyped
<1>3. CASE file' = [file EXCEPT !["sock"] = d] /\ dm' = [dm EXCEPT ![d].pc = "ident"]
  <2>1. "sock" \in Files /\ "sock" \in OwnedFiles /\ "sock" # "token"
    BY DEF Files, OwnedFiles
  <2>2. FilesTyped' /\ file'["token"] = file["token"] /\ file'["sock"] = d
    BY <1>1, <1>3, <2>1, DaemonFacts, AfterWrite
  <2>3. /\ w \in DaemonRecord /\ w.pc = "ident" /\ w.step = dm[d].step /\ w.exit = dm[d].exit
        /\ w.job = dm[d].job
    <3>1. "ident" \in Phases
      BY DEF Phases
    <3> QED BY <3>1, DaemonFacts DEF DaemonRecord
  <2>4. dm' = [dm EXCEPT ![d] = w]
    BY <1>3
  <2> HIDE DEF w
  <2>5. Starting(d)
    BY <1>1 DEF Starting
  <2> QED BY <1>1, <2>2, <2>3, <2>4, <2>5, DaemonFacts, DaemonGoesOn
<1> QED BY <1>2, <1>3 DEF Bind

LEMMA WriteShaStep ==
    ASSUME Inductive, NEW d \in Daemons, WriteSha(d), UNCHANGED scenario
    PROVE  Inductive'
<1> DEFINE w == [dm[d] EXCEPT !.sha = TRUE]
<1>1. dm[d].pc \in {"ident", "stream", "serve", "shutdown", "check", "remove"} /\ UNCHANGED <<record, lock, cl, launched, ends>>
      /\ dm' = [dm EXCEPT ![d] = w]
      /\ file' = [file EXCEPT !["sha"] = dm[d].build]
  BY DEF WriteSha
<1>2. /\ FilesTyped' /\ file'["token"] = file["token"]
      /\ file'["sock"] \in {file["sock"], Nobody}
  <2>1. "sha" \in Files /\ "sha" \notin OwnedFiles /\ "sha" # "token" /\ "sha" # "sock"
        /\ dm[d].build \in Builds
    BY DaemonFacts DEF Files, OwnedFiles, DaemonRecord
  <2> QED BY <1>1, <2>1, AfterWrite
<1>3. /\ w \in DaemonRecord /\ w.pc = dm[d].pc /\ w.exit = dm[d].exit /\ w.step = dm[d].step
      /\ w.job = dm[d].job
  <2>1. TRUE \in BOOLEAN
    BY DaemonFacts DEF DaemonRecord
  <2> QED BY <2>1, DaemonFacts DEF DaemonRecord
<1> HIDE DEF w
<1> QED BY <1>1, <1>2, <1>3, DaemonFacts, DaemonGoesOn

LEMMA IdentifyStep ==
    ASSUME Inductive, NEW d \in Daemons, Identify(d), UNCHANGED scenario
    PROVE  Inductive'
<1> DEFINE w == [dm[d] EXCEPT !.pc = "stream", !.ident = file["sock"]]
<1>1. dm[d].pc = "ident" /\ UNCHANGED <<record, lock, cl, launched, ends>>
      /\ dm' = [dm EXCEPT ![d] = w]
      /\ file' = file
  BY DEF Identify
<1>2. /\ FilesTyped' /\ file'["token"] = file["token"]
      /\ file'["sock"] \in {file["sock"], Nobody}
  BY <1>1, SameFiles DEF Inductive, Typed, FilesTyped
<1>3. /\ w \in DaemonRecord /\ w.pc = "stream" /\ w.exit = dm[d].exit /\ w.step = dm[d].step
      /\ w.job = dm[d].job
  <2>1. "stream" \in Phases /\ file["sock"] \in Procs
    BY DaemonFacts DEF Phases, Inductive, Typed, FilesTyped, OwnedFiles
  <2> QED BY <2>1, DaemonFacts DEF DaemonRecord
<1> HIDE DEF w
<1> QED BY <1>1, <1>2, <1>3, DaemonFacts, DaemonGoesOn

LEMMA StartStreamStep ==
    ASSUME Inductive, NEW d \in Daemons, StartStream(d), UNCHANGED scenario
    PROVE  Inductive'
<1> DEFINE w == [dm[d] EXCEPT !.pc = "serve"]
<1>1. dm[d].pc = "stream" /\ UNCHANGED <<record, lock, cl, launched, ends>>
      /\ dm' = [dm EXCEPT ![d] = w]
      /\ (file' = Removed({"stream"}) \/ file' = [file EXCEPT !["stream"] = d])
  BY DEF StartStream
<1>2. /\ FilesTyped' /\ file'["token"] = file["token"]
      /\ file'["sock"] \in {file["sock"], Nobody}
  <2>1. "stream" \in Files /\ "stream" \in OwnedFiles /\ "stream" # "token" /\ "stream" # "sock"
    BY DEF Files, OwnedFiles
  <2>2. CASE file' = Removed({"stream"})
    BY <1>1, <2>2, AfterRemoval
  <2>3. CASE file' = [file EXCEPT !["stream"] = d]
    BY <1>1, <2>1, <2>3, DaemonFacts, AfterWrite
  <2> QED BY <1>1, <2>2, <2>3
<1>3. /\ w \in DaemonRecord /\ w.pc = "serve" /\ w.exit = dm[d].exit /\ w.step = dm[d].step
      /\ w.job = dm[d].job
  <2>1. "serve" \in Phases
    BY DaemonFacts DEF Phases
  <2> QED BY <2>1, DaemonFacts DEF DaemonRecord
<1> HIDE DEF w
<1> QED BY <1>1, <1>2, <1>3, DaemonFacts, DaemonGoesOn

LEMMA HandlerRemovesStreamStep ==
    ASSUME Inductive, NEW d \in Daemons, HandlerRemovesStream(d), UNCHANGED scenario
    PROVE  Inductive'
<1> DEFINE w == [dm[d] EXCEPT !.exit = "delay"]
<1>1. dm[d].exit = "replied" /\ UNCHANGED <<record, lock, cl, launched, ends>>
      /\ dm' = [dm EXCEPT ![d] = w]
      /\ file' = Removed({"stream"})
  BY DEF HandlerRemovesStream
<1>2. /\ FilesTyped' /\ file'["token"] = file["token"]
      /\ file'["sock"] \in {file["sock"], Nobody}
  BY <1>1, AfterRemoval
<1>3. /\ w \in DaemonRecord /\ w.pc = dm[d].pc /\ w.step = dm[d].step
      /\ w.job = dm[d].job
  <2>1. "delay" \in {"none", "lostbind", "replied", "delay", "notified"}
    BY DaemonFacts DEF DaemonRecord
  <2> QED BY <2>1, DaemonFacts DEF DaemonRecord
<1> HIDE DEF w
<1> QED BY <1>1, <1>2, <1>3, DaemonFacts, DaemonGoesOn DEF Starting

LEMMA HandlerNotifiesStep ==
    ASSUME Inductive, NEW d \in Daemons, HandlerNotifies(d), UNCHANGED scenario
    PROVE  Inductive'
<1> DEFINE w == [dm[d] EXCEPT !.exit = "notified"]
<1>1. dm[d].exit = "delay" /\ UNCHANGED <<record, lock, cl, launched, ends>>
      /\ dm' = [dm EXCEPT ![d] = w]
      /\ file' = file
  BY DEF HandlerNotifies
<1>2. /\ FilesTyped' /\ file'["token"] = file["token"]
      /\ file'["sock"] \in {file["sock"], Nobody}
  BY <1>1, SameFiles DEF Inductive, Typed, FilesTyped
<1>3. /\ w \in DaemonRecord /\ w.pc = dm[d].pc /\ w.step = dm[d].step
      /\ w.job = dm[d].job
  <2>1. "notified" \in {"none", "lostbind", "replied", "delay", "notified"}
    BY DaemonFacts DEF DaemonRecord
  <2> QED BY <2>1, DaemonFacts DEF DaemonRecord
<1> HIDE DEF w
<1> QED BY <1>1, <1>2, <1>3, DaemonFacts, DaemonGoesOn DEF Starting

LEMMA StopNotifiedStep ==
    ASSUME Inductive, NEW d \in Daemons, StopNotified(d), UNCHANGED scenario
    PROVE  Inductive'
<1> DEFINE w == [dm[d] EXCEPT !.pc = "shutdown"]
<1>1. dm[d].pc = "serve" /\ UNCHANGED <<record, lock, cl, launched, ends>>
      /\ dm' = [dm EXCEPT ![d] = w]
      /\ file' = file
  BY DEF StopNotified
<1>2. /\ FilesTyped' /\ file'["token"] = file["token"]
      /\ file'["sock"] \in {file["sock"], Nobody}
  BY <1>1, SameFiles DEF Inductive, Typed, FilesTyped
<1>3. /\ w \in DaemonRecord /\ w.pc = "shutdown" /\ w.step = dm[d].step
      /\ w.job = dm[d].job
  <2>1. "shutdown" \in Phases
    BY DaemonFacts DEF Phases
  <2> QED BY <2>1, DaemonFacts DEF DaemonRecord
<1> HIDE DEF w
<1> QED BY <1>1, <1>2, <1>3, DaemonFacts, DaemonGoesOn

LEMMA CloseListenerStep ==
    ASSUME Inductive, NEW d \in Daemons, CloseListener(d), UNCHANGED scenario
    PROVE  Inductive'
<1> DEFINE w == [dm[d] EXCEPT !.pc = "check"]
<1>1. dm[d].pc = "shutdown" /\ UNCHANGED <<record, lock, cl, launched, ends>>
      /\ dm' = [dm EXCEPT ![d] = w]
      /\ file' = file
  BY DEF CloseListener
<1>2. /\ FilesTyped' /\ file'["token"] = file["token"]
      /\ file'["sock"] \in {file["sock"], Nobody}
  BY <1>1, SameFiles DEF Inductive, Typed, FilesTyped
<1>3. /\ w \in DaemonRecord /\ w.pc = "check" /\ w.step = dm[d].step
      /\ w.job = dm[d].job
  <2>1. "check" \in Phases
    BY DaemonFacts DEF Phases
  <2> QED BY <2>1, DaemonFacts DEF DaemonRecord
<1> HIDE DEF w
<1> QED BY <1>1, <1>2, <1>3, DaemonFacts, DaemonGoesOn

LEMMA StopIdleOrSignalledStep ==
    ASSUME Inductive, NEW d \in Daemons, StopIdleOrSignalled(d), UNCHANGED scenario
    PROVE  Inductive'
<1> DEFINE w == [dm[d] EXCEPT !.pc = "shutdown"]
<1>1. /\ dm[d].pc = "serve" /\ UNCHANGED <<file, record, lock, cl, launched>>
      /\ dm' = [dm EXCEPT ![d] = w] /\ ends.stops < scenario.stops
      /\ ends' = [ends EXCEPT !.stops = @ + 1]
  BY DEF StopIdleOrSignalled
<1>2. FilesTyped'
  <2>1. scenario.stops \in Nat
    BY ScenarioFacts DEF Inductive, Typed
  <2>2. ends' \in [crashes : 0 .. scenario.crashes, stops : 0 .. scenario.stops]
    BY <1>1, <2>1 DEF Inductive, Typed, FilesTyped
  <2> QED BY <1>1, <2>2 DEF Inductive, Typed, FilesTyped, Builds, Build
<1>3. /\ w \in DaemonRecord /\ w.pc = "shutdown" /\ w.step = dm[d].step /\ w.job = dm[d].job
  <2>1. "shutdown" \in Phases
    BY DEF Phases
  <2> QED BY <2>1, DaemonFacts DEF DaemonRecord
<1> HIDE DEF w
<1> QED BY <1>1, <1>2, <1>3, DaemonFacts, DaemonGoesOn

LEMMA CrashStep ==
    ASSUME Inductive, NEW d \in Daemons, Crash(d), UNCHANGED scenario
    PROVE  Inductive'
<1>1. /\ UNCHANGED <<file, record, lock, cl, launched>> /\ dm' = Dead(d, "none")
      /\ ends.crashes < scenario.crashes /\ ends' = [ends EXCEPT !.crashes = @ + 1]
  BY DEF Crash
<1>2. FilesTyped'
  <2>1. scenario.crashes \in Nat
    BY ScenarioFacts DEF Inductive, Typed
  <2>2. ends' \in [crashes : 0 .. scenario.crashes, stops : 0 .. scenario.stops]
    BY <1>1, <2>1 DEF Inductive, Typed, FilesTyped
  <2> QED BY <1>1, <2>2 DEF Inductive, Typed, FilesTyped, Builds, Build
<1> QED BY <1>1, <1>2, DaemonDies

LEMMA CheckOwnershipStep ==
    ASSUME Inductive, NEW d \in Daemons, CheckOwnership(d), UNCHANGED scenario
    PROVE  Inductive'
<1> DEFINE w == [dm[d] EXCEPT !.pc = "remove"]
<1>1. /\ dm[d].pc = "check" /\ UNCHANGED <<file, record, lock, cl, launched, ends>>
      /\ (dm' = [dm EXCEPT ![d] = w] \/ dm' = Dead(d, "none"))
  BY DEF CheckOwnership
<1>2. FilesTyped'
  BY <1>1, SameFiles DEF Inductive, Typed, FilesTyped
<1>3. CASE dm' = [dm EXCEPT ![d] = w]
  <2>1. /\ w \in DaemonRecord /\ w.pc = "remove" /\ w.step = dm[d].step /\ w.job = dm[d].job
    <3>1. "remove" \in Phases
      BY DEF Phases
    <3> QED BY <3>1, DaemonFacts DEF DaemonRecord
  <2> HIDE DEF w
  <2> QED BY <1>1, <1>2, <1>3, <2>1, DaemonFacts, DaemonGoesOn
<1>4. CASE dm' = Dead(d, "none")
  BY <1>1, <1>2, <1>4, DaemonDies
<1> QED BY <1>1, <1>3, <1>4

LEMMA RemoveArtifactStep ==
    ASSUME Inductive, NEW d \in Daemons, RemoveArtifact(d), UNCHANGED scenario
    PROVE  Inductive'
<1> DEFINE w == [dm[d] EXCEPT !.at = @ + 1]
<1>1. dm[d].pc = "remove" /\ UNCHANGED <<record, lock, cl, launched, ends>>
      /\ file' = Removed(RemoveOrder[dm[d].at])
  BY DEF RemoveArtifact
<1>2. Len(RemoveOrder) = 3
  BY DEF RemoveOrder
<1>3. dm[d].at \in 1 .. 3
  BY DaemonFacts DEF DaemonRecord
<1>4. "token" \notin RemoveOrder[dm[d].at]
  <2>1. RemoveOrder[1] = {"sock"}
    BY DEF RemoveOrder
  <2>2. RemoveOrder[2] = {"pid", "ver", "sha"}
    BY DEF RemoveOrder
  <2>3. RemoveOrder[3] = {"stream"}
    BY DEF RemoveOrder
  <2>4. dm[d].at = 1 \/ dm[d].at = 2 \/ dm[d].at = 3
    BY <1>3
  <2> QED BY <2>1, <2>2, <2>3, <2>4
<1>5. /\ FilesTyped' /\ file'["token"] = file["token"]
      /\ file'["sock"] \in {file["sock"], Nobody}
  BY <1>1, <1>4, AfterRemoval
<1>6. CASE dm' = Dead(d, "none")
  BY <1>1, <1>5, <1>6, DaemonDies
<1>7. CASE dm[d].at # 3 /\ dm' = [dm EXCEPT ![d] = w]
  <2>1. /\ w \in DaemonRecord /\ w.pc = "remove" /\ w.step = dm[d].step /\ w.job = dm[d].job
    <3>1. dm[d].at + 1 \in 1 .. 3
      BY <1>3, <1>7
    <3> QED BY <1>1, <3>1, DaemonFacts DEF DaemonRecord
  <2>2. dm' = [dm EXCEPT ![d] = w]
    BY <1>7
  <2> HIDE DEF w
  <2> QED BY <1>1, <1>5, <2>1, <2>2, DaemonFacts, DaemonGoesOn
<1> QED BY <1>2, <1>6, <1>7 DEF RemoveArtifact

(* The clients do not move, and no daemon begins: the rest of the           *)
(* invariant only looks at the socket and the token.                        *)
LEMMA ClientsWait ==
    ASSUME Inductive, UNCHANGED <<scenario, cl, lock, file>>,
           \A e \in Daemons : Starting(e)' => Starting(e)
    PROVE  ClientsTyped' /\ Counted' /\ Locked' /\ Watched'
<1>1. ClientsTyped' /\ Counted' /\ Locked'
  BY SameClients
<1>2. Watched'
  BY DEF Inductive, Watched
<1> QED BY <1>1, <1>2

(* A connection is accepted or answered: its client stays where it is. *)
LEMMA ClientServed ==
    ASSUME Inductive, NEW c \in Clients, cl[c].pc \in {"send", "wait", "running"},
           NEW accepted \in BOOLEAN, NEW answered \in BOOLEAN, NEW answer \in Answers,
           cl' = [cl EXCEPT ![c] = [cl[c] EXCEPT !.accepted = accepted, !.answered = answered,
                                                 !.answer = answer]],
           UNCHANGED <<scenario, lock, file>>,
           \A e \in Daemons : Starting(e)' => Starting(e)
    PROVE  ClientsTyped' /\ Counted' /\ Locked' /\ Watched'
<1> DEFINE r == [cl[c] EXCEPT !.accepted = accepted, !.answered = answered, !.answer = answer]
<1>1. /\ r \in ClientRecord /\ r.pc = cl[c].pc /\ r.inside = cl[c].inside /\ r.try = cl[c].try
      /\ r.runs = cl[c].runs /\ r.lost = cl[c].lost /\ r.handed = cl[c].handed
      /\ r.child = cl[c].child
  BY ClientFacts DEF ClientRecord
<1>2. cl' = [cl EXCEPT ![c] = r]
  OBVIOUS
<1> HIDE DEF r
<1>3. /\ cl[c].inside => ~Cold(c) /\ cl[c].runs = 0 /\ cl[c].lost = 0
      /\ cl[c].pc \in Sending => cl[c].runs <= cl[c].lost
      /\ Cold(c) => /\ cl[c].try = 1
                    /\ cl[c].pc \in Sending => cl[c].runs = 0
  BY DEF Inductive, Counted
<1>4. /\ r.try <= scenario.tries /\ r.runs <= r.lost + 1
      /\ r.inside => r.runs = 0 /\ r.lost = 0
      /\ r.pc \in Sending => r.runs <= r.lost
      /\ Cold(c) => /\ r.try = 1 /\ r.runs <= 1 /\ ~r.inside
                    /\ r.pc \in Sending => r.runs = 0
  BY <1>1, <1>3, ClientFacts
<1>5. r.pc \in {"send", "wait", "running"}
  BY <1>1
<1> QED BY <1>1, <1>2, <1>4, <1>5, Moved

(* The daemon that serves changes what it does, not where it is. *)
LEMMA DaemonServes ==
    ASSUME Inductive, NEW d \in Daemons, NEW w, dm' = [dm EXCEPT ![d] = w],
           w \in DaemonRecord, w.step # "none" => w.job \in Clients, w.pc = dm[d].pc,
           dm[d].step # "none" \/ dm[d].pc \in {"serve", "shutdown"}, UNCHANGED scenario
    PROVE  DaemonsTyped' /\ Unused' /\ \A e \in Daemons : Starting(e)' => Starting(e)
<1>1. DaemonsTyped' /\ dm'[d] = w /\ \A e \in Daemons : e # d => dm'[e] = dm[e]
  BY OneDaemon
<1>2. dm[d].pc \notin {"unborn", "write", "unlink", "bind", "ident", "stream"}
  BY DaemonFacts
<1> QED BY <1>1, <1>2 DEF Inductive, Unused, Starting

LEMMA ReplyServes ==
    ASSUME Inductive, NEW c \in Clients, cl[c].pc \in {"wait", "running"},
           NEW ok \in BOOLEAN, NEW b \in Held, Reply(c, ok, b), UNCHANGED <<scenario, lock, file>>,
           \A e \in Daemons : Starting(e)' => Starting(e)
    PROVE  ClientsTyped' /\ Counted' /\ Locked' /\ Watched'
<1> DEFINE a == [ok |-> ok, browser |-> b]
           x == cl[c].accepted
<1>1. a \in Answers /\ x \in BOOLEAN
  BY ClientFacts DEF Answers, ClientRecord
<1>2. cl' = [cl EXCEPT ![c] = [cl[c] EXCEPT !.accepted = x, !.answered = TRUE, !.answer = a]]
  BY ClientFacts DEF Reply, ClientRecord
<1> HIDE DEF a, x
<1> QED BY <1>1, <1>2, ClientServed

LEMMA AcceptStep ==
    ASSUME Inductive, NEW d \in Daemons, NEW c \in Clients, Accept(d, c), UNCHANGED scenario
    PROVE  Inductive'
<1> DEFINE a == cl[c].answer
           x == cl[c].answered
<1>1. a \in Answers /\ x \in BOOLEAN
  BY ClientFacts DEF ClientRecord
<1>2. cl' = [cl EXCEPT ![c] = [cl[c] EXCEPT !.accepted = TRUE, !.answered = x, !.answer = a]]
  BY ClientFacts DEF Accept, ClientRecord
<1>3. cl[c].pc \in {"send", "wait", "running"} /\ UNCHANGED <<file, record, lock, dm, launched, ends>>
  BY DEF Accept
<1>4. FilesTyped' /\ DaemonsTyped' /\ Unused' /\ \A e \in Daemons : Starting(e)' => Starting(e)
  BY <1>3, SameFiles, SameDaemons DEF Inductive, Typed, FilesTyped, Starting
<1> HIDE DEF a, x
<1>5. ClientsTyped' /\ Counted' /\ Locked' /\ Watched'
  BY <1>1, <1>2, <1>3, <1>4, ClientServed
<1> QED BY <1>4, <1>5 DEF Inductive, Typed

LEMMA RefuseStep ==
    ASSUME Inductive, NEW d \in Daemons, NEW c \in Clients, Refuse(d, c), UNCHANGED scenario
    PROVE  Inductive'
<1>1. /\ cl[c].pc = "wait" /\ UNCHANGED <<file, record, lock, dm, launched, ends>>
      /\ Reply(c, FALSE, Nobody) /\ Nobody \in Held
  BY DEF Refuse, Readable, Held
<1>2. FilesTyped' /\ DaemonsTyped' /\ Unused' /\ \A e \in Daemons : Starting(e)' => Starting(e)
  BY <1>1, SameFiles, SameDaemons DEF Inductive, Typed, FilesTyped, Starting
<1>3. ClientsTyped' /\ Counted' /\ Locked' /\ Watched'
  BY <1>1, <1>2, ReplyServes
<1> QED BY <1>2, <1>3 DEF Inductive, Typed

(* The command runs once more, after a loss at most. *)
LEMMA TakeStep ==
    ASSUME Inductive, NEW d \in Daemons, NEW c \in Clients, Take(d, c), UNCHANGED scenario
    PROVE  Inductive'
<1> DEFINE n == IF Own(c) THEN cl[c].runs + 1 ELSE cl[c].runs
           r == [cl[c] EXCEPT !.pc = "running", !.runs = n]
           w == [dm[d] EXCEPT !.job = c, !.step = cl[c].sub]
<1>1. /\ cl[c].pc = "wait" /\ UNCHANGED <<file, record, lock, launched, ends>>
      /\ dm[d].pc \in {"serve", "shutdown"}
  BY DEF Take, Readable
<1>2. cl' = [cl EXCEPT ![c] = r] /\ dm' = [dm EXCEPT ![d] = w]
  BY Zenon DEF Take
<1>3. /\ cl[c].sub \in {"work", "close", "prepare", "resume"} /\ "running" \in Labels /\ n \in Nat
      /\ cl[c].lost \in Nat
  BY ClientFacts DEF ClientRecord, Labels
<1>4. /\ cl[c].inside => n = 0 /\ cl[c].lost = 0 /\ ~Cold(c)
      /\ n <= cl[c].lost + 1
      /\ Cold(c) => cl[c].try = 1 /\ n <= 1
  BY <1>1, ClientFacts DEF Inductive, Counted, Own, Sending
<1> HIDE DEF n
<1>5. /\ r \in ClientRecord /\ r.pc = "running" /\ r.inside = cl[c].inside /\ r.try = cl[c].try
      /\ r.runs = n /\ r.lost = cl[c].lost
  BY <1>3, ClientFacts DEF ClientRecord
<1>6. w \in DaemonRecord /\ w.pc = dm[d].pc /\ w.job = c
  BY <1>3, DaemonFacts DEF DaemonRecord
<1> HIDE DEF r, w
<1>7. DaemonsTyped' /\ Unused' /\ \A e \in Daemons : Starting(e)' => Starting(e)
  BY <1>1, <1>2, <1>6, DaemonServes
<1>8. r.runs <= r.lost + 1 /\ r.pc \notin Sending /\ (r.inside => r.runs = 0 /\ r.lost = 0)
  BY <1>4, <1>5 DEF Sending
<1>9. ClientsTyped' /\ Counted' /\ Locked' /\ Watched'
  BY <1>1, <1>2, <1>4, <1>5, <1>7, <1>8, ClientFacts, Moved
<1>10. FilesTyped'
  BY <1>1, SameFiles DEF Inductive, Typed, FilesTyped
<1> QED BY <1>7, <1>9, <1>10 DEF Inductive, Typed

(* The end of a command, whether its client still listens or not. *)
LEMMA JobEndsStep ==
    ASSUME Inductive, NEW d \in Daemons, NEW ok \in BOOLEAN, NEW b \in Held, NEW exits \in BOOLEAN,
           JobEnds(d, ok, b, exits), dm[d].step # "none", FilesTyped',
           UNCHANGED <<scenario, file, lock>>
    PROVE  Inductive'
<1> DEFINE c == dm[d].job
           heard == cl[c].pc = "running" /\ cl[c].peer = d
           x == IF heard /\ ok /\ exits /\ dm[d].exit = "none" THEN "replied" ELSE dm[d].exit
           w == [dm[d] EXCEPT !.job = Nobody, !.step = "none", !.browser = b, !.exit = x]
<1>1. c \in Clients
  BY DaemonFacts
<1>2. dm' = [dm EXCEPT ![d] = w]
  BY Zenon DEF JobEnds
<1>3. x \in {"none", "lostbind", "replied", "delay", "notified"}
  BY DaemonFacts DEF DaemonRecord
<1>4. IF heard THEN Reply(c, ok, b) ELSE UNCHANGED cl
  BY Zenon DEF JobEnds
<1> HIDE DEF c, x
<1>5. w \in DaemonRecord /\ w.pc = dm[d].pc /\ w.step = "none"
  BY <1>3, DaemonFacts DEF DaemonRecord
<1> HIDE DEF w
<1>6. DaemonsTyped' /\ Unused' /\ \A e \in Daemons : Starting(e)' => Starting(e)
  BY <1>2, <1>5, DaemonServes
<1>7. ClientsTyped' /\ Counted' /\ Locked' /\ Watched'
  <2>1. CASE heard
    BY <1>1, <1>4, <1>6, <2>1, ReplyServes
  <2>2. CASE ~heard
    <3>1. UNCHANGED cl
      BY <1>4, <2>2
    <3> QED BY <1>6, <3>1, ClientsWait
  <2> QED BY <2>1, <2>2
<1> QED BY <1>6, <1>7 DEF Inductive, Typed

(* What a daemon may hold, and the files of a step that leaves them alone. *)
LEMMA HeldFacts ==
    ASSUME Inductive
    PROVE  /\ Nobody \in Held /\ record \in Descriptors /\ record.browser \in Held
           /\ \A d \in Daemons : dm[d].browser \in Held
           /\ launched < scenario.browsers => launched + 1 \in Held /\ launched + 1 <= scenario.browsers
           /\ launched \in Nat /\ scenario.browsers \in Nat /\ 1 .. launched \subseteq Held
<1>1. scenario.browsers \in 0 .. MaxBrowsers /\ MaxBrowsers \in Nat /\ launched \in 0 .. scenario.browsers
  BY ScenarioFacts DEF Inductive, Typed, FilesTyped
<1>2. launched < scenario.browsers => launched + 1 \in 1 .. MaxBrowsers
  BY <1>1
<1>3. \A d \in Daemons : dm[d].browser \in Held
  BY DaemonFacts DEF DaemonRecord
<1>4. record \in Descriptors /\ record.browser \in Held
  BY DEF Inductive, Typed, FilesTyped, Descriptors
<1> QED BY <1>1, <1>2, <1>3, <1>4 DEF Held, Browsers, Inductive, Typed, FilesTyped

LEMMA FilesLeftAlone ==
    ASSUME Inductive, UNCHANGED <<scenario, file, lock, ends>>, record' \in Descriptors,
           launched' \in 0 .. scenario.browsers
    PROVE  FilesTyped'
BY DEF Inductive, Typed, FilesTyped, Builds, Build

LEMMA WorkStep ==
    ASSUME Inductive, NEW d \in Daemons, Work(d), UNCHANGED scenario
    PROVE  Inductive'
<1>1. dm[d].step = "work" /\ UNCHANGED <<file, record, lock, ends>>
  BY DEF Work
<1>2. CASE launched < scenario.browsers /\ JobEnds(d, TRUE, launched + 1, FALSE)
           /\ launched' = launched + 1
  <2>1. FilesTyped'
    BY <1>1, <1>2, HeldFacts, FilesLeftAlone
  <2> DEFINE b == launched + 1
  <2>2. b \in Held /\ JobEnds(d, TRUE, b, FALSE)
    BY <1>2, HeldFacts
  <2> HIDE DEF b
  <2> QED BY <1>1, <2>1, <2>2, JobEndsStep
<1>3. CASE UNCHANGED launched /\ \E b \in Held, ok \in BOOLEAN : JobEnds(d, ok, b, FALSE)
  <2>1. FilesTyped'
    BY <1>1, <1>3, HeldFacts, FilesLeftAlone DEF Inductive, Typed, FilesTyped
  <2> QED BY <1>1, <1>3, <2>1, JobEndsStep
<1>4. ASSUME ~(launched < scenario.browsers /\ JobEnds(d, TRUE, launched + 1, FALSE)
               /\ launched' = launched + 1)
      PROVE  UNCHANGED launched /\ \E b \in Held, ok \in BOOLEAN : JobEnds(d, ok, b, FALSE)
  BY <1>4, HeldFacts DEF Work
<1> QED BY <1>2, <1>3, <1>4

LEMMA CloseStep ==
    ASSUME Inductive, NEW d \in Daemons, Close(d), UNCHANGED scenario
    PROVE  Inductive'
<1>1. /\ dm[d].step = "close" /\ UNCHANGED <<file, record, lock, launched, ends>>
      /\ JobEnds(d, TRUE, Nobody, TRUE)
  BY DEF Close
<1>2. FilesTyped'
  BY <1>1, FilesLeftAlone DEF Inductive, Typed, FilesTyped
<1> QED BY <1>1, <1>2, HeldFacts, JobEndsStep

LEMMA PrepareBrowserlessStep ==
    ASSUME Inductive, NEW d \in Daemons, PrepareBrowserless(d), UNCHANGED scenario
    PROVE  Inductive'
<1> DEFINE ok == record.browser = Nobody
<1>1. /\ dm[d].step = "prepare" /\ UNCHANGED <<file, record, lock, launched, ends>>
      /\ JobEnds(d, ok, Nobody, TRUE) /\ ok \in BOOLEAN
  BY DEF PrepareBrowserless
<1> HIDE DEF ok
<1>2. FilesTyped'
  BY <1>1, FilesLeftAlone DEF Inductive, Typed, FilesTyped
<1> QED BY <1>1, <1>2, HeldFacts, JobEndsStep

(* A descriptor is removed or written: the command goes on to its next      *)
(* stage, and no client notices.                                            *)
LEMMA StageEnds ==
    ASSUME Inductive, NEW d \in Daemons, dm[d].step # "none", NEW st,
           st \in {"publish", "relinquish"}, dm' = [dm EXCEPT ![d].step = st],
           record' \in Descriptors, UNCHANGED <<scenario, file, lock, cl, launched, ends>>
    PROVE  Inductive'
<1> DEFINE w == [dm[d] EXCEPT !.step = st]
<1>1. dm' = [dm EXCEPT ![d] = w]
  OBVIOUS
<1>2. w \in DaemonRecord /\ w.pc = dm[d].pc /\ w.job = dm[d].job
  BY DaemonFacts DEF DaemonRecord
<1> HIDE DEF w
<1>3. DaemonsTyped' /\ Unused' /\ \A e \in Daemons : Starting(e)' => Starting(e)
  BY <1>1, <1>2, DaemonFacts, DaemonServes
<1>4. ClientsTyped' /\ Counted' /\ Locked' /\ Watched'
  BY <1>3, ClientsWait
<1>5. FilesTyped'
  BY FilesLeftAlone DEF Inductive, Typed, FilesTyped
<1> QED BY <1>3, <1>4, <1>5 DEF Inductive, Typed

LEMMA RemoveOldRecordStep ==
    ASSUME Inductive, NEW d \in Daemons, RemoveOldRecord(d), UNCHANGED scenario
    PROVE  Inductive'
<1>1. record' \in Descriptors
  BY HeldFacts DEF RemoveOldRecord, Descriptors
<1> QED BY <1>1, StageEnds DEF RemoveOldRecord

LEMMA WriteRecordStep ==
    ASSUME Inductive, NEW d \in Daemons, WriteRecord(d), UNCHANGED scenario
    PROVE  Inductive'
<1>1. dm[d].step # "none"
  BY DEF WriteRecord
<1>2. record' \in Descriptors
  BY <1>1, HeldFacts, DaemonFacts DEF WriteRecord, Descriptors
<1> QED BY <1>1, <1>2, StageEnds DEF WriteRecord

LEMMA PrepareFailsStep ==
    ASSUME Inductive, NEW d \in Daemons, PrepareFails(d), UNCHANGED scenario
    PROVE  Inductive'
<1> DEFINE b == dm[d].browser
<1>1. /\ dm[d].step # "none" /\ UNCHANGED <<file, record, lock, launched, ends>>
      /\ JobEnds(d, FALSE, b, FALSE)
  BY DEF PrepareFails
<1>2. FilesTyped' /\ b \in Held
  BY <1>1, FilesLeftAlone, HeldFacts DEF Inductive, Typed, FilesTyped
<1> HIDE DEF b
<1> QED BY <1>1, <1>2, JobEndsStep

LEMMA RelinquishStep ==
    ASSUME Inductive, NEW d \in Daemons, Relinquish(d), UNCHANGED scenario
    PROVE  Inductive'
<1> DEFINE c == dm[d].job
           b == dm[d].browser
           heard == cl[c].pc = "running" /\ cl[c].peer = d
           x == IF heard /\ dm[d].exit = "none" THEN "replied" ELSE dm[d].exit
           w == [dm[d] EXCEPT !.job = Nobody, !.step = "none", !.browser = Nobody, !.exit = x]
<1>1. /\ dm[d].step = "relinquish" /\ UNCHANGED <<file, record, lock, launched, ends>>
      /\ dm' = [dm EXCEPT ![d] = w]
      /\ IF heard THEN Reply(c, TRUE, b) ELSE UNCHANGED cl
  BY Zenon DEF Relinquish
<1>2. c \in Clients /\ b \in Held /\ x \in {"none", "lostbind", "replied", "delay", "notified"}
  BY <1>1, DaemonFacts, HeldFacts DEF DaemonRecord
<1> HIDE DEF c, b, x
<1>3. w \in DaemonRecord /\ w.pc = dm[d].pc /\ w.step = "none"
  BY <1>2, DaemonFacts, HeldFacts DEF DaemonRecord
<1> HIDE DEF w
<1>4. DaemonsTyped' /\ Unused' /\ \A e \in Daemons : Starting(e)' => Starting(e)
  BY <1>1, <1>3, DaemonServes
<1>5. ClientsTyped' /\ Counted' /\ Locked' /\ Watched'
  <2>1. CASE heard
    BY <1>1, <1>2, <1>4, <2>1, ReplyServes
  <2>2. CASE ~heard
    BY <1>1, <1>4, <2>2, ClientsWait
  <2> QED BY <2>1, <2>2
<1>6. FilesTyped'
  BY <1>1, FilesLeftAlone DEF Inductive, Typed, FilesTyped
<1> QED BY <1>4, <1>5, <1>6 DEF Inductive, Typed

LEMMA ResumeStep ==
    ASSUME Inductive, NEW d \in Daemons, Resume(d), UNCHANGED scenario
    PROVE  Inductive'
<1> DEFINE b == dm[d].browser
           w == [dm[d] EXCEPT !.browser = record.browser, !.step = "forget"]
<1>1. /\ dm[d].step = "resume" /\ UNCHANGED <<file, record, lock, launched, ends>>
      /\ JobEnds(d, FALSE, b, FALSE) \/ (dm' = [dm EXCEPT ![d] = w] /\ UNCHANGED cl)
  BY DEF Resume
<1>2. FilesTyped' /\ b \in Held
  BY <1>1, FilesLeftAlone, HeldFacts DEF Inductive, Typed, FilesTyped
<1>3. w \in DaemonRecord /\ w.pc = dm[d].pc /\ w.job = dm[d].job
  BY DaemonFacts, HeldFacts DEF DaemonRecord
<1> HIDE DEF b, w
<1>4. CASE JobEnds(d, FALSE, b, FALSE)
  BY <1>1, <1>2, <1>4, JobEndsStep
<1>5. CASE dm' = [dm EXCEPT ![d] = w] /\ UNCHANGED cl
  <2>1. DaemonsTyped' /\ Unused' /\ \A e \in Daemons : Starting(e)' => Starting(e)
    BY <1>1, <1>3, <1>5, DaemonFacts, DaemonServes
  <2>2. ClientsTyped' /\ Counted' /\ Locked' /\ Watched'
    BY <1>1, <1>5, <2>1, ClientsWait
  <2> QED BY <1>2, <2>1, <2>2 DEF Inductive, Typed
<1> QED BY <1>1, <1>4, <1>5

LEMMA ResumeFailsStep ==
    ASSUME Inductive, NEW d \in Daemons, ResumeFails(d), UNCHANGED scenario
    PROVE  Inductive'
<1>1. /\ dm[d].step = "resume" /\ UNCHANGED <<file, record, lock, launched, ends>>
      /\ JobEnds(d, FALSE, Nobody, FALSE)
  BY DEF ResumeFails
<1>2. FilesTyped'
  BY <1>1, FilesLeftAlone DEF Inductive, Typed, FilesTyped
<1> QED BY <1>1, <1>2, HeldFacts, JobEndsStep

LEMMA RemoveRecordStep ==
    ASSUME Inductive, NEW d \in Daemons, RemoveRecord(d), UNCHANGED scenario
    PROVE  Inductive'
<1> DEFINE b == dm[d].browser
<1>1. /\ dm[d].step = "forget" /\ UNCHANGED <<file, lock, launched, ends>>
      /\ record' \in Descriptors /\ JobEnds(d, TRUE, b, FALSE)
  BY HeldFacts DEF RemoveRecord, Descriptors
<1>2. FilesTyped' /\ b \in Held
  BY <1>1, FilesLeftAlone, HeldFacts DEF Inductive, Typed, FilesTyped
<1> HIDE DEF b
<1> QED BY <1>1, <1>2, JobEndsStep

(* Every step of a daemon. *)
LEMMA DaemonStepKeeps ==
    ASSUME Inductive, NEW d \in Daemons, DaemonStep(d)
    PROVE  Inductive'
<1>1. UNCHANGED scenario
  BY DEF DaemonStep
<1>2. CASE StartStep(d)
  BY <1>1, <1>2, WriteMetadataStep, UnlinkStep, BindStep, WriteShaStep, IdentifyStep,
     StartStreamStep DEF StartStep
<1>3. CASE ServeStep(d)
  BY <1>1, <1>3, AcceptStep, RefuseStep, TakeStep, WorkStep, CloseStep, PrepareBrowserlessStep,
     RemoveOldRecordStep, WriteRecordStep, PrepareFailsStep, RelinquishStep, ResumeStep, ResumeFailsStep, RemoveRecordStep,
     HandlerRemovesStreamStep, HandlerNotifiesStep DEF ServeStep
<1>4. CASE StopStep(d)
  BY <1>1, <1>4, StopNotifiedStep, StopIdleOrSignalledStep, CloseListenerStep,
     CheckOwnershipStep, RemoveArtifactStep DEF StopStep
<1>5. CASE Crash(d)
  BY <1>1, <1>5, CrashStep
<1> QED BY <1>2, <1>3, <1>4, <1>5 DEF DaemonStep

-----------------------------------------------------------------------------
(* The invariant, and what follows from it. *)

LEMMA InitKeeps == Init => Inductive
<1> SUFFICES ASSUME Init PROVE Inductive
  OBVIOUS
<1>1. /\ scenario \in Scenarios /\ lock = Nobody /\ record = [browser |-> Nobody, by |-> Nobody]
      /\ ends = [crashes |-> 0, stops |-> 0] /\ cl = [c \in Clients |-> Idle(c)]
  BY DEF Init
<1>2. scenario \in Scenario /\ scenario.browsers <= MaxBrowsers
  BY <1>1, LifecycleAssumption
<1>3. /\ scenario.tries \in Nat \ {0} /\ scenario.browsers \in Nat
      /\ scenario.crashes \in Nat /\ scenario.stops \in Nat
      /\ scenario.kind \in [Clients -> {"work", "close", "prepare"}]
      /\ scenario.cold \in [Clients -> BOOLEAN]
  BY <1>2 DEF Scenario
<1>4. MaxDaemons \in Nat \ {0} /\ MaxBrowsers \in Nat /\ Nobody \notin Clients
  BY LifecycleAssumption
<1>5. ends \in [crashes : 0 .. scenario.crashes, stops : 0 .. scenario.stops]
  BY <1>1, <1>3
<1>6. OwnedFiles \subseteq Files /\ "sock" \in OwnedFiles /\ "token" \in OwnedFiles
  BY DEF OwnedFiles, Files
<1>7. /\ Nobody \in Procs /\ Nobody \in Held /\ Absent \in Builds /\ FirstBuild \in Builds
      /\ "unborn" \in Phases /\ "serve" \in Phases /\ 1 \in 1 .. 3 /\ 1 \in Procs /\ 1 \in Daemons
      /\ Orphan # Nobody /\ Orphan # 1
  BY <1>4 DEF Procs, Held, Builds, Phases, Daemons, Orphan, Nobody
<1>15. record \in Descriptors
  BY <1>1, <1>7 DEF Descriptors
<1>8. NoDaemon \in DaemonRecord /\ NoDaemon.step = "none" /\ NoDaemon.exit = "none"
      /\ NoDaemon.pc = "unborn"
  BY <1>7 DEF NoDaemon, DaemonRecord
<1>9. /\ DaemonsTyped /\ Unused /\ \A d \in Daemons : ~Starting(d)
      /\ FilesTyped /\ (file["sock"] # Nobody => file["token"] = file["sock"])
  <2>1. CASE /\ dm = [d \in Daemons |-> NoDaemon] /\ file = [f \in Files |-> NoFile(f)]
             /\ launched = 0
    <3>1. DaemonsTyped /\ Unused /\ \A d \in Daemons : ~Starting(d)
      BY <1>8, <2>1 DEF DaemonsTyped, Unused, Starting
    <3>2. /\ \A f \in OwnedFiles : file[f] = Nobody
          /\ \A f \in Files \ OwnedFiles : file[f] = Absent
      BY <1>6, <2>1 DEF NoFile
    <3>3. DOMAIN file = Files /\ file = [f \in Files |-> file[f]]
      BY <2>1
    <3>4. launched \in 0 .. scenario.browsers
      BY <1>3, <2>1
    <3> QED BY <1>1, <1>5, <1>6, <1>7, <1>15, <3>1, <3>2, <3>3, <3>4 DEF FilesTyped
  <2>2. CASE /\ scenario.browsers > 0 /\ launched = 1
             /\ dm = [[d \in Daemons |-> NoDaemon] EXCEPT
                        ![1] = [NoDaemon EXCEPT !.pc = "serve", !.build = FirstBuild,
                                                !.ident = 1, !.sha = TRUE, !.browser = 1]]
             /\ file = [f \in Files |-> IF f \in OwnedFiles THEN 1 ELSE FirstBuild]
    <3> DEFINE w == [NoDaemon EXCEPT !.pc = "serve", !.build = FirstBuild, !.ident = 1,
                                     !.sha = TRUE, !.browser = 1]
    <3>1. 1 \in Held /\ launched \in 0 .. scenario.browsers
      BY <1>2, <1>3, <1>4, <2>2 DEF Held, Browsers
    <3>2. w \in DaemonRecord /\ w.step = "none" /\ w.exit = "none" /\ w.pc = "serve"
      BY <1>7, <1>8, <3>1 DEF DaemonRecord
    <3>3. dm = [[d \in Daemons |-> NoDaemon] EXCEPT ![1] = w]
      BY <2>2
    <3> HIDE DEF w
    <3>4. /\ dm \in [Daemons -> DaemonRecord]
          /\ \A d \in Daemons : dm[d] = NoDaemon \/ dm[d] = w
      BY <1>7, <1>8, <3>2, <3>3
    <3>5. DaemonsTyped /\ Unused /\ \A d \in Daemons : ~Starting(d)
      BY <1>8, <3>2, <3>4 DEF DaemonsTyped, Unused, Starting
    <3>6. /\ \A f \in OwnedFiles : file[f] = 1
          /\ \A f \in Files \ OwnedFiles : file[f] = FirstBuild
          /\ DOMAIN file = Files /\ file = [f \in Files |-> file[f]]
      BY <1>6, <2>2
    <3> QED BY <1>1, <1>5, <1>6, <1>7, <1>15, <3>1, <3>5, <3>6 DEF FilesTyped
  <2> QED BY <2>1, <2>2 DEF Init
<1>10. \A c \in Clients : Idle(c) \in ClientRecord
  BY <1>9, IdleTyped
<1>11. \A c \in Clients : /\ cl[c].try = 1 /\ cl[c].pc = "lock" /\ cl[c].inside
                          /\ cl[c].runs = 0 /\ cl[c].lost = 0 /\ cl[c].handed = Nobody
  BY <1>1 DEF Idle
<1>12. ClientsTyped
  BY <1>1, <1>3, <1>10, <1>11 DEF ClientsTyped
<1>13. Counted /\ Locked
  BY <1>1, <1>4, <1>11 DEF Counted, Locked, Sending
<1>14. Watched
  BY <1>9, <1>11 DEF Watched
<1> QED BY <1>9, <1>12, <1>13, <1>14 DEF Inductive, Typed

LEMMA NextKeeps == Inductive /\ [Next]_vars => Inductive'
<1> SUFFICES ASSUME Inductive, [Next]_vars PROVE Inductive'
  OBVIOUS
<1>1. CASE Next
  BY <1>1, ClientStepKeeps, DaemonStepKeeps DEF Next
<1>2. CASE UNCHANGED vars
  <2>1. FilesTyped' /\ DaemonsTyped' /\ Unused'
    BY <1>2, SameFiles, SameDaemons DEF vars, Inductive, Typed, FilesTyped
  <2>2. ClientsTyped' /\ Counted' /\ Locked' /\ Watched'
    BY <1>2, ClientsWait DEF vars, Starting
  <2> QED BY <2>1, <2>2 DEF Inductive, Typed
<1> QED BY <1>1, <1>2

(* Every reachable state of every number of clients, daemons and browsers   *)
(* satisfies the invariant.                                                 *)
THEOREM InductiveInvariant == Spec => []Inductive
BY InitKeeps, NextKeeps, PTL DEF Spec

(* A command of a client runs a second time only after a connection it was  *)
(* written on was lost, and the first command of a cold start at most once, *)
(* however the clients and daemons interleave, stop and crash.              *)
THEOREM RunsAreCaused == Spec => []RunsHaveCause
<1>1. Inductive => RunsHaveCause
  <2> SUFFICES ASSUME Inductive PROVE RunsHaveCause
    OBVIOUS
  <2>1. \A c \in Clients : /\ cl[c].try \in 1 .. scenario.tries
                           /\ {cl[c].peer, cl[c].token, cl[c].child} \subseteq Procs
    BY ClientFacts, ScenarioFacts DEF ClientRecord, Inductive, Typed
  <2>2. \A d \in Daemons : dm[d].browser \in Held /\ dm[d].job \in Clients \cup {Nobody}
    BY DaemonFacts DEF DaemonRecord
  <2>3. TypeOK
    BY <2>1, <2>2 DEF TypeOK, Inductive, Typed, FilesTyped, Descriptors, Procs, Held, Builds
  <2>4. RunAgainOnlyAfterLoss /\ ColdOnce
    BY ClientFacts DEF RunAgainOnlyAfterLoss, ColdOnce
  <2> QED BY <2>3, <2>4 DEF RunsHaveCause
<1> QED BY <1>1, InductiveInvariant, PTL

(* When every start is in time, nobody holds the startup lock, every daemon *)
(* serves or is gone, and one answers on the socket path, then the token    *)
(* file holds the token of that daemon: its clients are not locked out.     *)
THEOREM QuietSessionsAreAuthorised == Spec => []QuietSessionAuthorised
<1>1. Inductive => QuietSessionAuthorised
  <2> SUFFICES ASSUME Inductive, ~scenario.slow, Quiet, daemon_ready
               PROVE  file["token"] = file["sock"]
    BY DEF QuietSessionAuthorised
  <2>1. file["sock"] # Nobody
    BY DEF daemon_ready, Holds, NoFile, OwnedFiles
  <2>2. lock = Nobody /\ Nobody \notin Clients
    BY ScenarioFacts DEF Quiet, Inductive, Typed
  <2> QED BY <2>1, <2>2 DEF Inductive, Watched
<1> QED BY <1>1, InductiveInvariant, PTL

-----------------------------------------------------------------------------
(* Hand-overs. *)

(* The stages of a command in the worker, by what its client sent. *)
Stages(sub) ==
    CASE sub = "prepare" -> {"prepare", "publish", "relinquish"}
      [] sub = "resume" -> {"resume", "forget"}
      [] OTHER -> {sub}

(* An answer waits only on a connection that was written to; a client asks  *)
(* for a resume only for the browser it knows was handed over, and once it  *)
(* knows it, it asks for no other hand-over.                                *)
Asks(c) ==
    /\ cl[c].answered => cl[c].pc \in {"wait", "running"}
    /\ cl[c].sub = "resume" => cl[c].handed # Nobody
    /\ cl[c].handed # Nobody =>
         \/ cl[c].pc \in {"clean", "token", "poll", "pollexit"}
         \/ cl[c].sub = "resume" /\ cl[c].pc \in {"connect", "send", "wait", "running"}

(* The command in a worker is one whose client still waits for it on the    *)
(* connection it was read from, or has given up.                            *)
Serves(d, c) ==
    /\ Alive(d)
    /\ \/ cl[c].pc = "failed"
       \/ /\ cl[c].pc = "running" /\ cl[c].peer = d /\ cl[c].accepted /\ ~cl[c].answered
          /\ dm[d].step \in Stages(cl[c].sub)

(* While a client's own hand-over is the last that wrote the descriptor, it *)
(* names no other browser than the one in the client's answer, the one the  *)
(* client knows was handed over, and the one its daemon relinquishes; and   *)
(* what the replacement resumes is that browser.                            *)
Named(c) ==
    record.by = c =>
        /\ (/\ cl[c].inside /\ cl[c].sub = "prepare" /\ cl[c].answered /\ cl[c].answer.ok
            /\ cl[c].answer.browser # Nobody)
             => record.browser \in {cl[c].answer.browser, Nobody}
        /\ cl[c].handed # Nobody => record.browser \in {cl[c].handed, Nobody}
        /\ cl[c].sub = "resume" /\ cl[c].answered /\ cl[c].answer.ok
             => cl[c].answer.browser = cl[c].handed
Given(d, c) ==
    record.by = c /\ cl[c].pc = "running" =>
        /\ dm[d].step = "relinquish" => record.browser \in {dm[d].browser, Nobody}
        /\ dm[d].step = "forget" => dm[d].browser = cl[c].handed

HandedOver ==
    /\ \A c \in Clients : Asks(c) /\ Named(c)
    /\ \A d \in Daemons, c \in Clients : dm[d].job = c => Serves(d, c) /\ Given(d, c)

(* A client whose command no worker has: it does not wait for one, has its  *)
(* answer, or has lost the connection.                                      *)
LEMMA NotServed ==
    ASSUME Inductive, HandedOver, NEW c \in Clients,
           \/ cl[c].pc \notin {"failed", "running"}
           \/ cl[c].pc = "running" /\ (cl[c].answered \/ Broken(c))
    PROVE  \A d \in Daemons : dm[d].job # c
BY DEF HandedOver, Serves, Broken

(* A step of one client. *)
LEMMA ClientHands ==
    ASSUME Inductive, HandedOver, NEW c \in Clients, UNCHANGED record,
           \A b \in Clients : b # c => cl'[b] = cl[b],
           \A d \in Daemons : dm'[d].job \in Clients => dm'[d] = dm[d],
           (\A d \in Daemons : dm[d].job # c) \/ cl'[c].pc = "failed",
           Asks(c)', Named(c)'
    PROVE  HandedOver'
<1>1. ASSUME NEW b \in Clients PROVE Asks(b)' /\ Named(b)'
  <2>1. CASE b = c
    BY <2>1
  <2>2. CASE b # c
    BY <2>2 DEF HandedOver, Asks, Named
  <2> QED BY <2>1, <2>2
<1>2. ASSUME NEW d \in Daemons, NEW b \in Clients, dm'[d].job = b
      PROVE  Serves(d, b)' /\ Given(d, b)'
  <2>1. dm'[d] = dm[d] /\ dm[d].job = b /\ Serves(d, b) /\ Given(d, b)
    BY <1>2 DEF HandedOver
  <2>2. CASE b = c
    <3>1. cl'[b].pc = "failed"
      BY <2>1, <2>2
    <3> QED BY <2>1, <3>1 DEF Serves, Given, Alive
  <2>3. CASE b # c
    <3>1. cl'[b] = cl[b]
      BY <2>3
    <3> QED BY <2>1, <3>1 DEF Serves, Given, Alive
  <2> QED BY <2>2, <2>3
<1> QED BY <1>1, <1>2 DEF HandedOver

(* A call that has left ensure_daemon or has ended knows of no hand-over. *)
LEMMA ForgottenHands ==
    ASSUME Inductive, HandedOver, NEW c \in Clients, NEW label, NEW runs, NEW lost,
           Forget(c, label, runs, lost), UNCHANGED <<scenario, record>>,
           \A d \in Daemons : dm'[d].job \in Clients => dm'[d] = dm[d],
           (\A d \in Daemons : dm[d].job # c) \/ label = "failed"
    PROVE  HandedOver'
<1>1. /\ cl'[c] = [Idle(c) EXCEPT !.pc = label, !.inside = FALSE, !.runs = runs, !.lost = lost]
      /\ \A b \in Clients : b # c => cl'[b] = cl[b]
  BY DEF Forget, Inductive, Typed, ClientsTyped
<1>2. /\ cl'[c].pc = label /\ cl'[c].handed = Nobody /\ ~cl'[c].answered
      /\ cl'[c].sub = Kind(c)
  BY <1>1 DEF Idle
<1>3. Kind(c) # "resume"
  BY ScenarioFacts DEF Inductive, Typed
<1>4. Asks(c)' /\ Named(c)'
  BY <1>2, <1>3 DEF Asks, Named
<1> QED BY <1>1, <1>2, <1>4, ClientHands

(* A client goes on within its call: it knows what it knew. *)
LEMMA WalksHands ==
    ASSUME Inductive, HandedOver, NEW c \in Clients, NEW r, cl' = [cl EXCEPT ![c] = r],
           UNCHANGED record,
           \A d \in Daemons : dm'[d].job \in Clients => dm'[d] = dm[d],
           \A d \in Daemons : dm[d].job # c,
           r.sub = cl[c].sub, r.handed = cl[c].handed, r.answered = cl[c].answered,
           r.answer = cl[c].answer, r.inside = cl[c].inside,
           cl[c].answered => r.pc \in {"wait", "running"},
           cl[c].handed # Nobody =>
             \/ r.pc \in {"clean", "token", "poll", "pollexit"}
             \/ r.sub = "resume" /\ r.pc \in {"connect", "send", "wait", "running"}
    PROVE  HandedOver'
<1>1. cl'[c] = r /\ \A b \in Clients : b # c => cl'[b] = cl[b]
  BY DEF Inductive, Typed, ClientsTyped
<1>2. Asks(c) /\ Named(c)
  BY DEF HandedOver
<1>3. Asks(c)'
  BY <1>1, <1>2 DEF Asks
<1>4. Named(c)'
  BY <1>1, <1>2 DEF Named
<1> QED BY <1>1, <1>3, <1>4, ClientHands

(* Before a client has asked for anything, and while it removes files and   *)
(* starts a daemon, no worker has a command of it, and no answer waits.     *)
LEMMA Unasked ==
    ASSUME Inductive, HandedOver, NEW c \in Clients, cl[c].pc \notin {"failed", "wait", "running"}
    PROVE  /\ \A d \in Daemons : dm[d].job # c
           /\ ~cl[c].answered
           /\ cl[c].pc \in {"lock", "admit", "recheck"} => cl[c].handed = Nobody
<1>1. Asks(c)
  BY DEF HandedOver
<1> QED BY <1>1, NotServed DEF Asks

(* The client fails, from wherever it is. *)
LEMMA FailHands ==
    ASSUME Inductive, HandedOver, NEW c \in Clients, Fail(c), UNCHANGED <<scenario, record, dm>>
    PROVE  HandedOver'
BY ForgottenHands DEF Fail, FailLost

LEMMA AdmittedHands ==
    ASSUME Inductive, HandedOver, NEW c \in Clients, Admitted(c), UNCHANGED <<scenario, record, dm>>,
           \A d \in Daemons : dm[d].job # c
    PROVE  HandedOver'
BY ForgottenHands DEF Admitted

LEMMA GotoHands ==
    ASSUME Inductive, HandedOver, NEW c \in Clients, NEW label, Goto(c, label),
           UNCHANGED <<scenario, record, dm>>, cl[c].pc \notin {"failed", "wait", "running"},
           cl[c].handed # Nobody =>
             label \in {"clean", "token", "poll", "pollexit"}
    PROVE  HandedOver'
<1> DEFINE r == [cl[c] EXCEPT !.pc = label]
<1>1. /\ r.pc = label /\ r.sub = cl[c].sub /\ r.handed = cl[c].handed
      /\ r.answered = cl[c].answered /\ r.answer = cl[c].answer /\ r.inside = cl[c].inside
  BY ClientFacts DEF ClientRecord
<1>2. cl' = [cl EXCEPT ![c] = r]
  BY DEF Goto
<1> HIDE DEF r
<1> QED BY <1>1, <1>2, Unasked, WalksHands

(* ensure_daemon. *)
LEMMA EnsureHands ==
    ASSUME Inductive, HandedOver, NEW c \in Clients, EnsureStep(c), UNCHANGED scenario
    PROVE  HandedOver'
<1>1. CASE AcquireLock(c)
  BY <1>1, GotoHands, Unasked DEF AcquireLock
<1>2. CASE LockTimeout(c)
  BY <1>2, ForgottenHands DEF LockTimeout
<1>3. CASE AdmitCold(c)
  <2>1. CASE Fail(c)
    BY <1>3, <2>1, FailHands DEF AdmitCold
  <2>2. CASE Goto(c, "token")
    BY <1>3, <2>2, GotoHands DEF AdmitCold
  <2> QED BY <1>3, <2>1, <2>2 DEF AdmitCold
<1>4. CASE Admit(c)
  <2> DEFINE r1 == [cl[c] EXCEPT !.pc = "recheck", !.seen = {d \in Daemons : dm[d].exit = "delay"}]
             r2 == [cl[c] EXCEPT !.pc = "clean", !.at = Len(CleanOrder) + 1]
  <2>1. /\ cl[c].pc = "admit" /\ UNCHANGED <<record, dm>>
        /\ cl' = [cl EXCEPT ![c] = r1] \/ cl' = [cl EXCEPT ![c] = r2]
    BY <1>4 DEF Admit
  <2>2. \A r \in {r1, r2} :
          /\ r.pc \in {"recheck", "clean"} /\ r.sub = cl[c].sub /\ r.handed = cl[c].handed
          /\ r.answered = cl[c].answered /\ r.answer = cl[c].answer /\ r.inside = cl[c].inside
    BY ClientFacts DEF ClientRecord
  <2> HIDE DEF r1, r2
  <2> QED BY <2>1, <2>2, Unasked, WalksHands
<1>5. CASE Recheck(c)
  <2> DEFINE r1 == [cl[c] EXCEPT !.pc = "clean", !.at = Len(CleanOrder) + 1, !.seen = {}]
             r2 == [cl[c] EXCEPT !.pc = "connect", !.sub = "prepare", !.seen = {}]
  <2>1. /\ cl[c].pc = "recheck" /\ UNCHANGED <<record, dm>>
        /\ \/ cl' = [cl EXCEPT ![c] = r1]
           \/ cl' = [cl EXCEPT ![c] = r2]
           \/ Fail(c) \/ Admitted(c)
    BY <1>5 DEF Recheck
  <2>2. /\ r1.pc = "clean" /\ r1.sub = cl[c].sub /\ r1.handed = cl[c].handed
        /\ r1.answered = cl[c].answered /\ r1.answer = cl[c].answer /\ r1.inside = cl[c].inside
        /\ r2.sub = "prepare" /\ r2.handed = cl[c].handed /\ r2.answered = cl[c].answered
    BY ClientFacts DEF ClientRecord
  <2> HIDE DEF r1, r2
  <2>3. CASE cl' = [cl EXCEPT ![c] = r1]
    BY <2>1, <2>2, <2>3, Unasked, WalksHands
  <2>4. CASE cl' = [cl EXCEPT ![c] = r2]
    <3>1. cl'[c] = r2 /\ \A b \in Clients : b # c => cl'[b] = cl[b]
      BY <2>4 DEF Inductive, Typed, ClientsTyped
    <3>2. Asks(c)' /\ Named(c)'
      BY <2>1, <2>2, <3>1, Unasked DEF Asks, Named
    <3> QED BY <2>1, <3>1, <3>2, Unasked, ClientHands
  <2>5. CASE Fail(c)
    BY <2>1, <2>5, FailHands
  <2>6. CASE Admitted(c)
    BY <2>1, <2>6, Unasked, AdmittedHands
  <2> QED BY <2>1, <2>3, <2>4, <2>5, <2>6
<1>6. CASE Clean(c)
  <2> DEFINE r == [cl[c] EXCEPT !.pc = IF cl[c].at = 2 * Len(CleanOrder) THEN "token" ELSE "clean",
                                !.at = IF cl[c].at = 2 * Len(CleanOrder) THEN 1 ELSE cl[c].at + 1]
  <2>1. cl[c].pc = "clean" /\ UNCHANGED <<record, dm>> /\ cl' = [cl EXCEPT ![c] = r]
    BY <1>6 DEF Clean
  <2>2. /\ r.pc \in {"token", "clean"} /\ r.sub = cl[c].sub /\ r.handed = cl[c].handed
        /\ r.answered = cl[c].answered /\ r.answer = cl[c].answer /\ r.inside = cl[c].inside
    BY ClientFacts DEF ClientRecord
  <2> HIDE DEF r
  <2> QED BY <2>1, <2>2, Unasked, WalksHands
<1>7. CASE Spawn(c)
  <2>1. cl[c].pc = "token" /\ UNCHANGED record
    BY <1>7 DEF Spawn
  <2>2. CASE Fail(c) /\ UNCHANGED dm
    BY <2>1, <2>2, FailHands
  <2>3. CASE \E d \in Daemons : /\ cl' = [cl EXCEPT ![c].pc = "poll", ![c].child = d]
                                /\ dm[d].pc = "unborn"
                                /\ dm' = [dm EXCEPT ![d].pc = "write", ![d].build = Build(c),
                                                    ![d].cold = Cold(c)]
    <3>1. PICK d \in Daemons : /\ cl' = [cl EXCEPT ![c].pc = "poll", ![c].child = d]
                               /\ dm[d].pc = "unborn"
                               /\ dm' = [dm EXCEPT ![d].pc = "write", ![d].build = Build(c),
                                                   ![d].cold = Cold(c)]
      BY <2>3
    <3> DEFINE r == [cl[c] EXCEPT !.pc = "poll", !.child = d]
               w == [dm[d] EXCEPT !.pc = "write", !.build = Build(c), !.cold = Cold(c)]
    <3>2. cl' = [cl EXCEPT ![c] = r] /\ dm' = [dm EXCEPT ![d] = w]
      BY <3>1
    <3>3. /\ r.pc = "poll" /\ r.sub = cl[c].sub /\ r.handed = cl[c].handed
          /\ r.answered = cl[c].answered /\ r.answer = cl[c].answer /\ r.inside = cl[c].inside
      BY ClientFacts DEF ClientRecord
    <3>4. w.job = dm[d].job
      BY DaemonFacts DEF DaemonRecord
    <3> HIDE DEF r, w
    <3>5. dm[d].job \notin Clients
      BY <3>1 DEF HandedOver, Serves, Alive
    <3>6. \A e \in Daemons : dm'[e].job \in Clients => dm'[e] = dm[e]
      BY <3>2, <3>4, <3>5 DEF Inductive, Typed, DaemonsTyped
    <3> QED BY <2>1, <3>2, <3>3, <3>6, Unasked, WalksHands
  <2> QED BY <1>7, <2>2, <2>3 DEF Spawn
<1>8. CASE SpawnFails(c)
  BY <1>8, FailHands DEF SpawnFails
<1>9. CASE Poll(c)
  <2> DEFINE r == [cl[c] EXCEPT !.pc = "connect", !.sub = "resume", !.try = 1]
  <2>1. /\ cl[c].pc = "poll" /\ UNCHANGED <<record, dm>>
        /\ \/ Goto(c, "pollexit")
           \/ Fail(c)
           \/ cl[c].handed # Nobody /\ cl' = [cl EXCEPT ![c] = r]
           \/ Admitted(c)
    BY <1>9 DEF Poll
  <2>2. /\ r.pc = "connect" /\ r.sub = "resume" /\ r.handed = cl[c].handed
        /\ r.answered = cl[c].answered
    BY ClientFacts DEF ClientRecord
  <2> HIDE DEF r
  <2>3. CASE Goto(c, "pollexit")
    BY <2>1, <2>3, GotoHands
  <2>4. CASE Fail(c)
    BY <2>1, <2>4, FailHands
  <2>5. CASE cl[c].handed # Nobody /\ cl' = [cl EXCEPT ![c] = r]
    <3>1. cl'[c] = r /\ \A b \in Clients : b # c => cl'[b] = cl[b]
      BY <2>5 DEF Inductive, Typed, ClientsTyped
    <3>2. Named(c)
      BY DEF HandedOver
    <3>3. Asks(c)' /\ Named(c)'
      BY <2>1, <2>2, <2>5, <3>1, <3>2, Unasked DEF Asks, Named
    <3> QED BY <2>1, <3>1, <3>3, Unasked, ClientHands
  <2>6. CASE Admitted(c)
    BY <2>1, <2>6, Unasked, AdmittedHands
  <2> QED BY <2>1, <2>3, <2>4, <2>5, <2>6
<1>10. CASE PollExit(c)
  <2>1. CASE Fail(c)
    BY <1>10, <2>1, FailHands DEF PollExit
  <2>2. CASE Goto(c, "poll")
    BY <1>10, <2>2, GotoHands DEF PollExit
  <2> QED BY <1>10, <2>1, <2>2 DEF PollExit
<1>11. CASE PollTimeout(c)
  BY <1>11, FailHands DEF PollTimeout
<1> QED BY <1>1, <1>2, <1>3, <1>4, <1>5, <1>6, <1>7, <1>8, <1>9, <1>10, <1>11 DEF EnsureStep

(* Another attempt, or the end of the call. *)
LEMMA RetryHands ==
    ASSUME Inductive, HandedOver, NEW c \in Clients, NEW written \in BOOLEAN, Retry(c, written),
           UNCHANGED <<scenario, record, dm>>, \A d \in Daemons : dm[d].job # c,
           cl[c].pc \in {"connect", "send", "wait", "running"}, ~cl[c].answered
    PROVE  HandedOver'
<1> DEFINE lost == IF written /\ Own(c) THEN cl[c].lost + 1 ELSE cl[c].lost
           r == [cl[c] EXCEPT !.pc = "connect", !.try = cl[c].try + 1, !.lost = lost,
                              !.peer = Nobody, !.accepted = FALSE, !.token = Nobody]
<1>1. cl' = [cl EXCEPT ![c] = r] \/ FailLost(c, lost)
  BY DEF Retry
<1>2. /\ r.pc = "connect" /\ r.sub = cl[c].sub /\ r.handed = cl[c].handed
      /\ r.answered = cl[c].answered /\ r.answer = cl[c].answer /\ r.inside = cl[c].inside
  BY ClientFacts DEF ClientRecord
<1> HIDE DEF lost, r
<1>3. CASE cl' = [cl EXCEPT ![c] = r]
  <2>1. cl[c].handed # Nobody => cl[c].sub = "resume"
    BY DEF HandedOver, Asks
  <2> QED BY <1>2, <1>3, <2>1, WalksHands
<1>4. CASE FailLost(c, lost)
  BY <1>4, ForgottenHands DEF FailLost
<1> QED BY <1>1, <1>3, <1>4

(* The answer to a request to hand over names the browser that the          *)
(* descriptor names, unless another hand-over has written it since.         *)
LEMMA ReceiveHands ==
    ASSUME Inductive, HandedOver, NEW c \in Clients, Receive(c), UNCHANGED scenario
    PROVE  HandedOver'
<1> DEFINE q == [cl[c] EXCEPT !.peer = Nobody, !.accepted = FALSE, !.token = Nobody,
                              !.answered = FALSE, !.answer = NoAnswer]
           a == cl[c].answer
           R(known) == [q EXCEPT !.pc = "clean", !.at = 1, !.try = 1, !.handed = a.browser,
                                 !.pid = IF known THEN a.browser ELSE Nobody]
<1>1. /\ cl[c].answered /\ cl[c].pc \in {"wait", "running"} /\ UNCHANGED <<record, dm>>
      /\ \/ Forget(c, "done", cl[c].runs, cl[c].lost)
         \/ Fail(c)
         \/ /\ cl[c].inside /\ a.ok /\ cl[c].sub = "prepare"
            /\ \E known \in BOOLEAN : cl' = [cl EXCEPT ![c] = R(known)]
         \/ Admitted(c)
  BY DEF Receive, Own
<1>2. \A d \in Daemons : dm[d].job # c
  BY <1>1, NotServed
<1>3. CASE Forget(c, "done", cl[c].runs, cl[c].lost)
  BY <1>1, <1>2, <1>3, ForgottenHands
<1>4. CASE Fail(c)
  BY <1>1, <1>4, FailHands
<1>5. CASE Admitted(c)
  BY <1>1, <1>2, <1>5, AdmittedHands
<1>6. CASE /\ cl[c].inside /\ a.ok /\ cl[c].sub = "prepare"
           /\ \E known \in BOOLEAN : cl' = [cl EXCEPT ![c] = R(known)]
  <2>1. PICK known \in BOOLEAN : cl' = [cl EXCEPT ![c] = R(known)]
    BY <1>6
  <2> DEFINE r == R(known)
  <2>2. cl' = [cl EXCEPT ![c] = r]
    BY <2>1
  <2>3. r.pc = "clean" /\ r.sub = "prepare" /\ r.handed = a.browser /\ r.answered = FALSE
    BY <1>6, ClientFacts DEF ClientRecord
  <2> HIDE DEF r
  <2>4. cl'[c] = r /\ \A b \in Clients : b # c => cl'[b] = cl[b]
    BY <2>2 DEF Inductive, Typed, ClientsTyped
  <2>5. Named(c)
    BY DEF HandedOver
  <2>6. Asks(c)' /\ Named(c)'
    BY <1>1, <1>6, <2>3, <2>4, <2>5 DEF Asks, Named
  <2> QED BY <1>1, <1>2, <2>4, <2>6, ClientHands
<1> QED BY <1>1, <1>3, <1>4, <1>5, <1>6

(* send_command. *)
LEMMA SendHands ==
    ASSUME Inductive, HandedOver, NEW c \in Clients, SendStep(c), UNCHANGED scenario
    PROVE  HandedOver'
<1>1. CASE Connect(c)
  <2> DEFINE r == [cl[c] EXCEPT !.pc = "send", !.peer = file["sock"]]
  <2>1. /\ cl[c].pc = "connect" /\ UNCHANGED <<record, dm>>
        /\ cl' = [cl EXCEPT ![c] = r] \/ Retry(c, FALSE)
    BY <1>1 DEF Connect
  <2>2. /\ r.pc = "send" /\ r.sub = cl[c].sub /\ r.handed = cl[c].handed
        /\ r.answered = cl[c].answered /\ r.answer = cl[c].answer /\ r.inside = cl[c].inside
    BY ClientFacts DEF ClientRecord
  <2> HIDE DEF r
  <2>3. cl[c].handed # Nobody => cl[c].sub = "resume"
    BY <2>1 DEF HandedOver, Asks
  <2>4. CASE cl' = [cl EXCEPT ![c] = r]
    BY <2>1, <2>2, <2>3, <2>4, Unasked, WalksHands
  <2>5. CASE Retry(c, FALSE)
    BY <2>1, <2>5, Unasked, RetryHands
  <2> QED BY <2>1, <2>4, <2>5
<1>2. CASE Send(c)
  <2> DEFINE r == [cl[c] EXCEPT !.pc = "wait", !.token = file["token"]]
  <2>1. /\ cl[c].pc = "send" /\ UNCHANGED <<record, dm>>
        /\ cl' = [cl EXCEPT ![c] = r] \/ Retry(c, FALSE)
    BY <1>2 DEF Send
  <2>2. /\ r.pc = "wait" /\ r.sub = cl[c].sub /\ r.handed = cl[c].handed
        /\ r.answered = cl[c].answered /\ r.answer = cl[c].answer /\ r.inside = cl[c].inside
    BY ClientFacts DEF ClientRecord
  <2> HIDE DEF r
  <2>3. cl[c].handed # Nobody => cl[c].sub = "resume"
    BY <2>1 DEF HandedOver, Asks
  <2>4. CASE cl' = [cl EXCEPT ![c] = r]
    BY <2>1, <2>2, <2>3, <2>4, Unasked, WalksHands
  <2>5. CASE Retry(c, FALSE)
    BY <2>1, <2>5, Unasked, RetryHands
  <2> QED BY <2>1, <2>4, <2>5
<1>3. CASE ConnectionLost(c)
  <2>1. \A d \in Daemons : dm[d].job # c
    BY <1>3, NotServed DEF ConnectionLost
  <2> QED BY <1>3, <2>1, RetryHands DEF ConnectionLost
<1>4. CASE ReadTimeout(c)
  BY <1>4, FailHands DEF ReadTimeout
<1>5. CASE Receive(c)
  BY <1>5, ReceiveHands
<1> QED BY <1>1, <1>2, <1>3, <1>4, <1>5 DEF SendStep

(* A daemon whose command, its stage and its browser are as they were, or   *)
(* that has no command.                                                     *)
LEMMA DaemonHands ==
    ASSUME Inductive, HandedOver, NEW d \in Daemons, NEW w, dm' = [dm EXCEPT ![d] = w],
           UNCHANGED <<cl, record>>,
           w.job \in Clients =>
             /\ w.job = dm[d].job /\ w.step = dm[d].step /\ w.browser = dm[d].browser
             /\ w.pc \notin {"unborn", "dead"}
    PROVE  HandedOver'
<1>1. dm'[d] = w /\ \A e \in Daemons : e # d => dm'[e] = dm[e]
  BY DEF Inductive, Typed, DaemonsTyped
<1>2. ASSUME NEW e \in Daemons, NEW c \in Clients, dm'[e].job = c
      PROVE  Serves(e, c)' /\ Given(e, c)'
  <2>1. /\ dm[e].job = c /\ dm'[e].step = dm[e].step /\ dm'[e].browser = dm[e].browser
        /\ Alive(e)'
    <3>1. CASE e = d
      BY <1>1, <1>2, <3>1 DEF Alive
    <3>2. CASE e # d
      BY <1>1, <1>2, <3>2 DEF HandedOver, Serves, Alive
    <3> QED BY <3>1, <3>2
  <2>2. Serves(e, c) /\ Given(e, c)
    BY <2>1 DEF HandedOver
  <2> QED BY <2>1, <2>2 DEF Serves, Given
<1>3. \A c \in Clients : Asks(c)' /\ Named(c)'
  BY DEF HandedOver, Asks, Named
<1> QED BY <1>2, <1>3 DEF HandedOver

LEMMA DeadHands ==
    ASSUME Inductive, HandedOver, NEW d \in Daemons, NEW why, dm' = Dead(d, why),
           UNCHANGED <<cl, record>>
    PROVE  HandedOver'
<1> DEFINE w == [NoDaemon EXCEPT !.pc = "dead", !.exit = why]
<1>1. dm' = [dm EXCEPT ![d] = w] /\ w.job \notin Clients
  BY ScenarioFacts DEF Dead, NoDaemon, Inductive, Typed
<1> HIDE DEF w
<1> QED BY <1>1, DaemonHands

(* The steps of a daemon that are not about a command. *)
LEMMA StartHands ==
    ASSUME Inductive, HandedOver, NEW d \in Daemons, StartStep(d)
    PROVE  HandedOver'
<1>1. UNCHANGED <<cl, record>>
  BY DEF StartStep, WriteMetadata, Unlink, Bind, WriteSha, Identify, StartStream
<1>2. dm[d] \in DaemonRecord /\ dm[d].pc \notin {"unborn", "dead"}
  BY DaemonFacts DEF StartStep, WriteMetadata, Unlink, Bind, WriteSha, Identify, StartStream
<1>3. CASE WriteMetadata(d)
  <2> DEFINE w == [dm[d] EXCEPT !.at = IF dm[d].at = 3 THEN 1 ELSE dm[d].at + 1,
                                !.pc = IF dm[d].at = 3 THEN "unlink" ELSE "write"]
  <2>1. dm' = Dead(d, "none") \/ dm' = [dm EXCEPT ![d] = w]
    BY <1>3 DEF WriteMetadata
  <2>2. /\ w.job = dm[d].job /\ w.step = dm[d].step /\ w.browser = dm[d].browser
        /\ w.pc \notin {"unborn", "dead"}
    BY <1>2 DEF DaemonRecord
  <2> HIDE DEF w
  <2> QED BY <1>1, <2>1, <2>2, DeadHands, DaemonHands
<1>4. CASE Unlink(d)
  <2> DEFINE w == [dm[d] EXCEPT !.pc = "bind"]
  <2>1. dm' = [dm EXCEPT ![d] = w]
    BY <1>4 DEF Unlink
  <2>2. /\ w.job = dm[d].job /\ w.step = dm[d].step /\ w.browser = dm[d].browser
        /\ w.pc \notin {"unborn", "dead"}
    BY <1>2 DEF DaemonRecord
  <2> HIDE DEF w
  <2> QED BY <1>1, <2>1, <2>2, DaemonHands
<1>5. CASE Bind(d)
  <2> DEFINE w == [dm[d] EXCEPT !.pc = "ident"]
  <2>1. dm' = Dead(d, "lostbind") \/ dm' = [dm EXCEPT ![d] = w]
    BY <1>5 DEF Bind
  <2>2. /\ w.job = dm[d].job /\ w.step = dm[d].step /\ w.browser = dm[d].browser
        /\ w.pc \notin {"unborn", "dead"}
    BY <1>2 DEF DaemonRecord
  <2> HIDE DEF w
  <2> QED BY <1>1, <2>1, <2>2, DeadHands, DaemonHands
<1>6. CASE WriteSha(d)
  <2> DEFINE w == [dm[d] EXCEPT !.sha = TRUE]
  <2>1. dm' = [dm EXCEPT ![d] = w]
    BY <1>6 DEF WriteSha
  <2>2. /\ w.job = dm[d].job /\ w.step = dm[d].step /\ w.browser = dm[d].browser
        /\ w.pc \notin {"unborn", "dead"}
    BY <1>2 DEF DaemonRecord
  <2> HIDE DEF w
  <2> QED BY <1>1, <2>1, <2>2, DaemonHands
<1>7. CASE Identify(d)
  <2> DEFINE w == [dm[d] EXCEPT !.pc = "stream", !.ident = file["sock"]]
  <2>1. dm' = [dm EXCEPT ![d] = w]
    BY <1>7 DEF Identify
  <2>2. /\ w.job = dm[d].job /\ w.step = dm[d].step /\ w.browser = dm[d].browser
        /\ w.pc \notin {"unborn", "dead"}
    BY <1>2 DEF DaemonRecord
  <2> HIDE DEF w
  <2> QED BY <1>1, <2>1, <2>2, DaemonHands
<1>8. CASE StartStream(d)
  <2> DEFINE w == [dm[d] EXCEPT !.pc = "serve"]
  <2>1. dm' = [dm EXCEPT ![d] = w]
    BY <1>8 DEF StartStream
  <2>2. /\ w.job = dm[d].job /\ w.step = dm[d].step /\ w.browser = dm[d].browser
        /\ w.pc \notin {"unborn", "dead"}
    BY <1>2 DEF DaemonRecord
  <2> HIDE DEF w
  <2> QED BY <1>1, <2>1, <2>2, DaemonHands
<1> QED BY <1>3, <1>4, <1>5, <1>6, <1>7, <1>8 DEF StartStep

LEMMA StopHands ==
    ASSUME Inductive, HandedOver, NEW d \in Daemons,
           StopStep(d) \/ Crash(d) \/ HandlerRemovesStream(d) \/ HandlerNotifies(d)
    PROVE  HandedOver'
<1>1. UNCHANGED <<cl, record>>
  BY DEF StopStep, StopNotified, StopIdleOrSignalled, CloseListener, CheckOwnership,
         RemoveArtifact, Crash, HandlerRemovesStream, HandlerNotifies
<1>2. dm[d] \in DaemonRecord /\ dm[d].pc \notin {"unborn", "dead"}
  BY DaemonFacts DEF StopStep, StopNotified, StopIdleOrSignalled, CloseListener, CheckOwnership,
         RemoveArtifact, Crash, HandlerRemovesStream, HandlerNotifies, Alive
<1>3. CASE dm' \in {Dead(d, "none"), Dead(d, "lostbind")}
  BY <1>1, <1>3, DeadHands
<1>4. CASE \E l \in {"shutdown", "check", "remove"} : dm' = [dm EXCEPT ![d].pc = l]
  <2>1. PICK l \in {"shutdown", "check", "remove"} : dm' = [dm EXCEPT ![d].pc = l]
    BY <1>4
  <2> DEFINE w == [dm[d] EXCEPT !.pc = l]
  <2>2. dm' = [dm EXCEPT ![d] = w]
    BY <2>1
  <2>3. /\ w.job = dm[d].job /\ w.step = dm[d].step /\ w.browser = dm[d].browser
        /\ w.pc \notin {"unborn", "dead"}
    BY <1>2 DEF DaemonRecord
  <2> HIDE DEF w
  <2> QED BY <1>1, <2>2, <2>3, DaemonHands
<1>5. CASE \E l \in {"delay", "notified"} : dm' = [dm EXCEPT ![d].exit = l]
  <2>1. PICK l \in {"delay", "notified"} : dm' = [dm EXCEPT ![d].exit = l]
    BY <1>5
  <2> DEFINE w == [dm[d] EXCEPT !.exit = l]
  <2>2. dm' = [dm EXCEPT ![d] = w]
    BY <2>1
  <2>3. /\ w.job = dm[d].job /\ w.step = dm[d].step /\ w.browser = dm[d].browser
        /\ w.pc \notin {"unborn", "dead"}
    BY <1>2 DEF DaemonRecord
  <2> HIDE DEF w
  <2> QED BY <1>1, <2>2, <2>3, DaemonHands
<1>6. CASE RemoveArtifact(d) /\ dm' # Dead(d, "none")
  <2> DEFINE w == [dm[d] EXCEPT !.at = dm[d].at + 1]
  <2>1. dm' = [dm EXCEPT ![d] = w]
    BY <1>6 DEF RemoveArtifact
  <2>2. /\ w.job = dm[d].job /\ w.step = dm[d].step /\ w.browser = dm[d].browser
        /\ w.pc \notin {"unborn", "dead"}
    BY <1>2 DEF DaemonRecord
  <2> HIDE DEF w
  <2> QED BY <1>1, <2>1, <2>2, DaemonHands
<1>7. CASE StopNotified(d) \/ StopIdleOrSignalled(d) \/ CloseListener(d)
  BY <1>4, <1>7 DEF StopNotified, StopIdleOrSignalled, CloseListener
<1>8. CASE CheckOwnership(d)
  BY <1>3, <1>4, <1>8 DEF CheckOwnership
<1>9. CASE RemoveArtifact(d)
  BY <1>3, <1>6, <1>9
<1>10. CASE Crash(d)
  BY <1>3, <1>10 DEF Crash
<1>11. CASE HandlerRemovesStream(d) \/ HandlerNotifies(d)
  BY <1>5, <1>11 DEF HandlerRemovesStream, HandlerNotifies
<1> QED BY <1>7, <1>8, <1>9, <1>10, <1>11 DEF StopStep

(* A connection is accepted, a request on it refused. *)
LEMMA AcceptHands ==
    ASSUME Inductive, HandedOver, NEW d \in Daemons, NEW c \in Clients, Accept(d, c)
    PROVE  HandedOver'
<1> DEFINE r == [cl[c] EXCEPT !.accepted = TRUE]
<1>1. /\ cl[c].pc \in {"send", "wait"} /\ UNCHANGED <<record, dm>> /\ cl' = [cl EXCEPT ![c] = r]
  BY DEF Accept
<1>2. /\ r.pc = cl[c].pc /\ r.sub = cl[c].sub /\ r.handed = cl[c].handed
      /\ r.answered = cl[c].answered /\ r.answer = cl[c].answer /\ r.inside = cl[c].inside
  BY ClientFacts DEF ClientRecord
<1> HIDE DEF r
<1>3. Asks(c) /\ \A e \in Daemons : dm[e].job # c
  BY <1>1, NotServed DEF HandedOver
<1> QED BY <1>1, <1>2, <1>3, WalksHands DEF Asks

LEMMA RefuseHands ==
    ASSUME Inductive, HandedOver, NEW d \in Daemons, NEW c \in Clients, Refuse(d, c)
    PROVE  HandedOver'
<1> DEFINE r == [cl[c] EXCEPT !.answered = TRUE, !.answer = [ok |-> FALSE, browser |-> Nobody]]
<1>1. /\ cl[c].pc = "wait" /\ UNCHANGED <<record, dm>> /\ cl' = [cl EXCEPT ![c] = r]
  BY DEF Refuse, Readable, Reply
<1>2. /\ r.pc = cl[c].pc /\ r.sub = cl[c].sub /\ r.handed = cl[c].handed
      /\ r.answered = TRUE /\ ~r.answer.ok
  BY ClientFacts DEF ClientRecord
<1> HIDE DEF r
<1>3. cl'[c] = r /\ \A b \in Clients : b # c => cl'[b] = cl[b]
  BY <1>1 DEF Inductive, Typed, ClientsTyped
<1>4. Asks(c) /\ Named(c) /\ \A e \in Daemons : dm[e].job # c
  BY <1>1, NotServed DEF HandedOver
<1>5. Asks(c)' /\ Named(c)'
  BY <1>1, <1>2, <1>3, <1>4 DEF Asks, Named
<1> QED BY <1>1, <1>3, <1>4, <1>5, ClientHands

(* The worker takes a command: its first stage is what the client sent. *)
LEMMA TakeHands ==
    ASSUME Inductive, HandedOver, NEW d \in Daemons, NEW c \in Clients, Take(d, c)
    PROVE  HandedOver'
<1> DEFINE r == [cl[c] EXCEPT !.pc = "running", !.runs = IF Own(c) THEN cl[c].runs + 1 ELSE cl[c].runs]
           w == [dm[d] EXCEPT !.job = c, !.step = cl[c].sub]
<1>1. /\ cl[c].pc = "wait" /\ cl[c].peer = d /\ cl[c].accepted /\ ~cl[c].answered
      /\ dm[d].pc \in {"serve", "shutdown"} /\ UNCHANGED record
  BY DEF Take, Readable
<1>2. cl' = [cl EXCEPT ![c] = r] /\ dm' = [dm EXCEPT ![d] = w]
  BY Zenon DEF Take
<1>3. /\ r.pc = "running" /\ r.sub = cl[c].sub /\ r.handed = cl[c].handed /\ r.peer = cl[c].peer
      /\ r.accepted = cl[c].accepted /\ r.answered = cl[c].answered
  BY ClientFacts DEF ClientRecord
<1>4. w.job = c /\ w.step = cl[c].sub /\ w.pc = dm[d].pc
  BY DaemonFacts DEF DaemonRecord
<1> HIDE DEF r, w
<1>5. /\ cl'[c] = r /\ \A b \in Clients : b # c => cl'[b] = cl[b]
      /\ dm'[d] = w /\ \A e \in Daemons : e # d => dm'[e] = dm[e]
  BY <1>2 DEF Inductive, Typed, ClientsTyped, DaemonsTyped
<1>6. \A e \in Daemons : dm[e].job # c
  BY <1>1, NotServed
<1>7. cl[c].sub \in {"work", "close", "prepare", "resume"}
  BY ClientFacts DEF ClientRecord
<1>8. ASSUME NEW b \in Clients PROVE Asks(b)' /\ Named(b)'
  <2>1. Asks(b) /\ Named(b)
    BY DEF HandedOver
  <2>2. CASE b = c
    BY <1>1, <1>3, <1>5, <2>1, <2>2 DEF Asks, Named
  <2>3. CASE b # c
    BY <1>1, <1>5, <2>1, <2>3 DEF Asks, Named
  <2> QED BY <2>2, <2>3
<1>9. ASSUME NEW e \in Daemons, NEW b \in Clients, dm'[e].job = b
      PROVE  Serves(e, b)' /\ Given(e, b)'
  <2>1. CASE e = d
    <3>1. b = c /\ dm'[e].step = cl'[b].sub /\ Alive(e)'
      BY <1>1, <1>3, <1>4, <1>5, <1>9, <2>1 DEF Alive
    <3>2. dm'[e].step \in Stages(cl'[b].sub) /\ dm'[e].step \notin {"relinquish", "forget"}
      BY <1>3, <1>5, <1>7, <3>1 DEF Stages
    <3> QED BY <1>1, <1>3, <1>5, <2>1, <3>1, <3>2 DEF Serves, Given
  <2>2. CASE e # d
    <3>1. dm'[e] = dm[e] /\ b # c
      BY <1>5, <1>6, <1>9, <2>2
    <3>2. Serves(e, b) /\ Given(e, b) /\ cl'[b] = cl[b]
      BY <1>5, <1>9, <3>1 DEF HandedOver
    <3> QED BY <1>1, <3>1, <3>2 DEF Serves, Given, Alive
  <2> QED BY <2>1, <2>2
<1> QED BY <1>8, <1>9 DEF HandedOver

(* The end of a command: what its client is told of a hand-over or a resume *)
(* is what the descriptor says.  The descriptor may have been removed.      *)
LEMMA DoneHands ==
    ASSUME Inductive, HandedOver, NEW d \in Daemons, NEW c \in Clients, dm[d].job = c,
           NEW w, dm' = [dm EXCEPT ![d] = w], w.job = Nobody, NEW ok, NEW b,
           IF cl[c].pc = "running" /\ cl[c].peer = d THEN Reply(c, ok, b) ELSE UNCHANGED cl,
           record'.by = record.by, record'.browser \in {record.browser, Nobody},
           ok /\ cl[c].pc = "running" /\ record.by = c =>
             /\ cl[c].inside /\ cl[c].sub = "prepare" /\ b # Nobody => record.browser \in {b, Nobody}
             /\ cl[c].sub = "resume" => b = cl[c].handed
    PROVE  HandedOver'
<1>1. dm'[d] = w /\ \A e \in Daemons : e # d => dm'[e] = dm[e]
  BY DEF Inductive, Typed, DaemonsTyped
<1>2. Serves(d, c)
  BY DEF HandedOver
<1>3. Nobody \notin Clients
  BY ScenarioFacts DEF Inductive, Typed
<1>4. \A a \in Clients : a # c => cl'[a] = cl[a]
  BY DEF Reply, Inductive, Typed, ClientsTyped
<1>5. ASSUME NEW e \in Daemons, NEW a \in Clients, dm'[e].job = a
      PROVE  Serves(e, a)' /\ Given(e, a)'
  <2>1. e # d /\ dm'[e] = dm[e]
    BY <1>1, <1>3, <1>5
  <2>2. Serves(e, a) /\ Given(e, a)
    BY <1>5, <2>1 DEF HandedOver
  <2>3. cl'[a] = cl[a]
    <3>1. CASE a # c
      BY <1>4, <3>1
    <3>2. CASE a = c
      BY <2>1, <2>2, <3>2 DEF Serves
    <3> QED BY <3>1, <3>2
  <2> QED BY <2>1, <2>2, <2>3 DEF Serves, Given, Alive
<1>6. ASSUME NEW a \in Clients PROVE Asks(a)' /\ Named(a)'
  <2>1. Asks(a) /\ Named(a)
    BY DEF HandedOver
  <2>2. CASE cl'[a] = cl[a]
    BY <2>1, <2>2 DEF Asks, Named
  <2>3. CASE cl'[a] # cl[a]
    <3> DEFINE r == [cl[c] EXCEPT !.answered = TRUE, !.answer = [ok |-> ok, browser |-> b]]
    <3>1. a = c /\ cl[c].pc = "running" /\ cl' = [cl EXCEPT ![c] = r]
      BY <1>4, <2>3 DEF Reply
    <3>2. /\ r.pc = cl[c].pc /\ r.sub = cl[c].sub /\ r.handed = cl[c].handed
          /\ r.inside = cl[c].inside /\ r.answer.ok = ok /\ r.answer.browser = b
      BY ClientFacts DEF ClientRecord
    <3> HIDE DEF r
    <3>3. cl'[c] = r
      BY <3>1 DEF Inductive, Typed, ClientsTyped
    <3>4. Asks(a)'
      BY <2>1, <3>1, <3>2, <3>3 DEF Asks
    <3>5. Named(a)'
      BY <2>1, <3>1, <3>2, <3>3 DEF Named
    <3> QED BY <3>4, <3>5
  <2> QED BY <2>2, <2>3
<1> QED BY <1>5, <1>6 DEF HandedOver

LEMMA JobEndsHands ==
    ASSUME Inductive, HandedOver, NEW d \in Daemons, dm[d].step # "none",
           NEW ok, NEW b, NEW exits, JobEnds(d, ok, b, exits),
           record'.by = record.by, record'.browser \in {record.browser, Nobody},
           \/ ~ok
           \/ dm[d].step \in {"work", "close"}
           \/ dm[d].step = "prepare" /\ b = Nobody
           \/ dm[d].step = "forget" /\ b = dm[d].browser
    PROVE  HandedOver'
<1> DEFINE c == dm[d].job
           x == IF cl[c].pc = "running" /\ cl[c].peer = d /\ ok /\ exits /\ dm[d].exit = "none"
                THEN "replied" ELSE dm[d].exit
           w == [dm[d] EXCEPT !.job = Nobody, !.step = "none", !.browser = b, !.exit = x]
<1>1. c \in Clients
  BY DaemonFacts
<1>2. /\ dm' = [dm EXCEPT ![d] = w]
      /\ IF cl[c].pc = "running" /\ cl[c].peer = d THEN Reply(c, ok, b) ELSE UNCHANGED cl
  BY Zenon DEF JobEnds
<1>3. w.job = Nobody
  BY DaemonFacts DEF DaemonRecord
<1>4. Serves(d, c) /\ Given(d, c)
  BY <1>1 DEF HandedOver
<1>5. dm[d].job = c
  OBVIOUS
<1> HIDE DEF c, w
<1>6. ok /\ cl[c].pc = "running" /\ record.by = c =>
        /\ cl[c].inside /\ cl[c].sub = "prepare" /\ b # Nobody => record.browser \in {b, Nobody}
        /\ cl[c].sub = "resume" => b = cl[c].handed
  BY <1>4 DEF Serves, Given, Stages
<1> QED BY <1>1, <1>2, <1>3, <1>5, <1>6, DoneHands

(* The browser is relinquished: the client is told which. *)
LEMMA RelinquishHands ==
    ASSUME Inductive, HandedOver, NEW d \in Daemons, Relinquish(d)
    PROVE  HandedOver'
<1> DEFINE c == dm[d].job
           b == dm[d].browser
           x == IF cl[c].pc = "running" /\ cl[c].peer = d /\ dm[d].exit = "none"
                THEN "replied" ELSE dm[d].exit
           w == [dm[d] EXCEPT !.job = Nobody, !.step = "none", !.browser = Nobody, !.exit = x]
<1>1. /\ dm[d].step = "relinquish" /\ UNCHANGED record
      /\ dm' = [dm EXCEPT ![d] = w]
      /\ IF cl[c].pc = "running" /\ cl[c].peer = d THEN Reply(c, TRUE, b) ELSE UNCHANGED cl
  BY Zenon DEF Relinquish
<1>2. c \in Clients
  BY <1>1, DaemonFacts
<1>3. w.job = Nobody
  BY DaemonFacts DEF DaemonRecord
<1>4. Serves(d, c) /\ Given(d, c)
  BY <1>2 DEF HandedOver
<1>5. dm[d].job = c /\ dm[d].browser = b
  OBVIOUS
<1> HIDE DEF c, b, w
<1>6. cl[c].pc = "running" /\ record.by = c =>
        /\ cl[c].sub # "resume"
        /\ record.browser \in {b, Nobody}
  BY <1>1, <1>4, <1>5 DEF Serves, Given, Stages
<1> QED BY <1>1, <1>2, <1>3, <1>5, <1>6, DoneHands

(* A stage of the command ends: the descriptor is removed, written, or read *)
(* and its browser attached to.                                             *)
LEMMA StageHands ==
    ASSUME Inductive, HandedOver, NEW d \in Daemons, NEW c \in Clients, dm[d].job = c,
           NEW w, dm' = [dm EXCEPT ![d] = w], UNCHANGED cl,
           w.job = c, w.pc = dm[d].pc,
           \A sub \in {"work", "close", "prepare", "resume"} :
             dm[d].step \in Stages(sub) => w.step \in Stages(sub),
           \/ record'.by = record.by /\ record'.browser \in {record.browser, Nobody}
           \/ record'.by = c /\ dm[d].step \in Stages("prepare"),
           Given(d, c)'
    PROVE  HandedOver'
<1>1. dm'[d] = w /\ \A e \in Daemons : e # d => dm'[e] = dm[e]
  BY DEF Inductive, Typed, DaemonsTyped
<1>2. Serves(d, c) /\ Asks(c) /\ cl[c].sub \in {"work", "close", "prepare", "resume"}
  BY ClientFacts DEF HandedOver, ClientRecord
<1>3. ASSUME NEW e \in Daemons, NEW a \in Clients, dm'[e].job = a
      PROVE  Serves(e, a)' /\ Given(e, a)'
  <2>1. CASE e = d
    BY <1>1, <1>2, <1>3, <2>1 DEF Serves, Alive
  <2>2. CASE e # d
    <3>1. dm'[e] = dm[e] /\ Serves(e, a) /\ Given(e, a)
      BY <1>1, <1>3, <2>2 DEF HandedOver
    <3>2. a = c => cl[a].pc = "failed"
      BY <1>2, <2>2, <3>1 DEF Serves
    <3> QED BY <3>1, <3>2 DEF Serves, Given, Alive
  <2> QED BY <2>1, <2>2
<1>4. ASSUME NEW a \in Clients PROVE Asks(a)' /\ Named(a)'
  <2>1. Asks(a) /\ Named(a)
    BY DEF HandedOver
  <2>2. Asks(a)'
    BY <2>1 DEF Asks
  <2>3. CASE record'.by = record.by /\ record'.browser \in {record.browser, Nobody}
    BY <2>1, <2>2, <2>3 DEF Named
  <2>4. CASE record'.by = c /\ dm[d].step \in Stages("prepare")
    <3>1. ~cl[c].answered /\ cl[c].handed = Nobody
      BY <1>2, <2>4 DEF Serves, Asks, Stages
    <3> QED BY <2>1, <2>2, <2>4, <3>1 DEF Named
  <2> QED BY <2>3, <2>4
<1> QED BY <1>3, <1>4 DEF HandedOver

LEMMA RemoveOldRecordHands ==
    ASSUME Inductive, HandedOver, NEW d \in Daemons, RemoveOldRecord(d)
    PROVE  HandedOver'
<1> DEFINE w == [dm[d] EXCEPT !.step = "publish"]
<1>1. /\ dm[d].step = "prepare" /\ UNCHANGED cl /\ dm' = [dm EXCEPT ![d] = w]
      /\ record'.by = record.by /\ record'.browser = Nobody
  BY HeldFacts DEF RemoveOldRecord, Descriptors
<1>2. dm[d].job \in Clients /\ w.job = dm[d].job /\ w.pc = dm[d].pc /\ w.step = "publish"
  BY <1>1, DaemonFacts DEF DaemonRecord
<1>3. PICK c \in Clients : dm[d].job = c
  BY <1>2
<1> HIDE DEF w
<1>4. dm'[d] = w
  BY <1>1 DEF Inductive, Typed, DaemonsTyped
<1>5. Given(d, c)'
  BY <1>2, <1>4 DEF Given
<1>6. \A sub \in {"work", "close", "prepare", "resume"} :
        dm[d].step \in Stages(sub) => w.step \in Stages(sub)
  BY <1>1, <1>2 DEF Stages
<1> QED BY <1>1, <1>2, <1>3, <1>5, <1>6, StageHands

LEMMA WriteRecordHands ==
    ASSUME Inductive, HandedOver, NEW d \in Daemons, WriteRecord(d)
    PROVE  HandedOver'
<1> DEFINE w == [dm[d] EXCEPT !.step = "relinquish"]
<1>1. /\ dm[d].step \in {"prepare", "publish"} /\ UNCHANGED cl /\ dm' = [dm EXCEPT ![d] = w]
      /\ record'.by = dm[d].job /\ record'.browser = dm[d].browser
  BY DEF WriteRecord
<1>2. /\ dm[d].job \in Clients /\ w.job = dm[d].job /\ w.pc = dm[d].pc /\ w.step = "relinquish"
      /\ w.browser = dm[d].browser
  BY <1>1, DaemonFacts DEF DaemonRecord
<1>3. PICK c \in Clients : dm[d].job = c
  BY <1>2
<1> HIDE DEF w
<1>4. dm'[d] = w
  BY <1>1 DEF Inductive, Typed, DaemonsTyped
<1>5. Given(d, c)'
  BY <1>1, <1>2, <1>3, <1>4 DEF Given
<1>6. /\ dm[d].step \in Stages("prepare")
      /\ \A sub \in {"work", "close", "prepare", "resume"} :
           dm[d].step \in Stages(sub) => w.step \in Stages(sub)
  BY <1>1, <1>2 DEF Stages
<1> QED BY <1>1, <1>2, <1>3, <1>5, <1>6, StageHands

LEMMA ResumeHands ==
    ASSUME Inductive, HandedOver, NEW d \in Daemons, Resume(d)
    PROVE  HandedOver'
<1> DEFINE b == dm[d].browser
           w == [dm[d] EXCEPT !.browser = record.browser, !.step = "forget"]
<1>1. /\ dm[d].step = "resume" /\ UNCHANGED record
      /\ \/ JobEnds(d, FALSE, b, FALSE)
         \/ dm' = [dm EXCEPT ![d] = w] /\ UNCHANGED cl /\ record.browser # Nobody
  BY DEF Resume
<1>2. CASE JobEnds(d, FALSE, b, FALSE)
  BY <1>1, <1>2, JobEndsHands
<1>3. CASE dm' = [dm EXCEPT ![d] = w] /\ UNCHANGED cl /\ record.browser # Nobody
  <2>1. /\ dm[d].job \in Clients /\ w.job = dm[d].job /\ w.pc = dm[d].pc /\ w.step = "forget"
        /\ w.browser = record.browser
    BY <1>1, DaemonFacts DEF DaemonRecord
  <2>2. PICK c \in Clients : dm[d].job = c
    BY <2>1
  <2> HIDE DEF w
  <2>3. dm'[d] = w
    BY <1>3 DEF Inductive, Typed, DaemonsTyped
  <2>4. Serves(d, c) /\ Asks(c) /\ Named(c)
    BY <2>1, <2>2 DEF HandedOver
  <2>5. Given(d, c)'
    <3>1. cl[c].pc = "running" => cl[c].sub = "resume"
      BY <1>1, <2>1, <2>4, ClientFacts DEF Serves, Stages, ClientRecord
    <3>2. cl[c].pc = "running" /\ record.by = c => record.browser = cl[c].handed
      BY <1>3, <2>4, <3>1 DEF Asks, Named
    <3>3. record' = record /\ cl' = cl /\ dm'[d].step = "forget" /\ dm'[d].browser = record.browser
      BY <1>1, <1>3, <2>1, <2>3
    <3> QED BY <3>2, <3>3 DEF Given
  <2>6. \A sub \in {"work", "close", "prepare", "resume"} :
          dm[d].step \in Stages(sub) => w.step \in Stages(sub)
    BY <1>1, <2>1 DEF Stages
  <2>7. record'.by = record.by /\ record'.browser \in {record.browser, Nobody}
    BY <1>1
  <2> QED BY <1>3, <2>1, <2>2, <2>5, <2>6, <2>7, StageHands
<1> QED BY <1>1, <1>2, <1>3

(* Every step of a worker. *)
LEMMA ServeHands ==
    ASSUME Inductive, HandedOver, NEW d \in Daemons, ServeStep(d)
    PROVE  HandedOver'
<1>1. CASE \E c \in Clients : Accept(d, c) \/ Refuse(d, c) \/ Take(d, c)
  BY <1>1, AcceptHands, RefuseHands, TakeHands
<1>2. CASE Work(d)
  BY <1>2, JobEndsHands DEF Work
<1>3. CASE Close(d)
  BY <1>3, JobEndsHands DEF Close
<1>4. CASE PrepareBrowserless(d)
  BY <1>4, JobEndsHands DEF PrepareBrowserless
<1>5. CASE PrepareFails(d)
  BY <1>5, JobEndsHands DEF PrepareFails
<1>6. CASE ResumeFails(d)
  BY <1>6, JobEndsHands DEF ResumeFails
<1>7. CASE RemoveRecord(d)
  <2>1. record'.by = record.by /\ record'.browser \in {record.browser, Nobody}
    BY <1>7, HeldFacts DEF RemoveRecord, Descriptors
  <2> QED BY <1>7, <2>1, JobEndsHands DEF RemoveRecord
<1>8. CASE HandlerRemovesStream(d) \/ HandlerNotifies(d)
  BY <1>8, StopHands
<1> QED BY <1>1, <1>2, <1>3, <1>4, <1>5, <1>6, <1>7, <1>8, RemoveOldRecordHands,
        WriteRecordHands, RelinquishHands, ResumeHands DEF ServeStep

LEMMA InitHands == Init => HandedOver
<1> SUFFICES ASSUME Init PROVE HandedOver
  OBVIOUS
<1>1. Inductive
  BY InitKeeps
<1>2. \A c \in Clients : /\ cl[c].handed = Nobody /\ ~cl[c].answered /\ cl[c].sub = Kind(c)
                         /\ Kind(c) # "resume"
  BY <1>1, ScenarioFacts DEF Init, Idle, Inductive, Typed
<1>3. \A d \in Daemons : dm[d].job = Nobody
  <2>1. NoDaemon.job = Nobody
    BY DEF NoDaemon
  <2>2. CASE dm = [d \in Daemons |-> NoDaemon]
    BY <2>1, <2>2
  <2> DEFINE w == [NoDaemon EXCEPT !.pc = "serve", !.build = FirstBuild, !.ident = 1,
                                   !.sha = TRUE, !.browser = 1]
  <2>3. w.job = Nobody
    BY DEF NoDaemon
  <2>4. CASE dm = [[d \in Daemons |-> NoDaemon] EXCEPT ![1] = w]
    <3> HIDE DEF w
    <3> QED BY <2>1, <2>3, <2>4
  <2> QED BY <2>2, <2>4 DEF Init
<1>4. Nobody \notin Clients
  BY LifecycleAssumption
<1>5. \A c \in Clients : Asks(c) /\ Named(c)
  BY <1>2 DEF Asks, Named
<1> QED BY <1>3, <1>4, <1>5 DEF HandedOver

LEMMA NextHands == Inductive /\ HandedOver /\ [Next]_vars => HandedOver'
<1> SUFFICES ASSUME Inductive, HandedOver, [Next]_vars PROVE HandedOver'
  OBVIOUS
<1>1. CASE \E c \in Clients : ClientStep(c)
  BY <1>1, EnsureHands, SendHands DEF ClientStep
<1>2. CASE \E d \in Daemons : DaemonStep(d)
  BY <1>2, StartHands, ServeHands, StopHands DEF DaemonStep
<1>3. CASE UNCHANGED vars
  BY <1>3 DEF vars, HandedOver, Asks, Named, Serves, Given, Alive
<1> QED BY <1>1, <1>2, <1>3 DEF Next

(* For every number of clients, daemons and browsers: a client that is told *)
(* by the replacement that the hand-over was resumed has the very browser   *)
(* that was handed over to it, unless a hand-over another client asked for  *)
(* has written the descriptor since.                                        *)
THEOREM HandOversAreResumed == Spec => []ResumedWhatWasHanded
<1>1. HandedOver => ResumedWhatWasHanded
  BY DEF HandedOver, Named, ResumedWhatWasHanded
<1>2. Spec => []HandedOver
  BY InitHands, NextHands, InductiveInvariant, PTL DEF Spec
<1> QED BY <1>1, <1>2, PTL
=============================================================================
