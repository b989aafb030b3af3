------------------------ MODULE CdpTransportProofs ------------------------
(***************************************************************************)
(* Proofs about CdpTransport: what a closer is told is true and stays true *)
(* (EvidenceCorrect), and the pending map brings every response to its     *)
(* command and to no other (PendingMapCorrect).                            *)
(***************************************************************************)
EXTENDS CdpTransport, FiniteSetTheorems, TLAPS

(* Commands that have drawn an id. *)
Drawn == {c \in Commands : pc[c] # "new"}

(* next_id counts the commands that drew an id, and no two drew the same.   *)
Numbered ==
  /\ nextId = Cardinality(Drawn) + 1
  /\ \A c \in Commands : id[c] < nextId /\ (id[c] = 0 <=> pc[c] = "new")
  /\ \A c, d \in Commands : id[c] = id[d] /\ id[c] # 0 => c = d

(* A oneshot channel gets its own response, and gets it out of the map.     *)
Posted ==
  \A c \in Commands :
    /\ mail[c] \subseteq {c}
    /\ mail[c] # {} => pc[c] \notin {"new", "lock"} /\ id[c] \notin DOMAIN pending

(* A shutdown in progress, or finished, has sealed the transport under its  *)
(* own binding; past the sink nobody holds it, and what is no longer in     *)
(* `handles` has finished.                                                  *)
Shut ==
  /\ ~sink => sealed /\ keepalive # "pinging" /\ \A c \in Senders : pc[c] # "writing"
  /\ \A t \in Tasks \ handles : Joinable(t)
  /\ \A k \in Closers :
       /\ Closing(k) \/ closer[k] = "closed" => sealed /\ binding = BindingOf[k]
       /\ closer[k] \in {"join_reader", "join_keepalive", "closed"} => ~sink
       /\ closer[k] = "join_keepalive" => "reader" \notin handles
       /\ closer[k] = "closed" => handles = {} /\ DOMAIN pending = {}

Inductive == TypeOK /\ Numbered /\ NoLeakedRegistration /\ Posted /\ OwnAnswer /\ Shut

-----------------------------------------------------------------------------
(* Ids. *)

(* The commands that have drawn an id are counted by next_id. *)
LEMMA DrawnCount ==
  ASSUME TypeOK
  PROVE  /\ IsFiniteSet(Drawn) /\ Cardinality(Drawn) \in Nat
         /\ IsFiniteSet(Commands) /\ Cardinality(Commands) \in Nat
         /\ \A c \in Commands \ Drawn :
              /\ Cardinality(Drawn \cup {c}) = Cardinality(Drawn) + 1
              /\ Cardinality(Drawn \cup {c}) <= Cardinality(Commands)
<1>1. IsFiniteSet(Commands) /\ Cardinality(Commands) \in Nat
  BY TransportAssumption, FS_Subset, FS_CardinalityType DEF Senders
<1>2. Drawn \subseteq Commands
  BY DEF Drawn
<1>3. IsFiniteSet(Drawn) /\ Cardinality(Drawn) \in Nat
  BY <1>1, <1>2, FS_Subset, FS_CardinalityType
<1>4. ASSUME NEW c \in Commands \ Drawn
      PROVE  /\ Cardinality(Drawn \cup {c}) = Cardinality(Drawn) + 1
             /\ Cardinality(Drawn \cup {c}) <= Cardinality(Commands)
  <2>1. Cardinality(Drawn \cup {c}) = Cardinality(Drawn) + 1
    BY <1>3, FS_AddElement
  <2>2. Cardinality(Drawn \cup {c}) <= Cardinality(Commands)
    BY <1>1, <1>2, FS_Subset
  <2> QED BY <2>1, <2>2
<1> QED BY <1>1, <1>3, <1>4

(* fetch_add gives every command an id of its own. *)
LEMMA NumberedStep ==
  ASSUME TypeOK, Numbered, Next
  PROVE  Numbered'
<1> USE DEF callVars
<1>1. ASSUME NEW c \in Senders, Start(c) PROVE Numbered'
  <2> USE <1>1 DEF Start, To
  <2>1. CASE c \in Commands
    <3>1. Drawn' = Drawn \cup {c} /\ c \notin Drawn
      BY <2>1 DEF TypeOK, Drawn, Senders
    <3>2. Cardinality(Drawn') = nextId /\ nextId' = nextId + 1
      BY <2>1, <3>1, DrawnCount DEF DrawId, Numbered
    <3>3. id' = [id EXCEPT ![c] = nextId]
      BY <2>1 DEF DrawId
    <3>4. nextId \in Nat \ {0} /\ \A d \in Commands : id[d] \in Nat
      BY DrawnCount DEF TypeOK, Ids
    <3> QED BY <2>1, <3>2, <3>3, <3>4 DEF TypeOK, Numbered, Senders
  <2>2. CASE c \notin Commands
    <3>1. Drawn' = Drawn
      BY <2>2 DEF TypeOK, Drawn, Senders
    <3> QED BY <2>2, <3>1 DEF TypeOK, Numbered, Senders
  <2> QED BY <2>1, <2>2
<1>2. ASSUME NEW c \in Senders, Acquire(c) PROVE Numbered'
  <2>1. Drawn' = Drawn /\ \A d \in Commands : pc'[d] = "new" <=> pc[d] = "new"
    BY <1>2 DEF Acquire, To, Usable, SinkFree, TypeOK, Drawn, Senders
  <2> QED BY <1>2, <2>1 DEF Acquire, To, Usable, SinkFree, Numbered
<1>3. ASSUME NEW c \in Senders, WriteFails(c) PROVE Numbered'
  <2>1. Drawn' = Drawn /\ \A d \in Commands : pc'[d] = "new" <=> pc[d] = "new"
    BY <1>3 DEF WriteFails, Deregister, Without, To, TypeOK, Drawn, Senders
  <2> QED BY <1>3, <2>1 DEF WriteFails, Deregister, Without, To, Numbered
<1>4. ASSUME NEW c \in Commands, Receive(c) PROVE Numbered'
  <2>1. Drawn' = Drawn /\ \A d \in Commands : pc'[d] = "new" <=> pc[d] = "new"
    BY <1>4 DEF Receive, To, TypeOK, Drawn, Senders
  <2> QED BY <1>4, <2>1 DEF Receive, To, Numbered
<1>5. ASSUME NEW c \in Commands, ChannelClosed(c) PROVE Numbered'
  <2>1. Drawn' = Drawn /\ \A d \in Commands : pc'[d] = "new" <=> pc[d] = "new"
    BY <1>5 DEF ChannelClosed, Deregister, Without, To, TypeOK, Drawn, Senders
  <2> QED BY <1>5, <2>1 DEF ChannelClosed, Deregister, Without, To, Numbered
<1>6. ASSUME NEW c \in Commands, Timeout(c) PROVE Numbered'
  <2>1. Drawn' = Drawn /\ \A d \in Commands : pc'[d] = "new" <=> pc[d] = "new"
    BY <1>6 DEF Timeout, Deadline, Deregister, Without, To, TypeOK, Drawn, Senders
  <2> QED BY <1>6, <2>1 DEF Timeout, Deadline, Deregister, Without, To, Numbered
<1>7. ASSUME NEW c \in Senders, Written(c) PROVE Numbered'
  <2>1. Drawn' = Drawn /\ \A d \in Commands : pc'[d] = "new" <=> pc[d] = "new"
    BY <1>7 DEF Written, To, TypeOK, Drawn, Senders
  <2> QED BY <1>7, <2>1 DEF Written, To, Numbered
<1>8. ASSUME NEW c \in Senders, Cancel(c) PROVE Numbered'
  <2>1. Drawn' = Drawn /\ \A d \in Commands : pc'[d] = "new" <=> pc[d] = "new"
    BY <1>8 DEF Cancel, Deregister, Without, To, TypeOK, Drawn, Senders
  <2> QED BY <1>8, <2>1 DEF Cancel, Deregister, Without, To, Numbered
<1>9. ASSUME NEW k \in Closers, CloseBegin(k) PROVE Numbered'
  BY <1>9 DEF CloseBegin, CloserTo, Bindable, Drawn, Numbered
<1>10. ASSUME NEW k \in Closers, CloseTakesSink(k) PROVE Numbered'
  BY <1>10 DEF CloseTakesSink, CloserTo, SinkFree, Drawn, Numbered
<1>11. ASSUME NEW k \in Closers, CloseGivesUp(k) PROVE Numbered'
  BY <1>11 DEF CloseGivesUp, CloserTo, Drawn, Numbered
<1>12. ASSUME NEW k \in Closers, NEW t \in Tasks, CloseJoins(k, t) PROVE Numbered'
  BY <1>12 DEF CloseJoins, CloserTo, Drawn, Numbered
<1>13. ASSUME NEW c \in Commands, BrowserAnswers(c) PROVE Numbered'
  BY <1>13 DEF BrowserAnswers, Drawn, Numbered
<1>14. ASSUME NEW c \in Commands, ReaderDelivers(c) PROVE Numbered'
  BY <1>14 DEF ReaderDelivers, Without, Drawn, Numbered
<1>15. CASE ConnectionLost
  BY <1>15 DEF ConnectionLost, Drawn, Numbered
<1>16. CASE ReaderEnds
  BY <1>16 DEF ReaderEnds, Drawn, Numbered
<1>17. CASE KeepaliveWakes
  BY <1>17 DEF KeepaliveWakes, Drawn, Numbered
<1>18. CASE KeepaliveAcquires
  BY <1>18 DEF KeepaliveAcquires, Usable, SinkFree, Drawn, Numbered
<1>19. CASE KeepalivePinged
  BY <1>19 DEF KeepalivePinged, Drawn, Numbered
<1>20. ASSUME NEW how \in {"aborted", "panicked"}, TaskStops(how) PROVE Numbered'
  BY <1>20 DEF TaskStops, Drawn, Numbered
<1>21. CASE DropClient
  BY <1>21 DEF DropClient, Drawn, Numbered
<1>22. CASE UNCHANGED vars
  BY <1>22 DEF vars, Drawn, Numbered
<1> QED
  BY <1>1, <1>2, <1>3, <1>4, <1>5, <1>6, <1>7, <1>8, <1>9, <1>10, <1>11, <1>12, <1>13, <1>14,
      <1>15, <1>16, <1>17, <1>18, <1>19, <1>20, <1>21, <1>22
     DEF Next, CallAdvances, CloserStep, KeepaliveStep, Quiescent

(* Types. *)
LEMMA TypeStep ==
  ASSUME TypeOK, Numbered, Next
  PROVE  TypeOK'
<1> USE TransportAssumption DEF TypeOK, callVars, wireVars, taskVars, closeVars, Tasks, Ends,
    Finished, Senders
<1>1. ASSUME NEW c \in Senders, Start(c) PROVE TypeOK'
  <2>1. id' \in [Commands -> Ids \cup {0}] /\ nextId' \in Ids \cup {Cardinality(Commands) + 1}
    <3>1. CASE c \in Commands
      <4>1. c \in Commands \ Drawn
        BY <1>1, <3>1 DEF Start, Drawn
      <4>2. nextId <= Cardinality(Commands) /\ Cardinality(Commands) \in Nat
        BY <4>1, DrawnCount DEF Numbered
      <4> QED BY <1>1, <3>1, <4>2 DEF Start, DrawId, Ids
    <3>2. CASE c \notin Commands
      BY <1>1, <3>2 DEF Start
    <3> QED BY <3>1, <3>2
  <2> QED BY <1>1, <2>1 DEF Start, To
<1>2. ASSUME NEW c \in Senders, Acquire(c) PROVE TypeOK'
  <2>1. c \in Commands => id[c] \in Ids
    BY <1>2 DEF Acquire, Numbered
  <2>2. DOMAIN pending' \subseteq Ids /\ Range(pending') \subseteq Commands
    BY <1>2, <2>1 DEF Acquire, Range
  <2> QED BY <1>2, <2>2 DEF Acquire, To
<1>3. ASSUME NEW c \in Senders, WriteFails(c) PROVE TypeOK'
  <2>1. DOMAIN pending' \subseteq Ids /\ Range(pending') \subseteq Commands
    BY <1>3 DEF WriteFails, Deregister, Without, To, Range, Restrict
  <2> QED BY <1>3, <2>1 DEF WriteFails, To
<1>4. ASSUME NEW c \in Commands, Receive(c) PROVE TypeOK'
  BY <1>4 DEF Receive, To
<1>5. ASSUME NEW c \in Commands, ChannelClosed(c) PROVE TypeOK'
  <2>1. DOMAIN pending' \subseteq Ids /\ Range(pending') \subseteq Commands
    BY <1>5 DEF ChannelClosed, Deregister, Without, To, Range, Restrict
  <2> QED BY <1>5, <2>1 DEF ChannelClosed, To
<1>6. ASSUME NEW c \in Commands, Timeout(c) PROVE TypeOK'
  <2>1. DOMAIN pending' \subseteq Ids /\ Range(pending') \subseteq Commands
    BY <1>6 DEF Timeout, Deadline, Deregister, Without, To, Range, Restrict
  <2> QED BY <1>6, <2>1 DEF Timeout, Deadline, To
<1>7. ASSUME NEW c \in Senders, Written(c) PROVE TypeOK'
  BY <1>7 DEF Written, To
<1>8. ASSUME NEW c \in Senders, Cancel(c) PROVE TypeOK'
  <2>1. DOMAIN pending' \subseteq Ids /\ Range(pending') \subseteq Commands
    BY <1>8 DEF Cancel, Deregister, Without, To, Range, Restrict
  <2> QED BY <1>8, <2>1 DEF Cancel, To
<1>9. ASSUME NEW k \in Closers, CloseBegin(k) PROVE TypeOK'
  <2>1. BindingOf[k] \in Range(BindingOf)
    BY DEF Range
  <2> QED BY <1>9, <2>1 DEF CloseBegin, CloserTo
<1>10. ASSUME NEW k \in Closers, CloseTakesSink(k) PROVE TypeOK'
  BY <1>10 DEF CloseTakesSink, CloserTo, SinkFree
<1>11. ASSUME NEW k \in Closers, CloseGivesUp(k) PROVE TypeOK'
  BY <1>11 DEF CloseGivesUp, CloserTo
<1>12. ASSUME NEW k \in Closers, NEW t \in Tasks, CloseJoins(k, t) PROVE TypeOK'
  <2>1. DOMAIN pending' \subseteq Ids /\ Range(pending') \subseteq Commands
    BY <1>12 DEF CloseJoins, CloserTo, Range, Restrict
  <2> QED BY <1>12, <2>1 DEF CloseJoins, CloserTo
<1>13. ASSUME NEW c \in Commands, BrowserAnswers(c) PROVE TypeOK'
  BY <1>13 DEF BrowserAnswers
<1>14. ASSUME NEW c \in Commands, ReaderDelivers(c) PROVE TypeOK'
  <2>1. DOMAIN pending' \subseteq Ids /\ Range(pending') \subseteq Commands
    BY <1>14 DEF ReaderDelivers, Without, Range, Restrict
  <2>2. mail' \in [Commands -> SUBSET Commands]
    BY <1>14 DEF ReaderDelivers, Range
  <2> QED BY <1>14, <2>1, <2>2 DEF ReaderDelivers
<1>15. CASE ConnectionLost
  BY <1>15 DEF ConnectionLost
<1>16. CASE ReaderEnds
  <2>1. DOMAIN pending' \subseteq Ids /\ Range(pending') \subseteq Commands
    BY <1>16 DEF ReaderEnds, Range, Restrict
  <2> QED BY <1>16, <2>1 DEF ReaderEnds
<1>17. CASE KeepaliveWakes
  BY <1>17 DEF KeepaliveWakes
<1>18. CASE KeepaliveAcquires
  BY <1>18 DEF KeepaliveAcquires, Usable, SinkFree
<1>19. CASE KeepalivePinged
  BY <1>19 DEF KeepalivePinged
<1>20. ASSUME NEW how \in {"aborted", "panicked"}, TaskStops(how) PROVE TypeOK'
  BY <1>20 DEF TaskStops
<1>21. CASE DropClient
  BY <1>21 DEF DropClient
<1>22. CASE UNCHANGED vars
  BY <1>22 DEF vars
<1> QED
  BY <1>1, <1>2, <1>3, <1>4, <1>5, <1>6, <1>7, <1>8, <1>9, <1>10, <1>11, <1>12, <1>13, <1>14,
      <1>15, <1>16, <1>17, <1>18, <1>19, <1>20, <1>21, <1>22
     DEF Next, CallAdvances, CloserStep, KeepaliveStep, Quiescent

(* The map's parts, as the proofs below use them. *)
LEMMA MapType ==
  ASSUME TypeOK, Numbered
  PROVE  /\ \A i \in DOMAIN pending : pending[i] \in Commands /\ i # 0
         /\ \A c, d \in Commands : id[c] = id[d] /\ id[c] \in DOMAIN pending => c = d
BY DEF TypeOK, Numbered, Range, Ids

(* The pending map and the oneshot channels. *)
LEMMA PendingStep ==
  ASSUME TypeOK, Numbered, PendingMapSound, Posted, Next
  PROVE  (PendingMapSound /\ Posted)'
<1> USE MapType DEF PendingMapSound, NoLeakedRegistration, OwnAnswer, Posted, callVars,
    Restrict, Senders
<1>0. pc \in [Senders -> {"new", "lock", "writing", "waiting"} \cup Ends] /\ mail \in [Commands -> SUBSET Commands]
  BY DEF TypeOK
<1>1. ASSUME NEW c \in Senders, Start(c) PROVE (PendingMapSound /\ Posted)'
  <2> USE <1>1 DEF Start, To
  <2>1. c \in Commands => mail[c] = {} /\ \A i \in DOMAIN pending : pending[i] # c
    BY <1>0
  <2>2. \A d \in Commands \ {c} : id'[d] = id[d] /\ pc'[d] = pc[d]
    BY <1>0 DEF DrawId, TypeOK
  <2>3. c \in Commands => pc'[c] = "lock"
    BY <1>0
  <2>4. UNCHANGED <<pending, mail>>
    OBVIOUS
  <2>5. \A i \in DOMAIN pending : pending[i] \in Commands \ {c}
    BY <2>1
  <2> QED BY <2>1, <2>2, <2>3, <2>4, <2>5
<1>2. ASSUME NEW c \in Senders, Acquire(c) PROVE (PendingMapSound /\ Posted)'
  <2> USE <1>2 DEF Acquire, To
  <2>1. c \in Commands => mail[c] = {} /\ \A i \in DOMAIN pending : pending[i] # c
    BY <1>0
  <2>2. \A d \in Commands \ {c} : pc'[d] = pc[d]
    BY <1>0
  <2>3. UNCHANGED <<id, mail>>
    OBVIOUS
  <2>4. CASE Usable /\ c \in Commands
    <3>1. pc'[c] = "writing"
      BY <1>0, <2>4
    <3>2. DOMAIN pending' = DOMAIN pending \cup {id[c]} /\ pending'[id[c]] = c
      BY <2>4
    <3>3. \A i \in DOMAIN pending : i # id[c] => pending'[i] = pending[i]
      BY <2>4
    <3>4. \A d \in Commands \ {c} : id[d] # id[c]
      BY <2>4 DEF Numbered
    <3>5. NoLeakedRegistration'
      BY <2>1, <2>2, <2>3, <2>4, <3>1, <3>2, <3>3
    <3>6. OwnAnswer'
      BY <2>2, <2>3, <3>1
    <3>7. Posted'
      BY <2>1, <2>2, <2>3, <3>2, <3>4
    <3> QED BY <3>5, <3>6, <3>7
  <2>5. CASE ~(Usable /\ c \in Commands)
    <3>1. UNCHANGED pending
      BY <2>5
    <3>2. c \in Commands => pc'[c] = "refused"
      BY <1>0, <2>5
    <3> QED BY <2>1, <2>2, <2>3, <3>1, <3>2
  <2> QED BY <2>4, <2>5
<1>3. ASSUME NEW c \in Senders, WriteFails(c) PROVE (PendingMapSound /\ Posted)'
  BY <1>3 DEF WriteFails, Deregister, Without, To
<1>4. ASSUME NEW c \in Commands, Receive(c) PROVE (PendingMapSound /\ Posted)'
  BY <1>4 DEF Receive, To
<1>5. ASSUME NEW c \in Commands, ChannelClosed(c) PROVE (PendingMapSound /\ Posted)'
  BY <1>5 DEF ChannelClosed, Deregister, Without, To
<1>6. ASSUME NEW c \in Commands, Timeout(c) PROVE (PendingMapSound /\ Posted)'
  BY <1>6 DEF Timeout, Deadline, Deregister, Without, To
<1>7. ASSUME NEW c \in Senders, Written(c) PROVE (PendingMapSound /\ Posted)'
  BY <1>7 DEF Written, To
<1>8. ASSUME NEW c \in Senders, Cancel(c) PROVE (PendingMapSound /\ Posted)'
  BY <1>8 DEF Cancel, Deregister, Without, To
<1>9. ASSUME NEW k \in Closers, CloseBegin(k) PROVE (PendingMapSound /\ Posted)'
  BY <1>9 DEF CloseBegin, CloserTo, Bindable
<1>10. ASSUME NEW k \in Closers, CloseTakesSink(k) PROVE (PendingMapSound /\ Posted)'
  BY <1>10 DEF CloseTakesSink, CloserTo, SinkFree
<1>11. ASSUME NEW k \in Closers, CloseGivesUp(k) PROVE (PendingMapSound /\ Posted)'
  BY <1>11 DEF CloseGivesUp, CloserTo
<1>12. ASSUME NEW k \in Closers, NEW t \in Tasks, CloseJoins(k, t) PROVE (PendingMapSound /\ Posted)'
  BY <1>12 DEF CloseJoins, CloserTo
<1>13. ASSUME NEW c \in Commands, BrowserAnswers(c) PROVE (PendingMapSound /\ Posted)'
  BY <1>13 DEF BrowserAnswers
<1>14. ASSUME NEW c \in Commands, ReaderDelivers(c) PROVE (PendingMapSound /\ Posted)'
  <2> USE <1>14 DEF ReaderDelivers
  <2>1. CASE id[c] \in DOMAIN pending
    <3>1. pending[id[c]] = c
      BY <2>1
    <3>2. mail' = [mail EXCEPT ![c] = {c}] /\ DOMAIN pending' = DOMAIN pending \ {id[c]}
      BY <2>1, <3>1 DEF Without
    <3>3. \A i \in DOMAIN pending' : pending'[i] = pending[i]
      BY <2>1 DEF Without
    <3>4. pc[c] \in {"writing", "waiting"}
      BY <2>1, <3>1
    <3> QED BY <1>0, <3>2, <3>3, <3>4
  <2>2. CASE id[c] \notin DOMAIN pending
    BY <2>2
  <2> QED BY <2>1, <2>2
<1>15. CASE ConnectionLost
  BY <1>15 DEF ConnectionLost
<1>16. CASE ReaderEnds
  BY <1>16 DEF ReaderEnds
<1>17. CASE KeepaliveWakes
  BY <1>17 DEF KeepaliveWakes
<1>18. CASE KeepaliveAcquires
  BY <1>18 DEF KeepaliveAcquires, Usable, SinkFree
<1>19. CASE KeepalivePinged
  BY <1>19 DEF KeepalivePinged
<1>20. ASSUME NEW how \in {"aborted", "panicked"}, TaskStops(how) PROVE (PendingMapSound /\ Posted)'
  BY <1>20 DEF TaskStops
<1>21. CASE DropClient
  BY <1>21 DEF DropClient
<1>22. CASE UNCHANGED vars
  BY <1>22 DEF vars
<1> QED
  BY <1>1, <1>2, <1>3, <1>4, <1>5, <1>6, <1>7, <1>8, <1>9, <1>10, <1>11, <1>12, <1>13, <1>14,
      <1>15, <1>16, <1>17, <1>18, <1>19, <1>20, <1>21, <1>22
     DEF Next, CallAdvances, CloserStep, KeepaliveStep, Quiescent

(* The shutdown. *)
LEMMA ShutStep ==
  ASSUME TypeOK, Shut, Next
  PROVE  Shut'
<1> USE TransportAssumption DEF Shut, callVars, taskVars, closeVars, Tasks, Finished, Closing,
    Joinable, Senders
<1>0. pc \in [Senders -> {"new", "lock", "writing", "waiting"} \cup Ends] /\ closer \in [Closers -> {"new", "sealing", "join_reader", "join_keepalive", "closed", "mismatch", "join_failed", "timed_out"}]
  BY DEF TypeOK
<1>1. ASSUME NEW c \in Senders, Start(c) PROVE Shut'
  BY <1>1 DEF Start, DrawId, To
<1>2. ASSUME NEW c \in Senders, Acquire(c) PROVE Shut'
  BY <1>2 DEF Acquire, To, Usable, SinkFree
<1>3. ASSUME NEW c \in Senders, WriteFails(c) PROVE Shut'
  <2>1. DOMAIN pending' \subseteq DOMAIN pending
    BY <1>3 DEF WriteFails, Deregister, To, Without, Restrict
  <2> QED BY <1>0, <1>3, <2>1 DEF WriteFails, To
<1>4. ASSUME NEW c \in Commands, Receive(c) PROVE Shut'
  BY <1>4 DEF Receive, To
<1>5. ASSUME NEW c \in Commands, ChannelClosed(c) PROVE Shut'
  <2>1. DOMAIN pending' \subseteq DOMAIN pending
    BY <1>5 DEF ChannelClosed, Deregister, To, Without, Restrict
  <2> QED BY <1>0, <1>5, <2>1 DEF ChannelClosed, To
<1>6. ASSUME NEW c \in Commands, Timeout(c) PROVE Shut'
  <2>1. DOMAIN pending' \subseteq DOMAIN pending
    BY <1>6 DEF Timeout, Deadline, Deregister, To, Without, Restrict
  <2> QED BY <1>0, <1>6, <2>1 DEF Timeout, Deadline, To
<1>7. ASSUME NEW c \in Senders, Written(c) PROVE Shut'
  BY <1>7 DEF Written, To
<1>8. ASSUME NEW c \in Senders, Cancel(c) PROVE Shut'
  <2>1. DOMAIN pending' \subseteq DOMAIN pending
    BY <1>8 DEF Cancel, Deregister, To, Without, Restrict
  <2> QED BY <1>0, <1>8, <2>1 DEF Cancel, To
<1>9. ASSUME NEW k \in Closers, CloseBegin(k) PROVE Shut'
  <2>1. \A j \in Closers \ {k} : closer'[j] = closer[j]
    BY <1>0, <1>9 DEF CloseBegin, CloserTo
  <2>2. \A j \in Closers : closer[j] = "closed" => binding' = binding
    BY <1>9 DEF CloseBegin, Bindable
  <2>3. \A j \in Closers : closer[j] \notin {"sealing", "join_reader", "join_keepalive"}
    BY <1>9 DEF CloseBegin
  <2>4. sealed => sealed'
    BY <1>9 DEF CloseBegin
  <2>5. \/ closer'[k] \in {"join_failed", "mismatch"}
        \/ closer'[k] = "sealing" /\ sealed' /\ binding' = BindingOf[k]
    BY <1>0, <1>9 DEF CloseBegin, CloserTo
  <2>6. UNCHANGED <<sink, keepalive, reader, pc, handles, pending>>
    BY <1>9 DEF CloseBegin
  <2> QED BY <2>1, <2>2, <2>3, <2>4, <2>5, <2>6
<1>10. ASSUME NEW k \in Closers, CloseTakesSink(k) PROVE Shut'
  BY <1>10 DEF CloseTakesSink, CloserTo, SinkFree
<1>11. ASSUME NEW k \in Closers, CloseGivesUp(k) PROVE Shut'
  BY <1>11 DEF CloseGivesUp, CloserTo
<1>12. ASSUME NEW k \in Closers, NEW t \in Tasks, CloseJoins(k, t) PROVE Shut'
  <2> USE <1>12 DEF CloseJoins, CloserTo
  <2>1. UNCHANGED <<sink, sealed, pc, keepalive, reader, binding>>
    OBVIOUS
  <2>2. \A u \in Tasks \ handles' : Joinable(u)
    OBVIOUS
  <2>3. \A j \in Closers \ {k} : closer'[j] = closer[j]
    BY <1>0
  <2>4. DOMAIN pending = {} => DOMAIN pending' = {}
    OBVIOUS
  <2>5. closer'[k] \in {"join_failed", "join_keepalive", "closed"}
    BY <1>0
  <2>6. closer'[k] = "join_keepalive" => "reader" \notin handles'
    BY <1>0
  <2>7. closer'[k] = "closed" => handles' = {} /\ DOMAIN pending' = {}
    <3>1. closer'[k] = "closed" => t = "keepalive" /\ pending' = <<>>
      BY <1>0
    <3>2. t = "keepalive" => "reader" \notin handles
      OBVIOUS
    <3>3. handles \subseteq Tasks
      BY DEF TypeOK
    <3> QED BY <3>1, <3>2, <3>3
  <2> QED BY <2>1, <2>2, <2>3, <2>4, <2>5, <2>6, <2>7
<1>13. ASSUME NEW c \in Commands, BrowserAnswers(c) PROVE Shut'
  BY <1>13 DEF BrowserAnswers
<1>14. ASSUME NEW c \in Commands, ReaderDelivers(c) PROVE Shut'
  BY <1>14 DEF ReaderDelivers, Without
<1>15. CASE ConnectionLost
  BY <1>15 DEF ConnectionLost
<1>16. CASE ReaderEnds
  BY <1>16 DEF ReaderEnds
<1>17. CASE KeepaliveWakes
  BY <1>17 DEF KeepaliveWakes
<1>18. CASE KeepaliveAcquires
  BY <1>18 DEF KeepaliveAcquires, Usable, SinkFree
<1>19. CASE KeepalivePinged
  BY <1>19 DEF KeepalivePinged
<1>20. ASSUME NEW how \in {"aborted", "panicked"}, TaskStops(how) PROVE Shut'
  BY <1>20 DEF TaskStops
<1>21. CASE DropClient
  BY <1>21 DEF DropClient
<1>22. CASE UNCHANGED vars
  BY <1>22 DEF vars
<1> QED
  BY <1>1, <1>2, <1>3, <1>4, <1>5, <1>6, <1>7, <1>8, <1>9, <1>10, <1>11, <1>12, <1>13, <1>14,
      <1>15, <1>16, <1>17, <1>18, <1>19, <1>20, <1>21, <1>22
     DEF Next, CallAdvances, CloserStep, KeepaliveStep, Quiescent

-----------------------------------------------------------------------------
(* Before anything has happened. *)
LEMMA InductiveInit == Init => Inductive
<1> SUFFICES ASSUME Init PROVE Inductive
  OBVIOUS
<1>1. Drawn = {}
  BY DEF Init, Drawn, Senders
<1>2. IsFiniteSet(Commands) /\ Cardinality(Commands) \in Nat
  BY TransportAssumption, FS_Subset, FS_CardinalityType
<1>3. TypeOK
  <2>1. id \in [Commands -> Ids \cup {0}] /\ nextId \in Ids \cup {Cardinality(Commands) + 1}
    BY <1>2 DEF Init, Ids
  <2>2. DOMAIN pending \subseteq Ids /\ Range(pending) \subseteq Commands
    BY DEF Init, Range
  <2> QED BY <2>1, <2>2 DEF Init, TypeOK, Tasks
<1>4. Numbered
  BY <1>1, FS_EmptySet DEF Init, Numbered, Senders
<1>5. NoLeakedRegistration /\ Posted /\ OwnAnswer
  BY DEF Init, NoLeakedRegistration, Posted, OwnAnswer, Senders
<1>6. Shut
  BY DEF Init, Shut, Closing, Senders
<1> QED BY <1>3, <1>4, <1>5, <1>6 DEF Inductive

(* Every step keeps the invariant. *)
LEMMA InductiveStep == Inductive /\ [Next]_vars => Inductive'
<1> SUFFICES ASSUME Inductive, [Next]_vars PROVE Inductive'
  OBVIOUS
<1>1. CASE Next
  BY <1>1, NumberedStep, TypeStep, PendingStep, ShutStep DEF Inductive, PendingMapSound
<1>2. CASE UNCHANGED vars
  BY <1>2 DEF vars, Inductive, TypeOK, Numbered, Drawn, NoLeakedRegistration, Posted,
              OwnAnswer, Shut, Closing, Joinable
<1> QED BY <1>1, <1>2

(* The inductive invariant holds always. *)
LEMMA InductiveInvariant == Spec => []Inductive
BY InductiveInit, InductiveStep, PTL DEF Spec

(* A closer that was given evidence of closure can rely on it for ever: no  *)
(* sink, no writer, no task and no registration is left, whoever else       *)
(* sends, is cancelled or gives up, and the evidence is for the permit that *)
(* began the shutdown (quiesce_private_transport).                          *)
THEOREM EvidenceCorrect == Spec => []EvidenceTrue
<1>1. Inductive => EvidenceTrue
  <2> SUFFICES ASSUME Inductive PROVE EvidenceTrue
    OBVIOUS
  <2>1. ClosedIsQuiet
    BY DEF Inductive, Shut, ClosedIsQuiet, Closed, Joinable, Tasks
  <2>2. OneBinding
    BY DEF Inductive, Shut, OneBinding
  <2> QED BY <2>1, <2>2 DEF Inductive, EvidenceTrue
<1> QED BY <1>1, InductiveInvariant, PTL

(* However late responses come in, and wherever callers drop their futures: *)
(* whatever is in the pending map waits under its own id, and a command     *)
(* that is answered has the response to itself (send_command_inner and the  *)
(* reader task).                                                            *)
THEOREM PendingMapCorrect == Spec => []PendingMapSound
<1>1. Inductive => PendingMapSound
  BY DEF Inductive, PendingMapSound
<1> QED BY <1>1, InductiveInvariant, PTL
=============================================================================
