------------------------- MODULE ControlPlaneProofs -------------------------
(***************************************************************************)
(* Proofs about ControlPlane: the counter and the token map          *)
(* (QueueDepthCorrect, TokenCorrect), on the places of requests; what is   *)
(* told and executed, up to the implementation of JobService               *)
(* (ControlPlaneKeepsPromise); and the journal, for as long as a request   *)
(* has a record of its own in it (AnswersAgreeWithJournal,                 *)
(* ParkedCancelsHold, SettledIsFinal).                                     *)
(***************************************************************************)
EXTENDS ControlPlane, FiniteSetTheorems, TLAPS

(* Writing a record, pruning included, leaves a journal of records. *)
LEMMA WriteType ==
  ASSUME JournalType, NEW r \in JobRequests, NEW st \in JobStates, NEW at \in Nat
  PROVE  Write(r, st, at) \in [Jobs -> Record]
<1> DEFINE new == [state |-> st, at |-> at,
                   lost |-> jobs[JobOf[r]].lost \cup (Journalled(JobOf[r], r) \ {r})]
           js == [jobs EXCEPT ![JobOf[r]] = new]
<1>1. \A j : Journalled(j, r) \subseteq JobRequests
  BY DEF Journalled
<1>2. JobOf[r] \in Jobs
  BY JobsAssumption
<1>3. new \in Record
  BY <1>1, <1>2 DEF JournalType, Record
<1>4. js \in [Jobs -> Record]
  BY <1>3 DEF JournalType
<1> HIDE DEF js
<1>5. \A j \in Jobs : Absent(js[j].lost \cup Journalled(j, r)) \in Record
  BY <1>1, <1>4 DEF Absent, Record
<1>6. PruneJobs(js, r) \in [Jobs -> Record]
  BY <1>4, <1>5 DEF PruneJobs
<1> QED
  BY <1>6 DEF Write, js

LEMMA FailedType ==
  ASSUME JournalType, clock \in Nat, NEW r \in JobRequests, PersistFailed(r)
  PROVE  JournalType' /\ clock' \in Nat
<1>1. JobOf[r] \in Jobs
  BY JobsAssumption
<1>2. jobs[JobOf[r]].at \in Nat /\ clock + 1 \in Nat
  BY <1>1 DEF JournalType, Record
<1> QED
  BY <1>1, <1>2, WriteType DEF PersistFailed, JournalType, JobStates, TerminalStates

LEMMA PersistType ==
  ASSUME JournalType, ClientType, NEW r \in JobRequests, NEW st \in JobStates,
         Persist(r, st)
  PROVE  JournalType'
  BY WriteType, JobsAssumption DEF Persist, JournalType, ClientType, JobRequests

(* A request can be appended to the channel. *)
LEMMA AppendType ==
  ASSUME ChannelType, NEW r \in Requests
  PROVE  Append(queue, r) \in Seq(Requests \cup {Shutdown})
  BY DEF ChannelType

Typed ==
  /\ ClientType /\ ChannelType /\ WorkerType /\ LeaseType /\ CancelType
  /\ JournalType

(* Every action leaves the journal a journal. *)
LEMMA JournalTypeStep ==
  ASSUME Typed, CurMatchesPc, [Next]_vars
  PROVE  JournalType'
<1> USE DEF Typed
<1>1. ASSUME NEW r \in Requests, SubmitJournal(r) PROVE JournalType'
  <2>1. r \in JobRequests /\ clock + 1 \in Nat
    BY <1>1 DEF SubmitJournal, ClientType, ClientRequests
  <2>2. Write(r, "queued", clock + 1) \in [Jobs -> Record]
    BY <2>1, WriteType DEF JobStates
  <2> QED
    BY <1>1, <2>2 DEF SubmitJournal, JournalType
<1>2. ASSUME NEW r \in Requests, SubmitSend(r) PROVE JournalType'
  BY <1>2 DEF SubmitSend, JournalType
<1>3. ASSUME NEW r \in Requests, SubmitRefused(r) PROVE JournalType'
  BY <1>3, FailedType DEF SubmitRefused, ClientType, ClientRequests
<1>4. ASSUME NEW r \in Requests, SubmitDropped(r) PROVE JournalType'
  BY <1>4 DEF SubmitDropped, JournalType
<1>5. ASSUME NEW r \in Requests, PrivateEnqueue(r) PROVE JournalType'
  BY <1>5 DEF PrivateEnqueue, JournalType
<1>6. ASSUME NEW r \in Requests, PrivateGiveUp(r) PROVE JournalType'
  BY <1>6 DEF PrivateGiveUp, JournalType
<1>7. ASSUME NEW j \in Jobs, CancelRunning(j) PROVE JournalType'
  BY <1>7 DEF CancelRunning, JournalType
<1>8. ASSUME NEW j \in Jobs, CancelMiss(j) PROVE JournalType'
  BY <1>8 DEF CancelMiss, JournalType
<1>9. ASSUME NEW j \in Jobs, CancelPersisted(j) PROVE JournalType'
  BY <1>9, JobsAssumption DEF CancelPersisted, JournalType, Record, JobStates, TerminalStates
<1>10. ASSUME WorkerRecv PROVE JournalType'
  BY <1>10 DEF WorkerRecv, JournalType
<1>11. ASSUME WorkerStop PROVE JournalType'
  BY <1>11 DEF WorkerStop, JournalType
<1>12. ASSUME WorkerCheckCancelled PROVE JournalType'
  BY <1>12 DEF WorkerCheckCancelled, JournalType
<1>13. ASSUME WorkerGate PROVE JournalType'
  BY <1>13 DEF WorkerGate, JournalType
<1>14. ASSUME WorkerReject PROVE JournalType'
  BY <1>14, FailedType DEF WorkerReject, ClientType, CurMatchesPc, Received
<1>15. ASSUME WorkerWait PROVE JournalType'
  BY <1>15, PersistType DEF WorkerWait, CurMatchesPc, Received, JobStates
<1>16. ASSUME WorkerDispatch PROVE JournalType'
  BY <1>16, PersistType DEF WorkerDispatch, CurMatchesPc, Received, JobStates
<1>17. ASSUME WorkerRegister PROVE JournalType'
  BY <1>17 DEF WorkerRegister, JournalType
<1>18. ASSUME ExecuteReturns PROVE JournalType'
  BY <1>18 DEF ExecuteReturns, JournalType, EndExecution
<1>19. ASSUME ExecuteTimesOut PROVE JournalType'
  BY <1>19, PersistType DEF ExecuteTimesOut, CurMatchesPc, Received, JobStates, TerminalStates
<1>20. ASSUME ExecuteCancelled PROVE JournalType'
  BY <1>20, PersistType DEF ExecuteCancelled, CurMatchesPc, Received, JobStates, TerminalStates
<1>21. ASSUME ListenCheck PROVE JournalType'
  BY <1>21 DEF ListenCheck, JournalType
<1>22. ASSUME ListenArm PROVE JournalType'
  BY <1>22 DEF ListenArm, JournalType
<1>23. ASSUME WorkerUnregister PROVE JournalType'
  BY <1>23 DEF WorkerUnregister, JournalType
<1>24. ASSUME WorkerFinish PROVE JournalType'
  BY <1>24, PersistType
  DEF WorkerFinish, FinishedState, CurMatchesPc, Received, JobStates, TerminalStates,
      JournalType
<1>25. ASSUME WorkerRespond PROVE JournalType'
  BY <1>25 DEF WorkerRespond, JournalType
<1>26. ASSUME WorkerFollowUp PROVE JournalType'
  BY <1>26 DEF WorkerFollowUp, JournalType
<1>27. ASSUME PrivateCheck PROVE JournalType'
  BY <1>27 DEF PrivateCheck, JournalType
<1>28. ASSUME PrivateEnd PROVE JournalType'
  BY <1>28 DEF PrivateEnd, JournalType
<1>29. ASSUME DrainTick PROVE JournalType'
  BY <1>29 DEF DrainTick, JournalType
<1>30. ASSUME NEW r \in Requests, MonitorTick(r) PROVE JournalType'
  <2>1. r \in JobRequests /\ clock + 1 \in Nat
    BY <1>30, RequestsAssumption DEF MonitorTick, ClientType
  <2>2. \A st \in JobStates : Write(r, st, clock + 1) \in [Jobs -> Record]
    BY <2>1, WriteType
  <2> QED
    BY <1>30, <2>2 DEF MonitorTick, JobStates, TerminalStates, JournalType
<1>31. ASSUME NEW r \in Requests, RetrySend(r) PROVE JournalType'
  BY <1>31 DEF RetrySend, JournalType
<1>32. ASSUME NEW r \in Requests, RetryStopped(r) PROVE JournalType'
  BY <1>32, FailedType DEF RetryStopped, ClientType, LeaseType
<1>33. ASSUME ShutdownSend PROVE JournalType'
  BY <1>33 DEF ShutdownSend, JournalType
<1>34. CASE UNCHANGED vars
  BY <1>34 DEF vars, JournalType
<1> QED
  BY <1>1, <1>2, <1>3, <1>4, <1>5, <1>6, <1>7, <1>8, <1>9, <1>10, <1>11, <1>12, <1>13, <1>14,
      <1>15, <1>16, <1>17, <1>18, <1>19, <1>20, <1>21, <1>22, <1>23, <1>24, <1>25, <1>26,
      <1>27, <1>28, <1>29, <1>30, <1>31, <1>32, <1>33, <1>34
  DEF Next, ClientStep, CancelStep, WorkerProgress, RetryStep, Quiescent

(* Every action preserves the types of the other variables. *)
LEMMA OtherTypesStep ==
  ASSUME Typed, CurMatchesPc, [Next]_vars
  PROVE  (ClientType /\ ChannelType /\ WorkerType /\ LeaseType /\ CancelType)'
<1> DEFINE Others ==
      ClientType /\ ChannelType /\ WorkerType /\ LeaseType /\ CancelType
<1> USE RequestsAssumption, JobsAssumption, ShutdownAssumption
<1> USE DEF Typed, ClientType, ChannelType, WorkerType, LeaseType, CancelType,
        JournalType, Record, CurMatchesPc, JobRequests, ClientRequests, Answers,
        Outcomes, WorkerPcs, Received, clientVars, workerVars, leaseVars, cancelVars
<1>1. ASSUME NEW r \in Requests, SubmitJournal(r) PROVE Others'
  BY <1>1 DEF SubmitJournal
<1>2. ASSUME NEW r \in Requests, SubmitSend(r) PROVE Others'
  <2>1. ClientType'
    <3>1. \E c \in {"sent", "full", "closed"} : client' = [client EXCEPT ![r] = c]
      BY <1>2 DEF SubmitSend
    <3>2. UNCHANGED <<answer, stamp, clock>>
      BY <1>2 DEF SubmitSend
    <3> QED
      BY <3>1, <3>2
  <2>2. ChannelType'
    <3> HIDE DEF ChannelType
    <3>1. Append(queue, r) \in Seq(Requests \cup {Shutdown})
      BY AppendType
    <3> QED
      BY <1>2, <3>1 DEF SubmitSend, ChannelType
  <2>3. WorkerType'
    BY <1>2 DEF SubmitSend
  <2>4. LeaseType'
    BY <1>2 DEF SubmitSend
  <2>5. CancelType'
    BY <1>2 DEF SubmitSend
  <2> QED
    BY <2>1, <2>2, <2>3, <2>4, <2>5
<1>3. ASSUME NEW r \in Requests, SubmitRefused(r) PROVE Others'
  BY <1>3 DEF SubmitRefused, PersistFailed, Answer
<1>4. ASSUME NEW r \in Requests, SubmitDropped(r) PROVE Others'
  BY <1>4 DEF SubmitDropped, Answer
<1>5. ASSUME NEW r \in Requests, PrivateEnqueue(r) PROVE Others'
  <2>1. ClientType'
    BY <1>5 DEF PrivateEnqueue, Answer
  <2>2. ChannelType'
    <3> HIDE DEF ChannelType
    <3>1. Append(queue, r) \in Seq(Requests \cup {Shutdown})
      BY AppendType
    <3> QED
      BY <1>5, <3>1 DEF PrivateEnqueue, ChannelType
  <2>3. WorkerType'
    BY <1>5 DEF PrivateEnqueue, Answer
  <2>4. LeaseType'
    BY <1>5 DEF PrivateEnqueue, Answer
  <2>5. CancelType'
    BY <1>5 DEF PrivateEnqueue, Answer
  <2> QED
    BY <2>1, <2>2, <2>3, <2>4, <2>5
<1>6. ASSUME NEW r \in Requests, PrivateGiveUp(r) PROVE Others'
  BY <1>6 DEF PrivateGiveUp, Answer
<1>7. ASSUME NEW j \in Jobs, CancelRunning(j) PROVE Others'
  BY <1>7 DEF CancelRunning
<1>8. ASSUME NEW j \in Jobs, CancelMiss(j) PROVE Others'
  BY <1>8 DEF CancelMiss
<1>9. ASSUME NEW j \in Jobs, CancelPersisted(j) PROVE Others'
  <2>1. ClientType'
    BY <1>9 DEF CancelPersisted
  <2>2. ChannelType'
    BY <1>9 DEF CancelPersisted
  <2>3. WorkerType'
    BY <1>9 DEF CancelPersisted
  <2>4. LeaseType'
    BY <1>9 DEF CancelPersisted
  <2>5. CancelType'
    BY <1>9 DEF CancelPersisted
  <2> QED
    BY <2>1, <2>2, <2>3, <2>4, <2>5
<1>10. ASSUME WorkerRecv PROVE Others'
  BY <1>10 DEF WorkerRecv, CountOut
<1>11. ASSUME WorkerStop PROVE Others'
  BY <1>11 DEF WorkerStop
<1>12. ASSUME WorkerCheckCancelled PROVE Others'
  <2>1. ClientType'
    <3>1. answer' = answer \/ answer' = [answer EXCEPT ![cur] = "cancelled_early"]
      BY <1>12 DEF WorkerCheckCancelled, Answer
    <3>2. UNCHANGED <<client, stamp, clock>>
      BY <1>12 DEF WorkerCheckCancelled
    <3>3. answer' \in [Requests -> Answers]
      <4>1. answer \in [Requests -> Answers] /\ "cancelled_early" \in Answers
        OBVIOUS
      <4> HIDE DEF Answers
      <4> QED
        BY <3>1, <4>1
    <3> QED
      BY <3>2, <3>3
  <2>2. ChannelType'
    BY <1>12 DEF WorkerCheckCancelled, Answer, EndWait
  <2>3. WorkerType'
    BY <1>12 DEF WorkerCheckCancelled, Answer, EndWait
  <2>4. LeaseType'
    BY <1>12 DEF WorkerCheckCancelled, Answer, EndWait
  <2>5. CancelType'
    BY <1>12 DEF WorkerCheckCancelled, Answer, EndWait
  <2> QED
    BY <2>1, <2>2, <2>3, <2>4, <2>5
<1>13. ASSUME WorkerGate PROVE Others'
  <2>1. ClientType'
    BY <1>13 DEF WorkerGate, EndWait
  <2>2. ChannelType'
    BY <1>13 DEF WorkerGate, EndWait
  <2>3. WorkerType'
    BY <1>13 DEF WorkerGate, EndWait
  <2>4. LeaseType'
    <3>1. waits' \in [Requests -> Nat]
      BY <1>13 DEF WorkerGate
    <3>2. waitEvent' \in [Requests -> {"none", "started", "ended"}]
      BY <1>13 DEF WorkerGate, EndWait
    <3> QED
      BY <1>13, <3>1, <3>2 DEF WorkerGate
  <2>5. CancelType'
    BY <1>13 DEF WorkerGate, EndWait
  <2> QED
    BY <2>1, <2>2, <2>3, <2>4, <2>5
<1>14. ASSUME WorkerReject PROVE Others'
  BY <1>14 DEF WorkerReject, PersistFailed, Answer
<1>15. ASSUME WorkerWait PROVE Others'
  BY <1>15 DEF WorkerWait, Park
<1>16. ASSUME WorkerDispatch PROVE Others'
  BY <1>16 DEF WorkerDispatch
<1>17. ASSUME WorkerRegister PROVE Others'
  BY <1>17 DEF WorkerRegister
<1>18. ASSUME ExecuteReturns PROVE Others'
  BY <1>18 DEF ExecuteReturns, EndExecution
<1>19. ASSUME ExecuteTimesOut PROVE Others'
  BY <1>19 DEF ExecuteTimesOut, EndExecution
<1>20. ASSUME ExecuteCancelled PROVE Others'
  BY <1>20 DEF ExecuteCancelled, EndExecution
<1>21. ASSUME ListenCheck PROVE Others'
  BY <1>21 DEF ListenCheck
<1>22. ASSUME ListenArm PROVE Others'
  BY <1>22 DEF ListenArm
<1>23. ASSUME WorkerUnregister PROVE Others'
  BY <1>23 DEF WorkerUnregister
<1>24. ASSUME WorkerFinish PROVE Others'
  BY <1>24 DEF WorkerFinish
<1>25. ASSUME WorkerRespond PROVE Others'
  BY <1>25 DEF WorkerRespond, Answer
<1>26. ASSUME WorkerFollowUp PROVE Others'
  BY <1>26 DEF WorkerFollowUp
<1>27. ASSUME PrivateCheck PROVE Others'
  <2>1. ClientType'
    <3>1. answer' \in [Requests -> Answers]
      <4>1. CASE answer[cur] # "none" \/ wpc' = "private_execute"
        BY <1>27, <4>1 DEF PrivateCheck, Answer
      <4>2. CASE \E a \in {"ok", "expired", "error"} : Answer(cur, a)
        BY <1>27, <4>2 DEF PrivateCheck, Answer
      <4> QED
        BY <1>27, <4>1, <4>2 DEF PrivateCheck
    <3> QED
      BY <1>27, <3>1 DEF PrivateCheck
  <2>2. ChannelType'
    BY <1>27 DEF PrivateCheck, Answer
  <2>3. WorkerType'
    BY <1>27 DEF PrivateCheck, Answer
  <2>4. LeaseType'
    BY <1>27 DEF PrivateCheck, Answer
  <2>5. CancelType'
    BY <1>27 DEF PrivateCheck, Answer
  <2> QED
    BY <2>1, <2>2, <2>3, <2>4, <2>5
<1>28. ASSUME PrivateEnd PROVE Others'
  <2>1. ClientType'
    <3>1. answer' = answer \/ \E a \in {"ok", "error"} : answer' = [answer EXCEPT ![cur] = a]
      BY <1>28 DEF PrivateEnd, Answer
    <3>2. UNCHANGED <<client, stamp, clock>>
      BY <1>28 DEF PrivateEnd
    <3>3. answer' \in [Requests -> Answers]
      <4>1. answer \in [Requests -> Answers] /\ \A a \in {"ok", "error"} : a \in Answers
        OBVIOUS
      <4> HIDE DEF Answers
      <4>2. CASE answer' = answer
        BY <4>1, <4>2
      <4>3. ASSUME NEW a \in {"ok", "error"}, answer' = [answer EXCEPT ![cur] = a]
            PROVE  answer' \in [Requests -> Answers]
        <5>1. a \in Answers
          BY <4>1
        <5> QED
          BY <4>1, <4>3, <5>1
      <4> QED
        BY <3>1, <4>2, <4>3
    <3> QED
      BY <3>2, <3>3
  <2>2. ChannelType' /\ LeaseType' /\ CancelType'
    BY <1>28 DEF PrivateEnd
  <2>3. WorkerType'
    BY <1>28 DEF PrivateEnd
  <2> QED
    BY <2>1, <2>2, <2>3
<1>29. ASSUME DrainTick PROVE Others'
  BY <1>29 DEF DrainTick
<1>30. ASSUME NEW r \in Requests, MonitorTick(r) PROVE Others'
  <2>1. ClientType'
    <3>1. clock' \in Nat /\ stamp' \in [Requests -> Nat]
      BY <1>30 DEF MonitorTick
    <3>2. client' \in [Requests -> {"new", "journalled", "full", "closed", "sent"}]
      <4>1. client' = [client EXCEPT ![r] = "sent"]
              \/ client' = [client EXCEPT ![r] = "full"]
        BY <1>30 DEF MonitorTick
      <4> QED
        BY <4>1
    <3> QED
      BY <1>30, <3>1, <3>2 DEF MonitorTick
  <2>2. ChannelType'
    <3> HIDE DEF ChannelType
    <3>1. Append(queue, r) \in Seq(Requests \cup {Shutdown})
      BY AppendType
    <3> QED
      BY <1>30, <3>1 DEF MonitorTick, ChannelType
  <2>3. WorkerType'
    BY <1>30 DEF MonitorTick
  <2>4. LeaseType'
    BY <1>30 DEF MonitorTick
  <2>5. CancelType'
    BY <1>30 DEF MonitorTick
  <2> QED
    BY <2>1, <2>2, <2>3, <2>4, <2>5
<1>31. ASSUME NEW r \in Requests, RetrySend(r) PROVE Others'
  BY <1>31 DEF RetrySend
<1>32. ASSUME NEW r \in Requests, RetryStopped(r) PROVE Others'
  BY <1>32 DEF RetryStopped, PersistFailed, Answer, EndWait
<1>33. ASSUME ShutdownSend PROVE Others'
  BY <1>33 DEF ShutdownSend
<1>34. CASE UNCHANGED vars
  BY <1>34 DEF vars
<1> QED
  BY <1>1, <1>2, <1>3, <1>4, <1>5, <1>6, <1>7, <1>8, <1>9, <1>10, <1>11, <1>12, <1>13, <1>14,
      <1>15, <1>16, <1>17, <1>18, <1>19, <1>20, <1>21, <1>22, <1>23, <1>24, <1>25, <1>26,
      <1>27, <1>28, <1>29, <1>30, <1>31, <1>32, <1>33, <1>34
  DEF Next, ClientStep, CancelStep, WorkerProgress, RetryStep, Quiescent

-----------------------------------------------------------------------------
(* Where requests are.  Seen from the channel, the counter and the tasks    *)
(* that hold requests, a step of the system is one of the following moves.  *)

Stay ==
  /\ UNCHANGED <<client, queue, depth, retry>>
  /\ cur' \in {cur, None}
  /\ shutdownPc' \in {shutdownPc, "done"}

(* A connection task, or the monitor tick, moves request r. *)
Move(r) ==
  /\ UNCHANGED <<retry, cur, shutdownPc>>
  /\ \/ /\ client[r] = "new" /\ client' = [client EXCEPT ![r] = "journalled"]
        /\ depth' = depth + 1 /\ UNCHANGED queue
     \/ /\ client[r] = "journalled" /\ r \notin PreflightRequests
        /\ client' = [client EXCEPT ![r] = "sent"]
        /\ queue' = Append(queue, r) /\ UNCHANGED depth
     \/ /\ client[r] = "new" /\ client' = [client EXCEPT ![r] = "sent"]
        /\ queue' = Append(queue, r)
        /\ depth' = IF r \in PreflightRequests THEN depth ELSE depth + 1
     \/ /\ client[r] = "journalled"
        /\ \E c \in {"full", "closed"} : client' = [client EXCEPT ![r] = c]
        /\ depth' = depth - 1 /\ UNCHANGED queue
     \/ /\ client[r] = "new"
        /\ \E c \in {"full", "closed"} : client' = [client EXCEPT ![r] = c]
        /\ UNCHANGED <<queue, depth>>

Receive ==
  /\ queue # <<>> /\ queue' = Tail(queue) /\ cur = None
  /\ cur' = IF Head(queue) = Shutdown THEN cur ELSE Head(queue)
  /\ depth' = IF Head(queue) = Shutdown \/ Head(queue) \in PreflightRequests
              THEN depth ELSE depth - 1
  /\ UNCHANGED <<client, retry, shutdownPc>>

ParkCur ==
  /\ cur # None
  /\ retry' = retry \cup {cur} /\ depth' = depth + 1 /\ cur' = None
  /\ UNCHANGED <<client, queue, shutdownPc>>

LeaveRetry(r) ==
  /\ r \in retry /\ retry' = retry \ {r}
  /\ \/ queue' = Append(queue, r) /\ UNCHANGED depth
     \/ depth' = depth - 1 /\ UNCHANGED queue
  /\ UNCHANGED <<client, cur, shutdownPc>>

SendShutdown ==
  /\ shutdownPc = "idle" /\ shutdownPc' = "sent"
  /\ queue' = Append(queue, Shutdown)
  /\ UNCHANGED <<client, depth, retry, cur>>

Flow ==
  \/ Stay \/ Receive \/ ParkCur \/ SendShutdown
  \/ \E r \in Requests : Move(r) \/ LeaveRetry(r)

(* Every step is one of the moves. *)
LEMMA StepIsFlow ==
  ASSUME Typed, CurMatchesPc, [Next]_vars
  PROVE  Flow
<1> USE DEF Flow, clientVars, workerVars, leaseVars, cancelVars
<1>1. ASSUME NEW r \in Requests, SubmitJournal(r) PROVE Flow
  BY <1>1 DEF SubmitJournal, Move
<1>2. ASSUME NEW r \in Requests, SubmitSend(r) PROVE Flow
  BY <1>2, RequestsAssumption DEF SubmitSend, Move, ClientRequests, JobRequests
<1>3. ASSUME NEW r \in Requests, SubmitRefused(r) PROVE Flow
  BY <1>3 DEF SubmitRefused, Stay
<1>4. ASSUME NEW r \in Requests, SubmitDropped(r) PROVE Flow
  BY <1>4 DEF SubmitDropped, Stay
<1>5. ASSUME NEW r \in Requests, PrivateEnqueue(r) PROVE Flow
  BY <1>5 DEF PrivateEnqueue, Move
<1>6. ASSUME NEW r \in Requests, PrivateGiveUp(r) PROVE Flow
  BY <1>6 DEF PrivateGiveUp, Stay
<1>7. ASSUME NEW j \in Jobs, CancelRunning(j) PROVE Flow
  BY <1>7 DEF CancelRunning, Stay
<1>8. ASSUME NEW j \in Jobs, CancelMiss(j) PROVE Flow
  BY <1>8 DEF CancelMiss, Stay
<1>9. ASSUME NEW j \in Jobs, CancelPersisted(j) PROVE Flow
  BY <1>9 DEF CancelPersisted, Stay
<1>10. ASSUME WorkerRecv PROVE Flow
  BY <1>10 DEF WorkerRecv, CountOut, Receive, CurMatchesPc
<1>11. ASSUME WorkerStop PROVE Flow
  BY <1>11 DEF WorkerStop, Stay
<1>12. ASSUME WorkerCheckCancelled PROVE Flow
  BY <1>12 DEF WorkerCheckCancelled, Stay
<1>13. ASSUME WorkerGate PROVE Flow
  BY <1>13 DEF WorkerGate, Stay
<1>14. ASSUME WorkerReject PROVE Flow
  BY <1>14 DEF WorkerReject, Stay
<1>15. ASSUME WorkerWait PROVE Flow
  BY <1>15, RequestsAssumption
  DEF WorkerWait, Park, ParkCur, CurMatchesPc, Received, JobRequests
<1>16. ASSUME WorkerDispatch PROVE Flow
  BY <1>16 DEF WorkerDispatch, Stay
<1>17. ASSUME WorkerRegister PROVE Flow
  BY <1>17 DEF WorkerRegister, Stay
<1>18. ASSUME ExecuteReturns PROVE Flow
  BY <1>18 DEF ExecuteReturns, Stay, EndExecution
<1>19. ASSUME ExecuteTimesOut PROVE Flow
  BY <1>19 DEF ExecuteTimesOut, Stay, EndExecution
<1>20. ASSUME ExecuteCancelled PROVE Flow
  BY <1>20 DEF ExecuteCancelled, Stay, EndExecution
<1>21. ASSUME ListenCheck PROVE Flow
  BY <1>21 DEF ListenCheck, Stay
<1>22. ASSUME ListenArm PROVE Flow
  BY <1>22 DEF ListenArm, Stay
<1>23. ASSUME WorkerUnregister PROVE Flow
  BY <1>23 DEF WorkerUnregister, Stay
<1>24. ASSUME WorkerFinish PROVE Flow
  BY <1>24 DEF WorkerFinish, Stay
<1>25. ASSUME WorkerRespond PROVE Flow
  BY <1>25 DEF WorkerRespond, Stay
<1>26. ASSUME WorkerFollowUp PROVE Flow
  BY <1>26 DEF WorkerFollowUp, Stay
<1>27. ASSUME PrivateCheck PROVE Flow
  BY <1>27 DEF PrivateCheck, Stay
<1>28. ASSUME PrivateEnd PROVE Flow
  BY <1>28 DEF PrivateEnd, Stay
<1>29. ASSUME DrainTick PROVE Flow
  BY <1>29 DEF DrainTick, Stay
<1>30. ASSUME NEW r \in Requests, MonitorTick(r) PROVE Flow
  BY <1>30, RequestsAssumption DEF MonitorTick, Move, JobRequests
<1>31. ASSUME NEW r \in Requests, RetrySend(r) PROVE Flow
  BY <1>31 DEF RetrySend, LeaveRetry
<1>32. ASSUME NEW r \in Requests, RetryStopped(r) PROVE Flow
  BY <1>32 DEF RetryStopped, LeaveRetry
<1>33. ASSUME ShutdownSend PROVE Flow
  BY <1>33 DEF ShutdownSend, SendShutdown
<1>34. CASE UNCHANGED vars
  BY <1>34 DEF vars, Stay
<1> QED
  BY <1>1, <1>2, <1>3, <1>4, <1>5, <1>6, <1>7, <1>8, <1>9, <1>10, <1>11, <1>12, <1>13, <1>14,
      <1>15, <1>16, <1>17, <1>18, <1>19, <1>20, <1>21, <1>22, <1>23, <1>24, <1>25, <1>26,
      <1>27, <1>28, <1>29, <1>30, <1>31, <1>32, <1>33, <1>34
  DEF Next, ClientStep, CancelStep, WorkerProgress, RetryStep, Quiescent

(* The channel after a send. *)
LEMMA QueuedAppend ==
  ASSUME ChannelType, NEW m \in Requests \cup {Shutdown},
         queue' = Append(queue, m)
  PROVE  /\ Queued' = Queued \cup ({m} \cap Requests)
         /\ Len(queue') = Len(queue) + 1
         /\ \A i \in 1 .. Len(queue) : queue'[i] = queue[i]
         /\ queue'[Len(queue) + 1] = m
<1>1. /\ Len(queue') = Len(queue) + 1 /\ Len(queue) \in Nat
      /\ \A i \in 1 .. Len(queue) : queue'[i] = queue[i]
      /\ queue'[Len(queue) + 1] = m
  BY DEF ChannelType
<1>2. 1 .. Len(queue') = (1 .. Len(queue)) \cup {Len(queue) + 1}
  BY <1>1
<1> QED
  BY <1>1, <1>2 DEF Queued

(* The channel after a receive, when no message is in it twice. *)
LEMMA QueuedTail ==
  ASSUME ChannelType, QueuedOnce, queue # <<>>, queue' = Tail(queue)
  PROVE  /\ Queued' = Queued \ {Head(queue)}
         /\ Head(queue) \in Requests \cup {Shutdown}
         /\ Head(queue) \in Requests => Head(queue) \in Queued
         /\ \A i, k \in 1 .. Len(queue') : queue'[i] = queue'[k] => i = k
         /\ \A i \in 1 .. Len(queue') : \E k \in 1 .. Len(queue) : queue'[i] = queue[k]
<1>1. /\ Len(queue) \in Nat \ {0} /\ Len(queue') = Len(queue) - 1
      /\ \A i \in 1 .. Len(queue') : queue'[i] = queue[i + 1]
      /\ Head(queue) = queue[1]
      /\ queue[1] \in Requests \cup {Shutdown}
  BY DEF ChannelType
<1>2. \A i \in 1 .. Len(queue') : i + 1 \in 1 .. Len(queue)
  BY <1>1
<1>3. \A k \in 1 .. Len(queue) : k # 1 => k - 1 \in 1 .. Len(queue') /\ queue[k] = queue'[k - 1]
  BY <1>1
<1>4. \A k \in 1 .. Len(queue) : queue[k] = queue[1] <=> k = 1
  BY <1>1 DEF QueuedOnce
<1>5. Queued' = {r \in Requests : \E k \in 1 .. Len(queue) : k # 1 /\ queue[k] = r}
  BY <1>1, <1>2, <1>3 DEF Queued
<1>6. Queued' = Queued \ {Head(queue)}
  BY <1>1, <1>4, <1>5 DEF Queued
<1>7. Head(queue) \in Requests => Head(queue) \in Queued
  BY <1>1 DEF Queued
<1>8. \A i, k \in 1 .. Len(queue') : queue'[i] = queue'[k] => i = k
  BY <1>1, <1>2 DEF QueuedOnce
<1>9. \A i \in 1 .. Len(queue') : \E k \in 1 .. Len(queue) : queue'[i] = queue[k]
  BY <1>1, <1>2
<1> QED
  BY <1>1, <1>6, <1>7, <1>8, <1>9

LEMMA QueuedStill ==
  ASSUME queue' = queue
  PROVE  Queued' = Queued
  BY DEF Queued

LEMMA HeadType ==
  ASSUME ChannelType, queue # <<>>
  PROVE  Head(queue) \in Requests \cup {Shutdown}
  BY DEF ChannelType

(* The request the worker holds fits where it stands. *)
LEMMA CurStep ==
  ASSUME Typed, CurMatchesPc, [Next]_vars
  PROVE  CurMatchesPc'
<1> USE DEF Typed, clientVars, workerVars, leaseVars, cancelVars
<1>1. ASSUME NEW r \in Requests, SubmitJournal(r) PROVE CurMatchesPc'
  BY <1>1 DEF SubmitJournal, CurMatchesPc, Received
<1>2. ASSUME NEW r \in Requests, SubmitSend(r) PROVE CurMatchesPc'
  BY <1>2 DEF SubmitSend, CurMatchesPc, Received
<1>3. ASSUME NEW r \in Requests, SubmitRefused(r) PROVE CurMatchesPc'
  BY <1>3 DEF SubmitRefused, CurMatchesPc, Received
<1>4. ASSUME NEW r \in Requests, SubmitDropped(r) PROVE CurMatchesPc'
  BY <1>4 DEF SubmitDropped, CurMatchesPc, Received
<1>5. ASSUME NEW r \in Requests, PrivateEnqueue(r) PROVE CurMatchesPc'
  BY <1>5 DEF PrivateEnqueue, CurMatchesPc, Received
<1>6. ASSUME NEW r \in Requests, PrivateGiveUp(r) PROVE CurMatchesPc'
  BY <1>6 DEF PrivateGiveUp, CurMatchesPc, Received
<1>7. ASSUME NEW j \in Jobs, CancelRunning(j) PROVE CurMatchesPc'
  BY <1>7 DEF CancelRunning, CurMatchesPc, Received
<1>8. ASSUME NEW j \in Jobs, CancelMiss(j) PROVE CurMatchesPc'
  BY <1>8 DEF CancelMiss, CurMatchesPc, Received
<1>9. ASSUME NEW j \in Jobs, CancelPersisted(j) PROVE CurMatchesPc'
  BY <1>9 DEF CancelPersisted, CurMatchesPc, Received
<1>10. ASSUME WorkerRecv PROVE CurMatchesPc'
  BY <1>10, HeadType DEF WorkerRecv, CurMatchesPc, Received, JobRequests, WorkerType
<1>11. ASSUME WorkerStop PROVE CurMatchesPc'
  BY <1>11 DEF WorkerStop, CurMatchesPc, Received
<1>12. ASSUME WorkerCheckCancelled PROVE CurMatchesPc'
  BY <1>12 DEF WorkerCheckCancelled, CurMatchesPc, Received
<1>13. ASSUME WorkerGate PROVE CurMatchesPc'
  BY <1>13 DEF WorkerGate, CurMatchesPc, Received
<1>14. ASSUME WorkerReject PROVE CurMatchesPc'
  BY <1>14 DEF WorkerReject, CurMatchesPc, Received
<1>15. ASSUME WorkerWait PROVE CurMatchesPc'
  BY <1>15 DEF WorkerWait, CurMatchesPc, Received
<1>16. ASSUME WorkerDispatch PROVE CurMatchesPc'
  BY <1>16 DEF WorkerDispatch, CurMatchesPc, Received
<1>17. ASSUME WorkerRegister PROVE CurMatchesPc'
  BY <1>17 DEF WorkerRegister, CurMatchesPc, Received
<1>18. ASSUME ExecuteReturns PROVE CurMatchesPc'
  BY <1>18 DEF ExecuteReturns, CurMatchesPc, EndExecution, Received
<1>19. ASSUME ExecuteTimesOut PROVE CurMatchesPc'
  BY <1>19 DEF ExecuteTimesOut, CurMatchesPc, EndExecution, Received
<1>20. ASSUME ExecuteCancelled PROVE CurMatchesPc'
  BY <1>20 DEF ExecuteCancelled, CurMatchesPc, EndExecution, Received
<1>21. ASSUME ListenCheck PROVE CurMatchesPc'
  BY <1>21 DEF ListenCheck, CurMatchesPc, Received
<1>22. ASSUME ListenArm PROVE CurMatchesPc'
  BY <1>22 DEF ListenArm, CurMatchesPc, Received
<1>23. ASSUME WorkerUnregister PROVE CurMatchesPc'
  BY <1>23 DEF WorkerUnregister, CurMatchesPc, Received
<1>24. ASSUME WorkerFinish PROVE CurMatchesPc'
  BY <1>24 DEF WorkerFinish, CurMatchesPc, Received
<1>25. ASSUME WorkerRespond PROVE CurMatchesPc'
  BY <1>25 DEF WorkerRespond, CurMatchesPc, Received
<1>26. ASSUME WorkerFollowUp PROVE CurMatchesPc'
  BY <1>26 DEF WorkerFollowUp, CurMatchesPc, Received
<1>27. ASSUME PrivateCheck PROVE CurMatchesPc'
  BY <1>27 DEF PrivateCheck, CurMatchesPc, Received
<1>28. ASSUME PrivateEnd PROVE CurMatchesPc'
  BY <1>28 DEF PrivateEnd, CurMatchesPc, Received
<1>29. ASSUME DrainTick PROVE CurMatchesPc'
  BY <1>29 DEF DrainTick, CurMatchesPc, Received
<1>30. ASSUME NEW r \in Requests, MonitorTick(r) PROVE CurMatchesPc'
  BY <1>30 DEF MonitorTick, CurMatchesPc, Received
<1>31. ASSUME NEW r \in Requests, RetrySend(r) PROVE CurMatchesPc'
  BY <1>31 DEF RetrySend, CurMatchesPc, Received
<1>32. ASSUME NEW r \in Requests, RetryStopped(r) PROVE CurMatchesPc'
  BY <1>32 DEF RetryStopped, CurMatchesPc, Received
<1>33. ASSUME ShutdownSend PROVE CurMatchesPc'
  BY <1>33 DEF ShutdownSend, CurMatchesPc, Received
<1>34. CASE UNCHANGED vars
  BY <1>34 DEF vars, CurMatchesPc
<1> QED
  BY <1>1, <1>2, <1>3, <1>4, <1>5, <1>6, <1>7, <1>8, <1>9, <1>10, <1>11, <1>12, <1>13, <1>14,
      <1>15, <1>16, <1>17, <1>18, <1>19, <1>20, <1>21, <1>22, <1>23, <1>24, <1>25, <1>26,
      <1>27, <1>28, <1>29, <1>30, <1>31, <1>32, <1>33, <1>34
  DEF Next, ClientStep, CancelStep, WorkerProgress, RetryStep, Quiescent

(* Every move keeps messages apart in the channel. *)
LEMMA QueuedOnceStep ==
  ASSUME Typed, QueuedOnce, PlacesDisjoint, Flow
  PROVE  QueuedOnce'
<1> USE DEF Typed
<1>1. ASSUME queue' = queue, shutdownPc' \in {shutdownPc, "done"} PROVE QueuedOnce'
  BY <1>1 DEF QueuedOnce, ChannelType
<1>2. ASSUME NEW m \in Requests \cup {Shutdown}, queue' = Append(queue, m),
             \A i \in 1 .. Len(queue) : queue[i] # m,
             m = Shutdown => shutdownPc' # "idle",
             m # Shutdown => shutdownPc' = shutdownPc
      PROVE  QueuedOnce'
  <2>1. /\ Len(queue') = Len(queue) + 1 /\ Len(queue) \in Nat
        /\ \A i \in 1 .. Len(queue) : queue'[i] = queue[i]
        /\ queue'[Len(queue) + 1] = m
    BY <1>2, QueuedAppend DEF ChannelType
  <2>2. \A i \in 1 .. Len(queue') : i \in 1 .. Len(queue) \/ i = Len(queue) + 1
    BY <2>1
  <2>3. \A i, k \in 1 .. Len(queue') : queue'[i] = queue'[k] => i = k
    BY <1>2, <2>1, <2>2 DEF QueuedOnce
  <2>4. shutdownPc' = "idle" => \A i \in 1 .. Len(queue') : queue'[i] # Shutdown
    BY <1>2, <2>1, <2>2 DEF QueuedOnce
  <2> QED
    BY <2>3, <2>4 DEF QueuedOnce
<1>3. ASSUME NEW r \in Requests, r \notin Queued, queue' = Append(queue, r),
             shutdownPc' = shutdownPc
      PROVE  QueuedOnce'
  BY <1>2, <1>3, ShutdownAssumption DEF Queued
<1>4. CASE Stay
  BY <1>1, <1>4 DEF Stay
<1>5. CASE Receive
  BY <1>5, QueuedTail DEF Receive, QueuedOnce
<1>6. CASE ParkCur
  BY <1>1, <1>6 DEF ParkCur
<1>7. CASE SendShutdown
  <2>1. \A i \in 1 .. Len(queue) : queue[i] # Shutdown
    BY <1>7 DEF SendShutdown, QueuedOnce
  <2> QED
    BY <1>2, <1>7, <2>1 DEF SendShutdown
<1>8. ASSUME NEW r \in Requests, Move(r) PROVE QueuedOnce'
  <2>1. client[r] # "sent" => r \notin Queued
    BY DEF PlacesDisjoint
  <2> QED
    BY <1>1, <1>3, <1>8, <2>1 DEF Move
<1>9. ASSUME NEW r \in Requests, LeaveRetry(r) PROVE QueuedOnce'
  <2>1. r \notin Queued
    BY <1>9 DEF LeaveRetry, PlacesDisjoint
  <2> QED
    BY <1>1, <1>3, <1>9, <2>1 DEF LeaveRetry
<1> QED
  BY <1>4, <1>5, <1>6, <1>7, <1>8, <1>9 DEF Flow

(* What a move does to the set of queued requests. *)
LEMMA QueuedStep ==
  ASSUME Typed, QueuedOnce
  PROVE  /\ Stay \/ ParkCur \/ SendShutdown => Queued' = Queued
         /\ Receive => /\ Head(queue) \in Requests \cup {Shutdown}
                       /\ Head(queue) \in Requests => Head(queue) \in Queued
                       /\ Queued' = Queued \ {Head(queue)}
         /\ \A r \in Requests : Move(r) \/ LeaveRetry(r) =>
              IF queue' = queue THEN Queued' = Queued
                                ELSE Queued' = Queued \cup {r}
<1> USE DEF Typed
<1>1. Stay \/ ParkCur => Queued' = Queued
  BY QueuedStill DEF Stay, ParkCur
<1>2. SendShutdown => Queued' = Queued
  <2>1. SendShutdown => Queued' = Queued \cup ({Shutdown} \cap Requests)
    BY QueuedAppend DEF SendShutdown
  <2> QED
    BY <2>1, ShutdownAssumption
<1>3. Receive => /\ Head(queue) \in Requests \cup {Shutdown}
                 /\ Head(queue) \in Requests => Head(queue) \in Queued
                 /\ Queued' = Queued \ {Head(queue)}
  BY QueuedTail DEF Receive
<1>4. ASSUME NEW r \in Requests, queue' = Append(queue, r)
      PROVE  Queued' = Queued \cup {r}
  <2>1. Queued' = Queued \cup ({r} \cap Requests)
    BY <1>4, QueuedAppend
  <2> QED
    BY <2>1
<1>5. ASSUME NEW r \in Requests, Move(r) \/ LeaveRetry(r)
      PROVE  queue' = queue \/ queue' = Append(queue, r)
  BY <1>5 DEF Move, LeaveRetry
<1> QED
  BY <1>1, <1>2, <1>3, <1>4, <1>5, QueuedStill

(* Every move keeps the places of requests apart. *)
LEMMA PlacesStep ==
  ASSUME Typed, QueuedOnce, PlacesDisjoint, Flow
  PROVE  PlacesDisjoint'
<1> USE RequestsAssumption DEF Typed, ClientType, LeaseType, WorkerType
<1>0. Queued \subseteq Requests /\ retry \subseteq Requests
  BY DEF Queued, JobRequests
<1>1. CASE Stay
  <2>1. Queued' = Queued
    BY <1>1, QueuedStep
  <2> QED
    BY <1>0, <1>1, <2>1 DEF Stay, PlacesDisjoint
<1>2. CASE Receive
  <2>1. \A r \in Queued' : client'[r] = "sent" /\ r \notin retry' /\ r # cur'
    BY <1>2, QueuedStep DEF Receive, PlacesDisjoint
  <2>2. \A r \in retry' : client'[r] = "sent" /\ r # cur'
    BY <1>2, QueuedStep DEF Receive, PlacesDisjoint
  <2>3. cur' # None => client'[cur'] = "sent"
    BY <1>2, QueuedStep DEF Receive, PlacesDisjoint
  <2> QED
    BY <2>1, <2>2, <2>3 DEF PlacesDisjoint
<1>3. CASE ParkCur
  <2>1. Queued' = Queued
    BY <1>3, QueuedStep
  <2> QED
    BY <1>0, <1>3, <2>1 DEF ParkCur, PlacesDisjoint
<1>4. CASE SendShutdown
  BY <1>4, QueuedStep DEF SendShutdown, PlacesDisjoint
<1>5. ASSUME NEW r \in Requests, Move(r) PROVE PlacesDisjoint'
  <2>1. r \notin Queued /\ r \notin retry /\ r # cur
    BY <1>5 DEF Move, PlacesDisjoint
  <2>2. \A q \in Requests : q # r => client'[q] = client[q]
    BY <1>5 DEF Move
  <2>3. queue' # queue => client'[r] = "sent"
    BY <1>5 DEF Move
  <2>4. Queued' \subseteq Queued \cup {r} /\ (queue' = queue => Queued' = Queued)
    BY <1>5, QueuedStep
  <2>5. UNCHANGED <<retry, cur>>
    BY <1>5 DEF Move
  <2> QED
    BY <2>1, <2>2, <2>3, <2>4, <2>5, <1>0 DEF PlacesDisjoint
<1>6. ASSUME NEW r \in Requests, LeaveRetry(r) PROVE PlacesDisjoint'
  <2>1. Queued' \subseteq Queued \cup {r}
    BY <1>6, QueuedStep
  <2> QED
    BY <1>6, <2>1 DEF LeaveRetry, PlacesDisjoint
<1> QED
  BY <1>1, <1>2, <1>3, <1>4, <1>5, <1>6 DEF Flow

(* The requests a connection task has counted and not yet sent. *)
Unsent == {r \in Requests : client[r] = "journalled"}

(* Adding and removing an element changes a cardinality by one. *)
LEMMA AddOne ==
  ASSUME NEW S, IsFiniteSet(S), NEW x, x \notin S
  PROVE  Cardinality(S \cup {x}) = Cardinality(S) + 1
  BY FS_AddElement

LEMMA RemoveOne ==
  ASSUME NEW S, IsFiniteSet(S), NEW x \in S
  PROVE  Cardinality(S \ {x}) = Cardinality(S) - 1
  BY FS_RemoveElement

(* The requests in the channel that queue_depth counts. *)
Counted == Queued \ PreflightRequests

(* Every move adjusts the counter by what it does to the three sets. *)
LEMMA DepthStep ==
  ASSUME Typed, QueuedOnce, PlacesDisjoint, QueueDepthExact, Flow
  PROVE  QueueDepthExact' /\ depth' \in Nat
<1> USE RequestsAssumption DEF Typed
<1>1. /\ Unsent \subseteq Requests /\ Queued \subseteq Requests /\ Counted \subseteq Requests
      /\ Unsent' \subseteq Requests /\ Queued' \subseteq Requests /\ Counted' \subseteq Requests
      /\ retry \subseteq Requests
  BY DEF Unsent, Queued, Counted, LeaseType, JobRequests
<1>2. \A S : S \subseteq Requests => IsFiniteSet(S) /\ Cardinality(S) \in Nat
  BY FS_Subset, FS_CardinalityType
<1>22. /\ Cardinality(Unsent) \in Nat /\ Cardinality(Counted) \in Nat
       /\ Cardinality(retry) \in Nat
  BY <1>1, <1>2
<1>3. depth = Cardinality(Unsent) + Cardinality(Counted) + Cardinality(retry)
  BY DEF QueueDepthExact, Unsent, Counted
<1>4. SUFFICES depth' = Cardinality(Unsent') + Cardinality(Counted') + Cardinality(retry')
              /\ retry' \subseteq Requests
  BY <1>1, <1>2 DEF QueueDepthExact, Unsent, Counted
<1>5. ASSUME client' = client PROVE Unsent' = Unsent
  BY <1>5 DEF Unsent
<1>55. ASSUME Queued' = Queued PROVE Counted' = Counted
  BY <1>55 DEF Counted
<1>6. CASE Stay
  BY <1>1, <1>3, <1>5, <1>55, <1>6, QueuedStep DEF Stay
<1>7. CASE Receive
  <2>1. CASE Head(queue) = Shutdown
    <3>1. Queued' = Queued
      BY <1>7, <2>1, <1>1, QueuedStep, ShutdownAssumption
    <3> QED
      BY <1>1, <1>3, <1>5, <1>55, <1>7, <2>1, <3>1 DEF Receive
  <2>2. CASE Head(queue) \in PreflightRequests
    <3>1. Queued' = Queued \ {Head(queue)}
      BY <1>7, QueuedStep
    <3>2. Counted' = Counted
      BY <2>2, <3>1 DEF Counted
    <3> QED
      BY <1>1, <1>2, <1>3, <1>5, <1>7, <2>2, <3>2 DEF Receive
  <2>3. CASE Head(queue) # Shutdown /\ Head(queue) \notin PreflightRequests
    <3>1. Head(queue) \in Queued /\ Queued' = Queued \ {Head(queue)}
      BY <1>7, <2>3, QueuedStep
    <3>2. Head(queue) \in Counted /\ Counted' = Counted \ {Head(queue)}
      BY <2>3, <3>1 DEF Counted
    <3>3. Cardinality(Counted') = Cardinality(Counted) - 1
      BY <1>1, <1>2, <3>2, RemoveOne
    <3> QED
      BY <1>1, <1>22, <1>3, <1>5, <1>7, <2>3, <3>3 DEF Receive
  <2> QED
    BY <2>1, <2>2, <2>3
<1>8. CASE ParkCur
  <2>1. cur \in Requests /\ cur \notin retry
    BY <1>8 DEF ParkCur, WorkerType, PlacesDisjoint
  <2>2. Cardinality(retry') = Cardinality(retry) + 1
    BY <1>1, <1>2, <1>8, <2>1, AddOne DEF ParkCur
  <2>3. Counted' = Counted /\ Unsent' = Unsent
    BY <1>5, <1>55, <1>8, QueuedStep DEF ParkCur
  <2> QED
    BY <1>1, <1>2, <1>3, <1>8, <2>1, <2>2, <2>3 DEF ParkCur
<1>9. CASE SendShutdown
  BY <1>1, <1>3, <1>5, <1>55, <1>9, QueuedStep DEF SendShutdown
<1>10. ASSUME NEW r \in Requests, Move(r)
       PROVE  depth' = Cardinality(Unsent') + Cardinality(Counted') + Cardinality(retry')
              /\ retry' \subseteq Requests
  <2>1. r \notin Queued /\ retry' = retry
    BY <1>10 DEF Move, PlacesDisjoint
  <2>2. IF queue' = queue THEN Queued' = Queued ELSE Queued' = Queued \cup {r}
    BY <1>10, QueuedStep
  <2>3. /\ queue' = queue => Cardinality(Counted') = Cardinality(Counted)
        /\ queue' # queue /\ r \in PreflightRequests
             => Cardinality(Counted') = Cardinality(Counted)
        /\ queue' # queue /\ r \notin PreflightRequests
             => Cardinality(Counted') = Cardinality(Counted) + 1
    <3>1. CASE queue' = queue \/ r \in PreflightRequests
      <4>1. Counted' = Counted
        BY <2>2, <3>1 DEF Counted
      <4> QED
        BY <3>1, <4>1
    <3>2. CASE queue' # queue /\ r \notin PreflightRequests
      <4>1. r \notin Counted /\ Counted' = Counted \cup {r}
        BY <2>1, <2>2, <3>2 DEF Counted
      <4> QED
        BY <1>1, <1>2, <3>2, <4>1, AddOne
    <3> QED
      BY <3>1, <3>2
  <2>4. queue' = Append(queue, r) => queue' # queue
    BY DEF ChannelType
  <2>5. CASE client[r] = "new" /\ client' = [client EXCEPT ![r] = "journalled"]
    <3>1. r \notin Unsent /\ Unsent' = Unsent \cup {r}
      BY <2>5 DEF Unsent, ClientType
    <3>2. Cardinality(Unsent') = Cardinality(Unsent) + 1
      BY <1>1, <1>2, <3>1, AddOne
    <3>3. depth' = depth + 1 /\ queue' = queue
      BY <1>10, <2>5 DEF Move, ClientType
    <3> QED
      BY <1>1, <1>2, <1>3, <2>1, <2>3, <3>2, <3>3
  <2>6. CASE client[r] = "new" /\ \E c \in {"sent", "full", "closed"} :
                                    client' = [client EXCEPT ![r] = c]
    <3>1. Unsent' = Unsent
      BY <2>6 DEF Unsent, ClientType
    <3>2. \/ /\ depth' = IF r \in PreflightRequests THEN depth ELSE depth + 1
             /\ queue' = Append(queue, r)
          \/ depth' = depth /\ queue' = queue
      BY <1>10, <2>6 DEF Move, ClientType
    <3>3. \/ depth' = depth + 1 /\ Cardinality(Counted') = Cardinality(Counted) + 1
          \/ depth' = depth /\ Cardinality(Counted') = Cardinality(Counted)
      BY <2>3, <2>4, <3>2
    <3> QED
      BY <1>1, <1>2, <1>3, <2>1, <3>1, <3>3
  <2>7. CASE client[r] = "journalled"
    <3>1. \E c \in {"sent", "full", "closed"} : client' = [client EXCEPT ![r] = c]
      BY <1>10, <2>7 DEF Move
    <3>2. r \in Unsent /\ Unsent' = Unsent \ {r}
      BY <2>7, <3>1 DEF Unsent, ClientType
    <3>3. Cardinality(Unsent') = Cardinality(Unsent) - 1
      BY <1>1, <1>2, <3>2, RemoveOne
    <3>4. \/ depth' = depth /\ queue' = Append(queue, r) /\ r \notin PreflightRequests
          \/ depth' = depth - 1 /\ queue' = queue
      BY <1>10, <2>7 DEF Move
    <3>5. \/ depth' = depth /\ Cardinality(Counted') = Cardinality(Counted) + 1
          \/ depth' = depth - 1 /\ Cardinality(Counted') = Cardinality(Counted)
      BY <2>3, <2>4, <3>4
    <3> QED
      BY <1>1, <1>22, <1>3, <2>1, <3>3, <3>5
  <2> QED
    BY <1>10, <2>5, <2>6, <2>7 DEF Move
<1>11. ASSUME NEW r \in Requests, LeaveRetry(r)
       PROVE  depth' = Cardinality(Unsent') + Cardinality(Counted') + Cardinality(retry')
              /\ retry' \subseteq Requests
  <2>1. /\ r \in retry /\ retry' = retry \ {r} /\ Unsent' = Unsent
        /\ r \notin Queued /\ r \notin PreflightRequests
    BY <1>5, <1>11 DEF LeaveRetry, PlacesDisjoint, LeaseType, JobRequests
  <2>2. Cardinality(retry') = Cardinality(retry) - 1
    BY <1>1, <1>2, <2>1, RemoveOne
  <2>3. /\ r \notin Counted
        /\ IF queue' = queue THEN Counted' = Counted ELSE Counted' = Counted \cup {r}
    BY <1>11, <2>1, QueuedStep DEF Counted
  <2>4. Cardinality(Counted \cup {r}) = Cardinality(Counted) + 1
    BY <1>1, <1>2, <2>3, AddOne
  <2>5. queue' = Append(queue, r) => queue' # queue
    BY DEF ChannelType
  <2>6. \/ depth' = depth /\ queue' = Append(queue, r)
        \/ depth' = depth - 1 /\ queue' = queue
    BY <1>11 DEF LeaveRetry
  <2>7. \/ depth' = depth /\ Cardinality(Counted') = Cardinality(Counted) + 1
        \/ depth' = depth - 1 /\ Cardinality(Counted') = Cardinality(Counted)
    BY <2>3, <2>4, <2>5, <2>6
  <2>8. retry' \subseteq Requests
    BY <1>1, <2>1
  <2> QED
    BY <1>1, <1>2, <1>3, <2>1, <2>2, <2>7, <2>8
<1> QED
  BY <1>6, <1>7, <1>8, <1>9, <1>10, <1>11 DEF Flow

-----------------------------------------------------------------------------
(* The inductive invariant: the counter alone is not inductive, since a     *)
(* request in two places would be counted once and left twice.              *)
Inductive == TypeOK /\ OnePlace /\ QueueDepthExact

LEMMA InductiveInit == Init => Inductive
<1> SUFFICES ASSUME Init PROVE Inductive
  OBVIOUS
<1> USE DEF Init
<1>1. ClientType /\ WorkerType /\ LeaseType /\ CancelType
  BY RequestsAssumption
  DEF ClientType, WorkerType, LeaseType, CancelType, Answers, Outcomes, WorkerPcs
<1>2. ChannelType /\ Len(queue) = 0
  BY DEF ChannelType
<1>3. JournalType /\ depth \in Nat
  BY DEF JournalType, Record, Absent
<1>4. Queued = {}
  BY <1>2 DEF Queued
<1>5. OnePlace
  BY <1>2, <1>4 DEF OnePlace, CurMatchesPc, Received, QueuedOnce, PlacesDisjoint
<1>6. QueueDepthExact
  <2>1. Unsent = {} /\ retry = {} /\ depth = 0
    BY DEF Unsent
  <2> HIDE DEF Init
  <2> QED
    BY <1>4, <2>1, FS_EmptySet DEF QueueDepthExact, Unsent
<1> QED
  BY <1>1, <1>2, <1>3, <1>5, <1>6 DEF Inductive, TypeOK

LEMMA InductiveStep == Inductive /\ [Next]_vars => Inductive'
<1> SUFFICES ASSUME Inductive, [Next]_vars PROVE Inductive'
  OBVIOUS
<1>1. Typed /\ CurMatchesPc /\ QueuedOnce /\ PlacesDisjoint /\ QueueDepthExact
  BY DEF Inductive, TypeOK, Typed, OnePlace
<1>2. Flow
  BY <1>1, StepIsFlow
<1>3. Typed'
  BY <1>1, JournalTypeStep, OtherTypesStep DEF Typed
<1>4. OnePlace'
  BY <1>1, <1>2, CurStep, QueuedOnceStep, PlacesStep DEF OnePlace
<1>5. QueueDepthExact' /\ depth' \in Nat
  BY <1>1, <1>2, DepthStep
<1> QED
  BY <1>3, <1>4, <1>5 DEF Inductive, TypeOK, Typed

(* The inductive invariant holds of every behaviour. *)
LEMMA InductiveInvariant == Spec => []Inductive
  BY InductiveInit, InductiveStep, PTL DEF Spec

(* Every variable keeps its type; in particular queue_depth, a usize that   *)
(* is decremented by three different tasks, never goes below zero.          *)
THEOREM TypeCorrect == Spec => []TypeOK
<1>1. Inductive => TypeOK
  BY DEF Inductive
<1> QED
  BY <1>1, InductiveInvariant, PTL

(* queue_depth counts exactly the requests that are journalled and not yet  *)
(* sent, in the channel, or parked in a lease-retry task.                   *)
THEOREM QueueDepthCorrect == Spec => []QueueDepthExact
<1>1. Inductive => QueueDepthExact
  BY DEF Inductive
<1> QED
  BY <1>1, InductiveInvariant, PTL

(* The token map follows the worker through registration and removal. *)
LEMMA TokenStep ==
  ASSUME Typed, CurMatchesPc, TokenOfRunningJob, [Next]_vars
  PROVE  TokenOfRunningJob'
<1> USE RequestsAssumption, JobsAssumption
    DEF Typed, WorkerType, JobRequests, clientVars, workerVars, leaseVars, cancelVars
<1>1. ASSUME NEW r \in Requests, SubmitJournal(r) PROVE TokenOfRunningJob'
  BY <1>1 DEF SubmitJournal, TokenOfRunningJob, CurMatchesPc, Received
<1>2. ASSUME NEW r \in Requests, SubmitSend(r) PROVE TokenOfRunningJob'
  BY <1>2 DEF SubmitSend, TokenOfRunningJob, CurMatchesPc, Received
<1>3. ASSUME NEW r \in Requests, SubmitRefused(r) PROVE TokenOfRunningJob'
  BY <1>3 DEF SubmitRefused, TokenOfRunningJob, CurMatchesPc, Received
<1>4. ASSUME NEW r \in Requests, SubmitDropped(r) PROVE TokenOfRunningJob'
  BY <1>4 DEF SubmitDropped, TokenOfRunningJob, CurMatchesPc, Received
<1>5. ASSUME NEW r \in Requests, PrivateEnqueue(r) PROVE TokenOfRunningJob'
  BY <1>5 DEF PrivateEnqueue, TokenOfRunningJob, CurMatchesPc, Received
<1>6. ASSUME NEW r \in Requests, PrivateGiveUp(r) PROVE TokenOfRunningJob'
  BY <1>6 DEF PrivateGiveUp, TokenOfRunningJob, CurMatchesPc, Received
<1>7. ASSUME NEW j \in Jobs, CancelRunning(j) PROVE TokenOfRunningJob'
  BY <1>7 DEF CancelRunning, TokenOfRunningJob, CurMatchesPc, Received
<1>8. ASSUME NEW j \in Jobs, CancelMiss(j) PROVE TokenOfRunningJob'
  BY <1>8 DEF CancelMiss, TokenOfRunningJob, CurMatchesPc, Received
<1>9. ASSUME NEW j \in Jobs, CancelPersisted(j) PROVE TokenOfRunningJob'
  BY <1>9 DEF CancelPersisted, TokenOfRunningJob, CurMatchesPc, Received
<1>10. ASSUME WorkerRecv PROVE TokenOfRunningJob'
  BY <1>10 DEF WorkerRecv, TokenOfRunningJob, CurMatchesPc, Received
<1>11. ASSUME WorkerStop PROVE TokenOfRunningJob'
  BY <1>11 DEF WorkerStop, TokenOfRunningJob, CurMatchesPc, Received
<1>12. ASSUME WorkerCheckCancelled PROVE TokenOfRunningJob'
  BY <1>12 DEF WorkerCheckCancelled, TokenOfRunningJob, CurMatchesPc, Received
<1>13. ASSUME WorkerGate PROVE TokenOfRunningJob'
  BY <1>13 DEF WorkerGate, TokenOfRunningJob, CurMatchesPc, Received
<1>14. ASSUME WorkerReject PROVE TokenOfRunningJob'
  BY <1>14 DEF WorkerReject, TokenOfRunningJob, CurMatchesPc, Received
<1>15. ASSUME WorkerWait PROVE TokenOfRunningJob'
  BY <1>15 DEF WorkerWait, TokenOfRunningJob, CurMatchesPc, Received
<1>16. ASSUME WorkerDispatch PROVE TokenOfRunningJob'
  BY <1>16 DEF WorkerDispatch, TokenOfRunningJob, CurMatchesPc, Received
<1>17. ASSUME WorkerRegister PROVE TokenOfRunningJob'
  BY <1>17 DEF WorkerRegister, TokenOfRunningJob, CurMatchesPc, Received
<1>18. ASSUME ExecuteReturns PROVE TokenOfRunningJob'
  BY <1>18 DEF ExecuteReturns, TokenOfRunningJob, CurMatchesPc, Received, EndExecution
<1>19. ASSUME ExecuteTimesOut PROVE TokenOfRunningJob'
  BY <1>19 DEF ExecuteTimesOut, TokenOfRunningJob, CurMatchesPc, Received, EndExecution
<1>20. ASSUME ExecuteCancelled PROVE TokenOfRunningJob'
  BY <1>20 DEF ExecuteCancelled, TokenOfRunningJob, CurMatchesPc, Received, EndExecution
<1>21. ASSUME ListenCheck PROVE TokenOfRunningJob'
  BY <1>21 DEF ListenCheck, TokenOfRunningJob, CurMatchesPc, Received
<1>22. ASSUME ListenArm PROVE TokenOfRunningJob'
  BY <1>22 DEF ListenArm, TokenOfRunningJob, CurMatchesPc, Received
<1>23. ASSUME WorkerUnregister PROVE TokenOfRunningJob'
  BY <1>23 DEF WorkerUnregister, TokenOfRunningJob, CurMatchesPc, Received
<1>24. ASSUME WorkerFinish PROVE TokenOfRunningJob'
  BY <1>24 DEF WorkerFinish, TokenOfRunningJob, CurMatchesPc, Received
<1>25. ASSUME WorkerRespond PROVE TokenOfRunningJob'
  BY <1>25 DEF WorkerRespond, TokenOfRunningJob, CurMatchesPc, Received
<1>26. ASSUME WorkerFollowUp PROVE TokenOfRunningJob'
  BY <1>26 DEF WorkerFollowUp, TokenOfRunningJob, CurMatchesPc, Received
<1>27. ASSUME PrivateCheck PROVE TokenOfRunningJob'
  BY <1>27 DEF PrivateCheck, TokenOfRunningJob, CurMatchesPc, Received
<1>28. ASSUME PrivateEnd PROVE TokenOfRunningJob'
  BY <1>28 DEF PrivateEnd, TokenOfRunningJob, CurMatchesPc, Received
<1>29. ASSUME DrainTick PROVE TokenOfRunningJob'
  BY <1>29 DEF DrainTick, TokenOfRunningJob, CurMatchesPc, Received
<1>30. ASSUME NEW r \in Requests, MonitorTick(r) PROVE TokenOfRunningJob'
  BY <1>30 DEF MonitorTick, TokenOfRunningJob, CurMatchesPc, Received
<1>31. ASSUME NEW r \in Requests, RetrySend(r) PROVE TokenOfRunningJob'
  BY <1>31 DEF RetrySend, TokenOfRunningJob, CurMatchesPc, Received
<1>32. ASSUME NEW r \in Requests, RetryStopped(r) PROVE TokenOfRunningJob'
  BY <1>32 DEF RetryStopped, TokenOfRunningJob, CurMatchesPc, Received
<1>33. ASSUME ShutdownSend PROVE TokenOfRunningJob'
  BY <1>33 DEF ShutdownSend, TokenOfRunningJob, CurMatchesPc, Received
<1>34. CASE UNCHANGED vars
  BY <1>34 DEF vars, TokenOfRunningJob
<1> QED
  BY <1>1, <1>2, <1>3, <1>4, <1>5, <1>6, <1>7, <1>8, <1>9, <1>10, <1>11, <1>12, <1>13, <1>14,
      <1>15, <1>16, <1>17, <1>18, <1>19, <1>20, <1>21, <1>22, <1>23, <1>24, <1>25, <1>26,
      <1>27, <1>28, <1>29, <1>30, <1>31, <1>32, <1>33, <1>34
  DEF Next, ClientStep, CancelStep, WorkerProgress, RetryStep, Quiescent

(* The map `service cancel' consults holds the token of the job that is     *)
(* being executed and of no other.                                          *)
THEOREM TokenCorrect == Spec => []TokenOfRunningJob
<1>1. Init => TokenOfRunningJob
  BY DEF Init, TokenOfRunningJob
<1>2. Inductive /\ TokenOfRunningJob /\ [Next]_vars => TokenOfRunningJob'
  BY TokenStep DEF Inductive, TypeOK, Typed, OnePlace
<1> QED
  BY <1>1, <1>2, InductiveInvariant, PTL DEF Spec

-----------------------------------------------------------------------------
(* What has been told and executed, by place. *)

(* A request that its connection task still has, that is in the channel or  *)
(* in a retry task, or that the worker has not dispatched yet, has not been *)
(* executed, and its caller has not been answered, except by the end of a   *)
(* stopped worker's channel.                                                *)
EarlyPcs == {"received", "gate", "reject", "wait", "dispatch", "register"}
LatePcs  == {"execute", "unregister", "finish", "respond"}
Untouched(r) == answer[r] = "none" /\ r \notin executed
UnservedOutside ==
  \A r \in Requests :
    /\ client[r] # "sent" => r \notin executed /\ waits[r] = 0
    /\ client[r] \in {"new", "journalled"} => answer[r] = "none"
    /\ r \in retry => Untouched(r)
    /\ r \in Queued =>
         /\ r \notin executed
         /\ r \in JobRequests => answer[r] = "none" \/ (Stopped /\ answer[r] = "dropped")
UnservedInside ==
  /\ wpc \in EarlyPcs => Untouched(cur)
  /\ wpc \in LatePcs => answer[cur] = "none" /\ cur \in executed
  /\ wpc \in {"unregister", "finish", "respond"} => outcome # "none"
  /\ wpc = "follow_up" => answer[cur] # "none" /\ cur \in executed
  /\ wpc = "private_check" => cur \notin executed

(* The waiting for a lease is over when the worker lets the request pass. *)
WaitOver ==
  \A r \in LeaseRequests :
    (/\ waits[r] > 0
     /\ \/ r \in executed
        \/ answer[r] \notin {"none", "dropped"}
        \/ (r = cur /\ wpc \in {"dispatch", "reject", "register"}))
    => waitEvent[r] = "ended"

(* The requests that are in the channel after a step. *)
LEMMA QueuedFrom ==
  ASSUME Typed, CurMatchesPc, QueuedOnce, [Next]_vars,
         NEW r \in Requests, r \in Queued'
  PROVE  r \in Queued \/ (client[r] # "sent" /\ client'[r] = "sent") \/ r \in retry
<1>1. Flow
  BY StepIsFlow
<1>2. CASE Stay \/ ParkCur \/ SendShutdown
  BY <1>2, QueuedStep
<1>3. CASE Receive
  BY <1>3, QueuedStep
<1>4. ASSUME NEW q \in Requests, Move(q)
      PROVE  (client[q] # "sent" /\ client'[q] = "sent") \/ queue' = queue
  BY <1>4 DEF Move, Typed, ClientType
<1>5. ASSUME NEW q \in Requests, LeaveRetry(q)
      PROVE  q \in retry
  BY <1>5 DEF LeaveRetry
<1>6. CASE \E q \in Requests : Move(q) \/ LeaveRetry(q)
  BY <1>4, <1>5, <1>6, QueuedStep
<1> QED
  BY <1>1, <1>2, <1>3, <1>6 DEF Flow

(* A request the worker takes from the channel was in it. *)
LEMMA ReceivedFrom ==
  ASSUME Typed, CurMatchesPc, QueuedOnce, [Next]_vars, WorkerRecv
  PROVE  cur = None /\ (cur' = None \/ cur' \in Queued)
<1>1. queue # <<>> /\ queue' = Tail(queue) /\ cur = None
  BY DEF WorkerRecv, CurMatchesPc
<1>2. Head(queue) \in Requests => Head(queue) \in Queued
  BY <1>1, QueuedTail DEF Typed
<1>3. Head(queue) \in Requests \cup {Shutdown}
  BY <1>1, HeadType DEF Typed
<1> QED
  BY <1>1, <1>2, <1>3 DEF WorkerRecv

(* Every action keeps the requests outside the worker unserved. *)
LEMMA OutsideStep ==
  ASSUME Typed, CurMatchesPc, QueuedOnce, PlacesDisjoint, UnservedOutside, UnservedInside,
         [Next]_vars
  PROVE  UnservedOutside'
<1> USE RequestsAssumption DEF Typed, ClientType, LeaseType, WorkerType, clientVars,
    workerVars, leaseVars, cancelVars
<1>0. ASSUME NEW r \in Requests, r \in Queued'
      PROVE  r \in Queued \/ (client[r] # "sent" /\ client'[r] = "sent") \/ r \in retry
  BY <1>0, QueuedFrom
<1>99. Queued \subseteq Requests
  BY DEF Queued
<1>1. ASSUME NEW r \in Requests, SubmitJournal(r) PROVE UnservedOutside'
  BY <1>1, <1>0, <1>99
  DEF SubmitJournal, UnservedOutside, UnservedInside, Untouched, PlacesDisjoint, CurMatchesPc,
      Received, JobRequests, ClientRequests, Stopped, EarlyPcs, LatePcs
<1>2. ASSUME NEW r \in Requests, SubmitSend(r) PROVE UnservedOutside'
  BY <1>2, <1>0, <1>99
  DEF SubmitSend, UnservedOutside, UnservedInside, Untouched, PlacesDisjoint, CurMatchesPc,
      Received, JobRequests, ClientRequests, Stopped, EarlyPcs, LatePcs
<1>3. ASSUME NEW r \in Requests, SubmitRefused(r) PROVE UnservedOutside'
  BY <1>3, <1>0, <1>99
  DEF SubmitRefused, PersistFailed, Answer, UnservedOutside, UnservedInside, Untouched,
      PlacesDisjoint, CurMatchesPc, Received, JobRequests, ClientRequests, Stopped, EarlyPcs,
      LatePcs
<1>4. ASSUME NEW r \in Requests, SubmitDropped(r) PROVE UnservedOutside'
  BY <1>4, <1>0, <1>99
  DEF SubmitDropped, Answer, UnservedOutside, UnservedInside, Untouched, PlacesDisjoint,
      CurMatchesPc, Received, JobRequests, ClientRequests, Stopped, EarlyPcs, LatePcs
<1>5. ASSUME NEW r \in Requests, PrivateEnqueue(r) PROVE UnservedOutside'
  BY <1>5, <1>0, <1>99
  DEF PrivateEnqueue, Answer, UnservedOutside, UnservedInside, Untouched, PlacesDisjoint,
      CurMatchesPc, Received, JobRequests, ClientRequests, Stopped, EarlyPcs, LatePcs
<1>6. ASSUME NEW r \in Requests, PrivateGiveUp(r) PROVE UnservedOutside'
  BY <1>6, <1>0, <1>99
  DEF PrivateGiveUp, Answer, UnservedOutside, UnservedInside, Untouched, PlacesDisjoint,
      CurMatchesPc, Received, JobRequests, ClientRequests, Stopped, EarlyPcs, LatePcs
<1>7. ASSUME NEW j \in Jobs, CancelRunning(j) PROVE UnservedOutside'
  BY <1>7, <1>0, <1>99
  DEF CancelRunning, UnservedOutside, UnservedInside, Untouched, PlacesDisjoint, CurMatchesPc,
      Received, JobRequests, ClientRequests, Stopped, EarlyPcs, LatePcs
<1>8. ASSUME NEW j \in Jobs, CancelMiss(j) PROVE UnservedOutside'
  BY <1>8, <1>0, <1>99
  DEF CancelMiss, UnservedOutside, UnservedInside, Untouched, PlacesDisjoint, CurMatchesPc,
      Received, JobRequests, ClientRequests, Stopped, EarlyPcs, LatePcs
<1>9. ASSUME NEW j \in Jobs, CancelPersisted(j) PROVE UnservedOutside'
  BY <1>9, <1>0, <1>99
  DEF CancelPersisted, UnservedOutside, UnservedInside, Untouched, PlacesDisjoint,
      CurMatchesPc, Received, JobRequests, ClientRequests, Stopped, EarlyPcs, LatePcs
<1>10. ASSUME WorkerRecv PROVE UnservedOutside'
  BY <1>10, <1>0, <1>99
  DEF WorkerRecv, CountOut, UnservedOutside, UnservedInside, Untouched, PlacesDisjoint,
      CurMatchesPc, Received, JobRequests, ClientRequests, Stopped, EarlyPcs, LatePcs
<1>11. ASSUME WorkerStop PROVE UnservedOutside'
  BY <1>11, <1>0, <1>99
  DEF WorkerStop, UnservedOutside, UnservedInside, Untouched, PlacesDisjoint, CurMatchesPc,
      Received, JobRequests, ClientRequests, Stopped, EarlyPcs, LatePcs
<1>12. ASSUME WorkerCheckCancelled PROVE UnservedOutside'
  BY <1>12, <1>0, <1>99
  DEF WorkerCheckCancelled, Answer, EndWait, UnservedOutside, UnservedInside, Untouched,
      PlacesDisjoint, CurMatchesPc, Received, JobRequests, ClientRequests, Stopped, EarlyPcs,
      LatePcs
<1>13. ASSUME WorkerGate PROVE UnservedOutside'
  BY <1>13, <1>0, <1>99
  DEF WorkerGate, EndWait, UnservedOutside, UnservedInside, Untouched, PlacesDisjoint,
      CurMatchesPc, Received, JobRequests, ClientRequests, Stopped, EarlyPcs, LatePcs
<1>14. ASSUME WorkerReject PROVE UnservedOutside'
  BY <1>14, <1>0, <1>99
  DEF WorkerReject, PersistFailed, Answer, UnservedOutside, UnservedInside, Untouched,
      PlacesDisjoint, CurMatchesPc, Received, JobRequests, ClientRequests, Stopped, EarlyPcs,
      LatePcs
<1>15. ASSUME WorkerWait PROVE UnservedOutside'
  BY <1>15, <1>0, <1>99
  DEF WorkerWait, Park, UnservedOutside, UnservedInside, Untouched, PlacesDisjoint,
      CurMatchesPc, Received, JobRequests, ClientRequests, Stopped, EarlyPcs, LatePcs
<1>16. ASSUME WorkerDispatch PROVE UnservedOutside'
  BY <1>16, <1>0, <1>99
  DEF WorkerDispatch, UnservedOutside, UnservedInside, Untouched, PlacesDisjoint, CurMatchesPc,
      Received, JobRequests, ClientRequests, Stopped, EarlyPcs, LatePcs
<1>17. ASSUME WorkerRegister PROVE UnservedOutside'
  BY <1>17, <1>0, <1>99
  DEF WorkerRegister, UnservedOutside, UnservedInside, Untouched, PlacesDisjoint, CurMatchesPc,
      Received, JobRequests, ClientRequests, Stopped, EarlyPcs, LatePcs
<1>18. ASSUME ExecuteReturns PROVE UnservedOutside'
  BY <1>18, <1>0, <1>99
  DEF ExecuteReturns, EndExecution, UnservedOutside, UnservedInside, Untouched, PlacesDisjoint,
      CurMatchesPc, Received, JobRequests, ClientRequests, Stopped, EarlyPcs, LatePcs
<1>19. ASSUME ExecuteTimesOut PROVE UnservedOutside'
  BY <1>19, <1>0, <1>99
  DEF ExecuteTimesOut, EndExecution, UnservedOutside, UnservedInside, Untouched,
      PlacesDisjoint, CurMatchesPc, Received, JobRequests, ClientRequests, Stopped, EarlyPcs,
      LatePcs
<1>20. ASSUME ExecuteCancelled PROVE UnservedOutside'
  BY <1>20, <1>0, <1>99
  DEF ExecuteCancelled, EndExecution, UnservedOutside, UnservedInside, Untouched,
      PlacesDisjoint, CurMatchesPc, Received, JobRequests, ClientRequests, Stopped, EarlyPcs,
      LatePcs
<1>21. ASSUME ListenCheck PROVE UnservedOutside'
  BY <1>21, <1>0, <1>99
  DEF ListenCheck, UnservedOutside, UnservedInside, Untouched, PlacesDisjoint, CurMatchesPc,
      Received, JobRequests, ClientRequests, Stopped, EarlyPcs, LatePcs
<1>22. ASSUME ListenArm PROVE UnservedOutside'
  BY <1>22, <1>0, <1>99
  DEF ListenArm, UnservedOutside, UnservedInside, Untouched, PlacesDisjoint, CurMatchesPc,
      Received, JobRequests, ClientRequests, Stopped, EarlyPcs, LatePcs
<1>23. ASSUME WorkerUnregister PROVE UnservedOutside'
  BY <1>23, <1>0, <1>99
  DEF WorkerUnregister, UnservedOutside, UnservedInside, Untouched, PlacesDisjoint,
      CurMatchesPc, Received, JobRequests, ClientRequests, Stopped, EarlyPcs, LatePcs
<1>24. ASSUME WorkerFinish PROVE UnservedOutside'
  BY <1>24, <1>0, <1>99
  DEF WorkerFinish, UnservedOutside, UnservedInside, Untouched, PlacesDisjoint, CurMatchesPc,
      Received, JobRequests, ClientRequests, Stopped, EarlyPcs, LatePcs
<1>25. ASSUME WorkerRespond PROVE UnservedOutside'
  BY <1>25, <1>0, <1>99
  DEF WorkerRespond, Answer, UnservedOutside, UnservedInside, Untouched, PlacesDisjoint,
      CurMatchesPc, Received, JobRequests, ClientRequests, Stopped, EarlyPcs, LatePcs
<1>26. ASSUME WorkerFollowUp PROVE UnservedOutside'
  BY <1>26, <1>0, <1>99
  DEF WorkerFollowUp, UnservedOutside, UnservedInside, Untouched, PlacesDisjoint, CurMatchesPc,
      Received, JobRequests, ClientRequests, Stopped, EarlyPcs, LatePcs
<1>27. ASSUME PrivateCheck PROVE UnservedOutside'
  BY <1>27, <1>0, <1>99
  DEF PrivateCheck, Answer, UnservedOutside, UnservedInside, Untouched, PlacesDisjoint,
      CurMatchesPc, Received, JobRequests, ClientRequests, Stopped, EarlyPcs, LatePcs
<1>28. ASSUME PrivateEnd PROVE UnservedOutside'
  BY <1>28, <1>0, <1>99
  DEF PrivateEnd, Answer, UnservedOutside, UnservedInside, Untouched, PlacesDisjoint,
      CurMatchesPc, Received, JobRequests, ClientRequests, Stopped, EarlyPcs, LatePcs
<1>29. ASSUME DrainTick PROVE UnservedOutside'
  BY <1>29, <1>0, <1>99
  DEF DrainTick, UnservedOutside, UnservedInside, Untouched, PlacesDisjoint, CurMatchesPc,
      Received, JobRequests, ClientRequests, Stopped, EarlyPcs, LatePcs
<1>30. ASSUME NEW r \in Requests, MonitorTick(r) PROVE UnservedOutside'
  BY <1>30, <1>0, <1>99
  DEF MonitorTick, UnservedOutside, UnservedInside, Untouched, PlacesDisjoint, CurMatchesPc,
      Received, JobRequests, ClientRequests, Stopped, EarlyPcs, LatePcs
<1>31. ASSUME NEW r \in Requests, RetrySend(r) PROVE UnservedOutside'
  BY <1>31, <1>0, <1>99
  DEF RetrySend, UnservedOutside, UnservedInside, Untouched, PlacesDisjoint, CurMatchesPc,
      Received, JobRequests, ClientRequests, Stopped, EarlyPcs, LatePcs
<1>32. ASSUME NEW r \in Requests, RetryStopped(r) PROVE UnservedOutside'
  <2>1. Queued' = Queued /\ r \notin Queued
    BY <1>32, QueuedStill DEF RetryStopped, PlacesDisjoint
  <2>2. UNCHANGED <<client, executed, waits, wpc>> /\ retry' \subseteq retry /\ r \notin retry'
    BY <1>32 DEF RetryStopped
  <2>3. client[r] = "sent"
    BY <1>32 DEF RetryStopped, PlacesDisjoint
  <2>4. \A q \in Requests : q # r => answer'[q] = answer[q]
    BY <1>32 DEF RetryStopped, Answer
  <2> QED
    BY <2>1, <2>2, <2>3, <2>4 DEF UnservedOutside, Untouched, Stopped
<1>33. ASSUME ShutdownSend PROVE UnservedOutside'
  BY <1>33, <1>0, <1>99
  DEF ShutdownSend, UnservedOutside, UnservedInside, Untouched, PlacesDisjoint, CurMatchesPc,
      Received, JobRequests, ClientRequests, Stopped, EarlyPcs, LatePcs
<1>34. CASE UNCHANGED vars
  BY <1>34, <1>0, <1>99
  DEF vars, UnservedOutside, UnservedInside, Untouched, PlacesDisjoint, CurMatchesPc, Received,
      JobRequests, ClientRequests, Stopped, EarlyPcs, LatePcs
<1> QED
  BY <1>1, <1>2, <1>3, <1>4, <1>5, <1>6, <1>7, <1>8, <1>9, <1>10, <1>11, <1>12, <1>13,
     <1>14, <1>15, <1>16, <1>17, <1>18, <1>19, <1>20, <1>21, <1>22, <1>23, <1>24, <1>25,
     <1>26, <1>27, <1>28, <1>29, <1>30, <1>31, <1>32, <1>33, <1>34
  DEF Next, ClientStep, CancelStep, WorkerProgress, RetryStep, Quiescent

(* Every action keeps what the worker holds served as far as its step says. *)
LEMMA InsideStep ==
  ASSUME Typed, CurMatchesPc, QueuedOnce, PlacesDisjoint, UnservedOutside, UnservedInside,
         [Next]_vars
  PROVE  UnservedInside'
<1> USE RequestsAssumption DEF Typed, ClientType, LeaseType, WorkerType, clientVars,
    workerVars, leaseVars, cancelVars
<1>1. ASSUME NEW r \in Requests, SubmitJournal(r) PROVE UnservedInside'
  BY <1>1
  DEF SubmitJournal, UnservedOutside, UnservedInside, Untouched, PlacesDisjoint, CurMatchesPc,
      Received, JobRequests, ClientRequests, Stopped, EarlyPcs, LatePcs
<1>2. ASSUME NEW r \in Requests, SubmitSend(r) PROVE UnservedInside'
  BY <1>2
  DEF SubmitSend, UnservedOutside, UnservedInside, Untouched, PlacesDisjoint, CurMatchesPc,
      Received, JobRequests, ClientRequests, Stopped, EarlyPcs, LatePcs
<1>3. ASSUME NEW r \in Requests, SubmitRefused(r) PROVE UnservedInside'
  BY <1>3
  DEF SubmitRefused, PersistFailed, Answer, UnservedOutside, UnservedInside, Untouched,
      PlacesDisjoint, CurMatchesPc, Received, JobRequests, ClientRequests, Stopped, EarlyPcs,
      LatePcs
<1>4. ASSUME NEW r \in Requests, SubmitDropped(r) PROVE UnservedInside'
  BY <1>4
  DEF SubmitDropped, Answer, UnservedOutside, UnservedInside, Untouched, PlacesDisjoint,
      CurMatchesPc, Received, JobRequests, ClientRequests, Stopped, EarlyPcs, LatePcs
<1>5. ASSUME NEW r \in Requests, PrivateEnqueue(r) PROVE UnservedInside'
  BY <1>5
  DEF PrivateEnqueue, Answer, UnservedOutside, UnservedInside, Untouched, PlacesDisjoint,
      CurMatchesPc, Received, JobRequests, ClientRequests, Stopped, EarlyPcs, LatePcs
<1>6. ASSUME NEW r \in Requests, PrivateGiveUp(r) PROVE UnservedInside'
  BY <1>6
  DEF PrivateGiveUp, Answer, UnservedOutside, UnservedInside, Untouched, PlacesDisjoint,
      CurMatchesPc, Received, JobRequests, ClientRequests, Stopped, EarlyPcs, LatePcs
<1>7. ASSUME NEW j \in Jobs, CancelRunning(j) PROVE UnservedInside'
  BY <1>7
  DEF CancelRunning, UnservedOutside, UnservedInside, Untouched, PlacesDisjoint, CurMatchesPc,
      Received, JobRequests, ClientRequests, Stopped, EarlyPcs, LatePcs
<1>8. ASSUME NEW j \in Jobs, CancelMiss(j) PROVE UnservedInside'
  BY <1>8
  DEF CancelMiss, UnservedOutside, UnservedInside, Untouched, PlacesDisjoint, CurMatchesPc,
      Received, JobRequests, ClientRequests, Stopped, EarlyPcs, LatePcs
<1>9. ASSUME NEW j \in Jobs, CancelPersisted(j) PROVE UnservedInside'
  BY <1>9
  DEF CancelPersisted, UnservedOutside, UnservedInside, Untouched, PlacesDisjoint,
      CurMatchesPc, Received, JobRequests, ClientRequests, Stopped, EarlyPcs, LatePcs
<1>10. ASSUME WorkerRecv PROVE UnservedInside'
  <2>1. cur' = None \/ cur' \in Queued
    BY <1>10, ReceivedFrom
  <2>2. Head(queue) \in Requests \cup {Shutdown}
    BY <1>10, HeadType DEF WorkerRecv
  <2>3. CASE Head(queue) = Shutdown
    BY <1>10, <2>3 DEF WorkerRecv, UnservedInside, EarlyPcs, LatePcs
  <2>4. CASE Head(queue) # Shutdown
    <3>1. cur' \in Queued /\ cur' \in Requests /\ cur' = Head(queue)
      BY <1>10, <2>1, <2>2, <2>4 DEF WorkerRecv
    <3>2. cur' \notin executed /\ (cur' \notin PrivateRequests => answer[cur'] = "none")
      BY <1>10, <3>1 DEF WorkerRecv, UnservedOutside, Stopped, JobRequests
    <3>3. UNCHANGED <<answer, executed, outcome>>
      BY <1>10 DEF WorkerRecv
    <3>4. wpc' = IF cur' \in PrivateRequests THEN "private_check" ELSE "received"
      BY <1>10, <2>4, <3>1 DEF WorkerRecv
    <3> QED
      BY <3>2, <3>3, <3>4 DEF UnservedInside, Untouched, EarlyPcs, LatePcs
  <2> QED
    BY <2>3, <2>4
<1>11. ASSUME WorkerStop PROVE UnservedInside'
  BY <1>11
  DEF WorkerStop, UnservedOutside, UnservedInside, Untouched, PlacesDisjoint, CurMatchesPc,
      Received, JobRequests, ClientRequests, Stopped, EarlyPcs, LatePcs
<1>12. ASSUME WorkerCheckCancelled PROVE UnservedInside'
  BY <1>12
  DEF WorkerCheckCancelled, Answer, EndWait, UnservedOutside, UnservedInside, Untouched,
      PlacesDisjoint, CurMatchesPc, Received, JobRequests, ClientRequests, Stopped, EarlyPcs,
      LatePcs
<1>13. ASSUME WorkerGate PROVE UnservedInside'
  BY <1>13
  DEF WorkerGate, EndWait, UnservedOutside, UnservedInside, Untouched, PlacesDisjoint,
      CurMatchesPc, Received, JobRequests, ClientRequests, Stopped, EarlyPcs, LatePcs
<1>14. ASSUME WorkerReject PROVE UnservedInside'
  BY <1>14
  DEF WorkerReject, PersistFailed, Answer, UnservedOutside, UnservedInside, Untouched,
      PlacesDisjoint, CurMatchesPc, Received, JobRequests, ClientRequests, Stopped, EarlyPcs,
      LatePcs
<1>15. ASSUME WorkerWait PROVE UnservedInside'
  BY <1>15
  DEF WorkerWait, Park, UnservedOutside, UnservedInside, Untouched, PlacesDisjoint,
      CurMatchesPc, Received, JobRequests, ClientRequests, Stopped, EarlyPcs, LatePcs
<1>16. ASSUME WorkerDispatch PROVE UnservedInside'
  BY <1>16
  DEF WorkerDispatch, UnservedOutside, UnservedInside, Untouched, PlacesDisjoint, CurMatchesPc,
      Received, JobRequests, ClientRequests, Stopped, EarlyPcs, LatePcs
<1>17. ASSUME WorkerRegister PROVE UnservedInside'
  BY <1>17
  DEF WorkerRegister, UnservedOutside, UnservedInside, Untouched, PlacesDisjoint, CurMatchesPc,
      Received, JobRequests, ClientRequests, Stopped, EarlyPcs, LatePcs
<1>18. ASSUME ExecuteReturns PROVE UnservedInside'
  BY <1>18
  DEF ExecuteReturns, EndExecution, UnservedOutside, UnservedInside, Untouched, PlacesDisjoint,
      CurMatchesPc, Received, JobRequests, ClientRequests, Stopped, EarlyPcs, LatePcs
<1>19. ASSUME ExecuteTimesOut PROVE UnservedInside'
  BY <1>19
  DEF ExecuteTimesOut, EndExecution, UnservedOutside, UnservedInside, Untouched,
      PlacesDisjoint, CurMatchesPc, Received, JobRequests, ClientRequests, Stopped, EarlyPcs,
      LatePcs
<1>20. ASSUME ExecuteCancelled PROVE UnservedInside'
  BY <1>20
  DEF ExecuteCancelled, EndExecution, UnservedOutside, UnservedInside, Untouched,
      PlacesDisjoint, CurMatchesPc, Received, JobRequests, ClientRequests, Stopped, EarlyPcs,
      LatePcs
<1>21. ASSUME ListenCheck PROVE UnservedInside'
  BY <1>21
  DEF ListenCheck, UnservedOutside, UnservedInside, Untouched, PlacesDisjoint, CurMatchesPc,
      Received, JobRequests, ClientRequests, Stopped, EarlyPcs, LatePcs
<1>22. ASSUME ListenArm PROVE UnservedInside'
  BY <1>22
  DEF ListenArm, UnservedOutside, UnservedInside, Untouched, PlacesDisjoint, CurMatchesPc,
      Received, JobRequests, ClientRequests, Stopped, EarlyPcs, LatePcs
<1>23. ASSUME WorkerUnregister PROVE UnservedInside'
  BY <1>23
  DEF WorkerUnregister, UnservedOutside, UnservedInside, Untouched, PlacesDisjoint,
      CurMatchesPc, Received, JobRequests, ClientRequests, Stopped, EarlyPcs, LatePcs
<1>24. ASSUME WorkerFinish PROVE UnservedInside'
  BY <1>24
  DEF WorkerFinish, UnservedOutside, UnservedInside, Untouched, PlacesDisjoint, CurMatchesPc,
      Received, JobRequests, ClientRequests, Stopped, EarlyPcs, LatePcs
<1>25. ASSUME WorkerRespond PROVE UnservedInside'
  BY <1>25
  DEF WorkerRespond, Answer, UnservedOutside, UnservedInside, Untouched, PlacesDisjoint,
      CurMatchesPc, Received, JobRequests, ClientRequests, Stopped, EarlyPcs, LatePcs
<1>26. ASSUME WorkerFollowUp PROVE UnservedInside'
  BY <1>26
  DEF WorkerFollowUp, UnservedOutside, UnservedInside, Untouched, PlacesDisjoint, CurMatchesPc,
      Received, JobRequests, ClientRequests, Stopped, EarlyPcs, LatePcs
<1>27. ASSUME PrivateCheck PROVE UnservedInside'
  BY <1>27
  DEF PrivateCheck, Answer, UnservedOutside, UnservedInside, Untouched, PlacesDisjoint,
      CurMatchesPc, Received, JobRequests, ClientRequests, Stopped, EarlyPcs, LatePcs
<1>28. ASSUME PrivateEnd PROVE UnservedInside'
  BY <1>28
  DEF PrivateEnd, Answer, UnservedOutside, UnservedInside, Untouched, PlacesDisjoint,
      CurMatchesPc, Received, JobRequests, ClientRequests, Stopped, EarlyPcs, LatePcs
<1>29. ASSUME DrainTick PROVE UnservedInside'
  BY <1>29
  DEF DrainTick, UnservedOutside, UnservedInside, Untouched, PlacesDisjoint, CurMatchesPc,
      Received, JobRequests, ClientRequests, Stopped, EarlyPcs, LatePcs
<1>30. ASSUME NEW r \in Requests, MonitorTick(r) PROVE UnservedInside'
  BY <1>30
  DEF MonitorTick, UnservedOutside, UnservedInside, Untouched, PlacesDisjoint, CurMatchesPc,
      Received, JobRequests, ClientRequests, Stopped, EarlyPcs, LatePcs
<1>31. ASSUME NEW r \in Requests, RetrySend(r) PROVE UnservedInside'
  BY <1>31
  DEF RetrySend, UnservedOutside, UnservedInside, Untouched, PlacesDisjoint, CurMatchesPc,
      Received, JobRequests, ClientRequests, Stopped, EarlyPcs, LatePcs
<1>32. ASSUME NEW r \in Requests, RetryStopped(r) PROVE UnservedInside'
  BY <1>32
  DEF RetryStopped, Answer, EndWait, PersistFailed, UnservedOutside, UnservedInside, Untouched,
      PlacesDisjoint, CurMatchesPc, Received, JobRequests, ClientRequests, Stopped, EarlyPcs,
      LatePcs
<1>33. ASSUME ShutdownSend PROVE UnservedInside'
  BY <1>33
  DEF ShutdownSend, UnservedOutside, UnservedInside, Untouched, PlacesDisjoint, CurMatchesPc,
      Received, JobRequests, ClientRequests, Stopped, EarlyPcs, LatePcs
<1>34. CASE UNCHANGED vars
  BY <1>34
  DEF vars, UnservedOutside, UnservedInside, Untouched, PlacesDisjoint, CurMatchesPc, Received,
      JobRequests, ClientRequests, Stopped, EarlyPcs, LatePcs
<1> QED
  BY <1>1, <1>2, <1>3, <1>4, <1>5, <1>6, <1>7, <1>8, <1>9, <1>10, <1>11, <1>12, <1>13,
     <1>14, <1>15, <1>16, <1>17, <1>18, <1>19, <1>20, <1>21, <1>22, <1>23, <1>24, <1>25,
     <1>26, <1>27, <1>28, <1>29, <1>30, <1>31, <1>32, <1>33, <1>34
  DEF Next, ClientStep, CancelStep, WorkerProgress, RetryStep, Quiescent

(* Every action keeps the wait events paired. *)
LEMMA WaitStep ==
  ASSUME Typed, CurMatchesPc, QueuedOnce, PlacesDisjoint, UnservedOutside, UnservedInside,
         WaitOver, [Next]_vars
  PROVE  WaitOver'
<1> USE RequestsAssumption DEF Typed, ClientType, LeaseType, WorkerType, clientVars,
    workerVars, leaseVars, cancelVars
<1>99. Queued \subseteq Requests /\ LeaseRequests \subseteq Requests
  BY DEF Queued, ClientRequests, JobRequests
<1>1. ASSUME NEW r \in Requests, SubmitJournal(r) PROVE WaitOver'
  BY <1>1, <1>99
  DEF SubmitJournal, UnservedOutside, UnservedInside, Untouched, PlacesDisjoint, CurMatchesPc,
      Received, JobRequests, ClientRequests, Stopped, EarlyPcs, LatePcs, WaitOver
<1>2. ASSUME NEW r \in Requests, SubmitSend(r) PROVE WaitOver'
  BY <1>2, <1>99
  DEF SubmitSend, UnservedOutside, UnservedInside, Untouched, PlacesDisjoint, CurMatchesPc,
      Received, JobRequests, ClientRequests, Stopped, EarlyPcs, LatePcs, WaitOver
<1>3. ASSUME NEW r \in Requests, SubmitRefused(r) PROVE WaitOver'
  BY <1>3, <1>99
  DEF SubmitRefused, PersistFailed, Answer, UnservedOutside, UnservedInside, Untouched,
      PlacesDisjoint, CurMatchesPc, Received, JobRequests, ClientRequests, Stopped, EarlyPcs,
      LatePcs, WaitOver
<1>4. ASSUME NEW r \in Requests, SubmitDropped(r) PROVE WaitOver'
  BY <1>4, <1>99
  DEF SubmitDropped, Answer, UnservedOutside, UnservedInside, Untouched, PlacesDisjoint,
      CurMatchesPc, Received, JobRequests, ClientRequests, Stopped, EarlyPcs, LatePcs, WaitOver
<1>5. ASSUME NEW r \in Requests, PrivateEnqueue(r) PROVE WaitOver'
  <2>1. \A q \in LeaseRequests : answer'[q] = answer[q]
    BY <1>5, <1>99 DEF PrivateEnqueue, Answer, JobRequests, ClientRequests
  <2>2. UNCHANGED <<waits, waitEvent, executed, cur, wpc>>
    BY <1>5 DEF PrivateEnqueue
  <2> QED BY <2>1, <2>2 DEF WaitOver
<1>6. ASSUME NEW r \in Requests, PrivateGiveUp(r) PROVE WaitOver'
  BY <1>6, <1>99
  DEF PrivateGiveUp, Answer, UnservedOutside, UnservedInside, Untouched, PlacesDisjoint,
      CurMatchesPc, Received, JobRequests, ClientRequests, Stopped, EarlyPcs, LatePcs, WaitOver
<1>7. ASSUME NEW j \in Jobs, CancelRunning(j) PROVE WaitOver'
  BY <1>7, <1>99
  DEF CancelRunning, UnservedOutside, UnservedInside, Untouched, PlacesDisjoint, CurMatchesPc,
      Received, JobRequests, ClientRequests, Stopped, EarlyPcs, LatePcs, WaitOver
<1>8. ASSUME NEW j \in Jobs, CancelMiss(j) PROVE WaitOver'
  BY <1>8, <1>99
  DEF CancelMiss, UnservedOutside, UnservedInside, Untouched, PlacesDisjoint, CurMatchesPc,
      Received, JobRequests, ClientRequests, Stopped, EarlyPcs, LatePcs, WaitOver
<1>9. ASSUME NEW j \in Jobs, CancelPersisted(j) PROVE WaitOver'
  BY <1>9, <1>99
  DEF CancelPersisted, UnservedOutside, UnservedInside, Untouched, PlacesDisjoint,
      CurMatchesPc, Received, JobRequests, ClientRequests, Stopped, EarlyPcs, LatePcs, WaitOver
<1>10. ASSUME WorkerRecv PROVE WaitOver'
  <2>1. wpc' \in {"closing", "private_check", "received"}
    BY <1>10 DEF WorkerRecv
  <2> QED
    BY <1>10, <2>1 DEF WorkerRecv, WaitOver
<1>11. ASSUME WorkerStop PROVE WaitOver'
  BY <1>11, <1>99
  DEF WorkerStop, UnservedOutside, UnservedInside, Untouched, PlacesDisjoint, CurMatchesPc,
      Received, JobRequests, ClientRequests, Stopped, EarlyPcs, LatePcs, WaitOver
<1>12. ASSUME WorkerCheckCancelled PROVE WaitOver'
  BY <1>12, <1>99
  DEF WorkerCheckCancelled, Answer, EndWait, UnservedOutside, UnservedInside, Untouched,
      PlacesDisjoint, CurMatchesPc, Received, JobRequests, ClientRequests, Stopped, EarlyPcs,
      LatePcs, WaitOver
<1>13. ASSUME WorkerGate PROVE WaitOver'
  BY <1>13, <1>99
  DEF WorkerGate, EndWait, UnservedOutside, UnservedInside, Untouched, PlacesDisjoint,
      CurMatchesPc, Received, JobRequests, ClientRequests, Stopped, EarlyPcs, LatePcs, WaitOver
<1>14. ASSUME WorkerReject PROVE WaitOver'
  BY <1>14, <1>99
  DEF WorkerReject, PersistFailed, Answer, UnservedOutside, UnservedInside, Untouched,
      PlacesDisjoint, CurMatchesPc, Received, JobRequests, ClientRequests, Stopped, EarlyPcs,
      LatePcs, WaitOver
<1>15. ASSUME WorkerWait PROVE WaitOver'
  BY <1>15, <1>99
  DEF WorkerWait, Park, UnservedOutside, UnservedInside, Untouched, PlacesDisjoint,
      CurMatchesPc, Received, JobRequests, ClientRequests, Stopped, EarlyPcs, LatePcs, WaitOver
<1>16. ASSUME WorkerDispatch PROVE WaitOver'
  BY <1>16, <1>99
  DEF WorkerDispatch, UnservedOutside, UnservedInside, Untouched, PlacesDisjoint, CurMatchesPc,
      Received, JobRequests, ClientRequests, Stopped, EarlyPcs, LatePcs, WaitOver
<1>17. ASSUME WorkerRegister PROVE WaitOver'
  BY <1>17, <1>99
  DEF WorkerRegister, UnservedOutside, UnservedInside, Untouched, PlacesDisjoint, CurMatchesPc,
      Received, JobRequests, ClientRequests, Stopped, EarlyPcs, LatePcs, WaitOver
<1>18. ASSUME ExecuteReturns PROVE WaitOver'
  BY <1>18, <1>99
  DEF ExecuteReturns, EndExecution, UnservedOutside, UnservedInside, Untouched, PlacesDisjoint,
      CurMatchesPc, Received, JobRequests, ClientRequests, Stopped, EarlyPcs, LatePcs, WaitOver
<1>19. ASSUME ExecuteTimesOut PROVE WaitOver'
  BY <1>19, <1>99
  DEF ExecuteTimesOut, EndExecution, UnservedOutside, UnservedInside, Untouched,
      PlacesDisjoint, CurMatchesPc, Received, JobRequests, ClientRequests, Stopped, EarlyPcs,
      LatePcs, WaitOver
<1>20. ASSUME ExecuteCancelled PROVE WaitOver'
  BY <1>20, <1>99
  DEF ExecuteCancelled, EndExecution, UnservedOutside, UnservedInside, Untouched,
      PlacesDisjoint, CurMatchesPc, Received, JobRequests, ClientRequests, Stopped, EarlyPcs,
      LatePcs, WaitOver
<1>21. ASSUME ListenCheck PROVE WaitOver'
  BY <1>21, <1>99
  DEF ListenCheck, UnservedOutside, UnservedInside, Untouched, PlacesDisjoint, CurMatchesPc,
      Received, JobRequests, ClientRequests, Stopped, EarlyPcs, LatePcs, WaitOver
<1>22. ASSUME ListenArm PROVE WaitOver'
  BY <1>22, <1>99
  DEF ListenArm, UnservedOutside, UnservedInside, Untouched, PlacesDisjoint, CurMatchesPc,
      Received, JobRequests, ClientRequests, Stopped, EarlyPcs, LatePcs, WaitOver
<1>23. ASSUME WorkerUnregister PROVE WaitOver'
  BY <1>23, <1>99
  DEF WorkerUnregister, UnservedOutside, UnservedInside, Untouched, PlacesDisjoint,
      CurMatchesPc, Received, JobRequests, ClientRequests, Stopped, EarlyPcs, LatePcs, WaitOver
<1>24. ASSUME WorkerFinish PROVE WaitOver'
  BY <1>24, <1>99
  DEF WorkerFinish, UnservedOutside, UnservedInside, Untouched, PlacesDisjoint, CurMatchesPc,
      Received, JobRequests, ClientRequests, Stopped, EarlyPcs, LatePcs, WaitOver
<1>25. ASSUME WorkerRespond PROVE WaitOver'
  BY <1>25, <1>99
  DEF WorkerRespond, Answer, UnservedOutside, UnservedInside, Untouched, PlacesDisjoint,
      CurMatchesPc, Received, JobRequests, ClientRequests, Stopped, EarlyPcs, LatePcs, WaitOver
<1>26. ASSUME WorkerFollowUp PROVE WaitOver'
  BY <1>26, <1>99
  DEF WorkerFollowUp, UnservedOutside, UnservedInside, Untouched, PlacesDisjoint, CurMatchesPc,
      Received, JobRequests, ClientRequests, Stopped, EarlyPcs, LatePcs, WaitOver
<1>27. ASSUME PrivateCheck PROVE WaitOver'
  BY <1>27, <1>99
  DEF PrivateCheck, Answer, UnservedOutside, UnservedInside, Untouched, PlacesDisjoint,
      CurMatchesPc, Received, JobRequests, ClientRequests, Stopped, EarlyPcs, LatePcs, WaitOver
<1>28. ASSUME PrivateEnd PROVE WaitOver'
  BY <1>28, <1>99
  DEF PrivateEnd, Answer, UnservedOutside, UnservedInside, Untouched, PlacesDisjoint,
      CurMatchesPc, Received, JobRequests, ClientRequests, Stopped, EarlyPcs, LatePcs, WaitOver
<1>29. ASSUME DrainTick PROVE WaitOver'
  BY <1>29, <1>99
  DEF DrainTick, UnservedOutside, UnservedInside, Untouched, PlacesDisjoint, CurMatchesPc,
      Received, JobRequests, ClientRequests, Stopped, EarlyPcs, LatePcs, WaitOver
<1>30. ASSUME NEW r \in Requests, MonitorTick(r) PROVE WaitOver'
  BY <1>30, <1>99
  DEF MonitorTick, UnservedOutside, UnservedInside, Untouched, PlacesDisjoint, CurMatchesPc,
      Received, JobRequests, ClientRequests, Stopped, EarlyPcs, LatePcs, WaitOver
<1>31. ASSUME NEW r \in Requests, RetrySend(r) PROVE WaitOver'
  BY <1>31, <1>99
  DEF RetrySend, UnservedOutside, UnservedInside, Untouched, PlacesDisjoint, CurMatchesPc,
      Received, JobRequests, ClientRequests, Stopped, EarlyPcs, LatePcs, WaitOver
<1>32. ASSUME NEW r \in Requests, RetryStopped(r) PROVE WaitOver'
  BY <1>32, <1>99
  DEF RetryStopped, Answer, EndWait, PersistFailed, UnservedOutside, UnservedInside, Untouched,
      PlacesDisjoint, CurMatchesPc, Received, JobRequests, ClientRequests, Stopped, EarlyPcs,
      LatePcs, WaitOver
<1>33. ASSUME ShutdownSend PROVE WaitOver'
  BY <1>33, <1>99
  DEF ShutdownSend, UnservedOutside, UnservedInside, Untouched, PlacesDisjoint, CurMatchesPc,
      Received, JobRequests, ClientRequests, Stopped, EarlyPcs, LatePcs, WaitOver
<1>34. CASE UNCHANGED vars
  BY <1>34
  DEF vars, UnservedOutside, UnservedInside, Untouched, PlacesDisjoint, CurMatchesPc, Received,
      JobRequests, ClientRequests, Stopped, EarlyPcs, LatePcs, WaitOver
<1> QED
  BY <1>1, <1>2, <1>3, <1>4, <1>5, <1>6, <1>7, <1>8, <1>9, <1>10, <1>11, <1>12, <1>13,
     <1>14, <1>15, <1>16, <1>17, <1>18, <1>19, <1>20, <1>21, <1>22, <1>23, <1>24, <1>25,
     <1>26, <1>27, <1>28, <1>29, <1>30, <1>31, <1>32, <1>33, <1>34
  DEF Next, ClientStep, CancelStep, WorkerProgress, RetryStep, Quiescent

(* What is told, executed and waited for, with the places it rests on. *)
Service ==
  /\ Typed /\ CurMatchesPc /\ QueuedOnce /\ PlacesDisjoint
  /\ UnservedOutside /\ UnservedInside /\ WaitOver

LEMMA ServiceInvariant == Spec => []Service
<1>1. Init => UnservedOutside /\ UnservedInside /\ WaitOver
  <2> SUFFICES ASSUME Init PROVE UnservedOutside /\ UnservedInside /\ WaitOver
    OBVIOUS
  <2>1. Queued = {}
    BY DEF Init, Queued
  <2>2. LeaseRequests \subseteq Requests
    BY RequestsAssumption DEF ClientRequests, JobRequests
  <2> QED
    BY <2>1, <2>2 DEF Init, UnservedOutside, UnservedInside, WaitOver, EarlyPcs, LatePcs
<1>2. Inductive => Typed /\ CurMatchesPc /\ QueuedOnce /\ PlacesDisjoint
  BY DEF Inductive, TypeOK, Typed, OnePlace
<1>3. /\ Inductive /\ UnservedOutside /\ UnservedInside /\ WaitOver
      /\ [Next]_vars
      => (UnservedOutside /\ UnservedInside /\ WaitOver)'
  BY <1>2, OutsideStep, InsideStep, WaitStep
<1>4. Inductive /\ UnservedOutside /\ UnservedInside /\ WaitOver => Service
  BY <1>2 DEF Service
<1> QED
  BY <1>1, <1>3, <1>4, InductiveInvariant, PTL DEF Spec

(* A lease wait that was announced is announced as ended before the request *)
(* is executed or answered, in every interleaving of retry tasks, worker,   *)
(* cancellations and shutdown.                                              *)
THEOREM WaitsArePaired == Spec => []WaitEventsPaired
<1>1. Service => WaitEventsPaired
  BY DEF Service, WaitOver, WaitEventsPaired
<1> QED
  BY <1>1, ServiceInvariant, PTL

-----------------------------------------------------------------------------
(* The control plane implements JobService. *)

Accepted == {r \in Requests : client[r] # "new"}
Told == {r \in Requests : answer[r] # "none"}
ExecutingPcs == {"execute", "unregister", "finish", "respond", "follow_up",
                 "private_execute"}
Executing == IF wpc \in ExecutingPcs THEN cur ELSE None

(* The steps of JobService in these terms. *)
AcceptStep(r) ==
  /\ r \notin Accepted /\ Accepted' = Accepted \cup {r}
  /\ Told' \in {Told, Told \cup {r}}
  /\ executed' = executed /\ Executing' = Executing
StartStep(r) ==
  /\ r \in Accepted /\ r \notin executed /\ r \notin Told /\ Executing = None
  /\ executed' = executed \cup {r} /\ Executing' = r
  /\ Accepted' = Accepted /\ Told' = Told
TellStep(r) ==
  /\ r \in Accepted /\ r \notin Told /\ Told' = Told \cup {r}
  /\ Accepted' = Accepted /\ executed' = executed /\ Executing' = Executing
FinishStep(r) ==
  /\ Executing = r /\ Executing' = None /\ Told' = Told \cup {r}
  /\ Accepted' = Accepted /\ executed' = executed
QuietStep ==
  /\ Accepted' = Accepted /\ executed' = executed /\ Told' = Told
  /\ Executing' = Executing
PromiseStep ==
  \/ QuietStep
  \/ \E r \in Requests : AcceptStep(r) \/ StartStep(r) \/ TellStep(r) \/ FinishStep(r)

LEMMA PromiseStepIs ==
  ASSUME PromiseStep
  PROVE  [Promise!Next]_(Promise!vars)
<1> USE DEF Accepted, Told, Executing, ExecutingPcs
<1>1. CASE QuietStep
  BY <1>1 DEF QuietStep, Promise!vars
<1>2. ASSUME NEW r \in Requests, AcceptStep(r) PROVE Promise!Accept(r) \/ Promise!Refuse(r)
  BY <1>2 DEF AcceptStep, Promise!Accept, Promise!Refuse
<1>3. ASSUME NEW r \in Requests, StartStep(r) PROVE Promise!Start(r)
  BY <1>3 DEF StartStep, Promise!Start
<1>4. ASSUME NEW r \in Requests, TellStep(r) PROVE Promise!Tell(r)
  BY <1>4 DEF TellStep, Promise!Tell
<1>5. ASSUME NEW r \in Requests, FinishStep(r) PROVE Promise!Finish(r)
  BY <1>5 DEF FinishStep, Promise!Finish
<1> QED
  BY <1>1, <1>2, <1>3, <1>4, <1>5 DEF PromiseStep, Promise!Next

(* Every step of the control plane is a step of JobService, or none. *)
LEMMA ImplementationStep ==
  ASSUME Service, [Next]_vars
  PROVE  PromiseStep
<1> USE RequestsAssumption
    DEF Service, Typed, ClientType, WorkerType, CurMatchesPc, Received, clientVars,
        workerVars, leaseVars, cancelVars
<1>0. Queued \subseteq Requests /\ retry \subseteq Requests
  BY DEF Queued, LeaseType, JobRequests
<1>1. ASSUME NEW r \in Requests, SubmitJournal(r) PROVE PromiseStep
  <2>1. AcceptStep(r)
    BY <1>1, <1>0
    DEF SubmitJournal, AcceptStep, Accepted, Told, Executing, ExecutingPcs, JobRequests,
      ClientRequests, UnservedOutside, UnservedInside, Untouched, PlacesDisjoint, EarlyPcs,
      LatePcs
  <2> QED
    BY <1>1, <2>1 DEF PromiseStep, JobRequests
<1>2. ASSUME NEW r \in Requests, SubmitSend(r) PROVE PromiseStep
  <2>1. QuietStep
    BY <1>2
    DEF SubmitSend, QuietStep, Accepted, Told, Executing, ExecutingPcs, JobRequests,
      ClientRequests
  <2> QED
    BY <2>1 DEF PromiseStep
<1>3. ASSUME NEW r \in Requests, SubmitRefused(r) PROVE PromiseStep
  <2>1. TellStep(r)
    BY <1>3, <1>0
    DEF SubmitRefused, TellStep, PersistFailed, Answer, Accepted, Told, Executing, ExecutingPcs,
      JobRequests, ClientRequests, UnservedOutside, UnservedInside, Untouched, PlacesDisjoint,
      EarlyPcs, LatePcs
  <2> QED
    BY <1>3, <2>1 DEF PromiseStep, JobRequests
<1>4. ASSUME NEW r \in Requests, SubmitDropped(r) PROVE PromiseStep
  <2>1. TellStep(r)
    BY <1>4, <1>0
    DEF SubmitDropped, TellStep, Answer, Accepted, Told, Executing, ExecutingPcs, JobRequests,
      ClientRequests, UnservedOutside, UnservedInside, Untouched, PlacesDisjoint, EarlyPcs,
      LatePcs
  <2> QED
    BY <1>4, <2>1 DEF PromiseStep, JobRequests
<1>5. ASSUME NEW r \in Requests, PrivateEnqueue(r) PROVE PromiseStep
  <2>1. AcceptStep(r)
    BY <1>5, <1>0
    DEF PrivateEnqueue, AcceptStep, Answer, Accepted, Told, Executing, ExecutingPcs,
        JobRequests,
      ClientRequests, UnservedOutside, UnservedInside, Untouched, PlacesDisjoint, EarlyPcs,
      LatePcs
  <2> QED
    BY <1>5, <2>1 DEF PromiseStep, JobRequests
<1>6. ASSUME NEW r \in Requests, PrivateGiveUp(r) PROVE PromiseStep
  <2>1. TellStep(r)
    BY <1>6, <1>0
    DEF PrivateGiveUp, TellStep, Answer, Accepted, Told, Executing, ExecutingPcs, JobRequests,
      ClientRequests, UnservedOutside, UnservedInside, Untouched, PlacesDisjoint, EarlyPcs,
      LatePcs
  <2> QED
    BY <1>6, <2>1 DEF PromiseStep, JobRequests
<1>7. ASSUME NEW j \in Jobs, CancelRunning(j) PROVE PromiseStep
  <2>1. QuietStep
    BY <1>7
    DEF CancelRunning, QuietStep, Accepted, Told, Executing, ExecutingPcs, JobRequests,
      ClientRequests
  <2> QED
    BY <2>1 DEF PromiseStep
<1>8. ASSUME NEW j \in Jobs, CancelMiss(j) PROVE PromiseStep
  <2>1. QuietStep
    BY <1>8
    DEF CancelMiss, QuietStep, Accepted, Told, Executing, ExecutingPcs, JobRequests,
      ClientRequests
  <2> QED
    BY <2>1 DEF PromiseStep
<1>9. ASSUME NEW j \in Jobs, CancelPersisted(j) PROVE PromiseStep
  <2>1. QuietStep
    BY <1>9
    DEF CancelPersisted, QuietStep, Accepted, Told, Executing, ExecutingPcs, JobRequests,
      ClientRequests
  <2> QED
    BY <2>1 DEF PromiseStep
<1>10. ASSUME WorkerRecv PROVE PromiseStep
  <2>1. QuietStep
    BY <1>10
    DEF WorkerRecv, QuietStep, CountOut, Accepted, Told, Executing, ExecutingPcs, JobRequests,
      ClientRequests
  <2> QED
    BY <2>1 DEF PromiseStep
<1>11. ASSUME WorkerStop PROVE PromiseStep
  <2>1. QuietStep
    BY <1>11
    DEF WorkerStop, QuietStep, Accepted, Told, Executing, ExecutingPcs, JobRequests,
      ClientRequests
  <2> QED
    BY <2>1 DEF PromiseStep
<1>12. ASSUME WorkerCheckCancelled PROVE PromiseStep
  <2>1. CASE JobCancelled(cur)
    <3>1. TellStep(cur)
      BY <1>12, <2>1
      DEF WorkerCheckCancelled, TellStep, Answer, Accepted, Told, Executing, ExecutingPcs,
          JobRequests, UnservedInside, Untouched, PlacesDisjoint, EarlyPcs
    <3> QED
      BY <1>12, <3>1 DEF PromiseStep, JobRequests, WorkerCheckCancelled
  <2>2. CASE ~JobCancelled(cur)
    BY <1>12, <2>2
    DEF WorkerCheckCancelled, PromiseStep, QuietStep, Accepted, Told, Executing, ExecutingPcs
  <2> QED
    BY <2>1, <2>2
<1>13. ASSUME WorkerGate PROVE PromiseStep
  <2>1. QuietStep
    BY <1>13
    DEF WorkerGate, QuietStep, EndWait, Accepted, Told, Executing, ExecutingPcs, JobRequests,
      ClientRequests
  <2> QED
    BY <2>1 DEF PromiseStep
<1>14. ASSUME WorkerReject PROVE PromiseStep
  <2>1. TellStep(cur)
    BY <1>14, <1>0
    DEF WorkerReject, TellStep, PersistFailed, Answer, Accepted, Told, Executing, ExecutingPcs,
      JobRequests, ClientRequests, UnservedOutside, UnservedInside, Untouched, PlacesDisjoint,
      EarlyPcs, LatePcs
  <2> QED
    BY <1>14, <2>1 DEF PromiseStep, JobRequests, WorkerReject
<1>15. ASSUME WorkerWait PROVE PromiseStep
  <2>1. QuietStep
    BY <1>15
    DEF WorkerWait, QuietStep, Park, Accepted, Told, Executing, ExecutingPcs, JobRequests,
      ClientRequests
  <2> QED
    BY <2>1 DEF PromiseStep
<1>16. ASSUME WorkerDispatch PROVE PromiseStep
  <2>1. QuietStep
    BY <1>16
    DEF WorkerDispatch, QuietStep, Accepted, Told, Executing, ExecutingPcs, JobRequests,
      ClientRequests
  <2> QED
    BY <2>1 DEF PromiseStep
<1>17. ASSUME WorkerRegister PROVE PromiseStep
  <2>1. StartStep(cur)
    BY <1>17, <1>0
    DEF WorkerRegister, StartStep, Accepted, Told, Executing, ExecutingPcs, JobRequests,
      ClientRequests, UnservedOutside, UnservedInside, Untouched, PlacesDisjoint, EarlyPcs,
      LatePcs
  <2> QED
    BY <1>17, <2>1 DEF PromiseStep, JobRequests, WorkerRegister
<1>18. ASSUME ExecuteReturns PROVE PromiseStep
  <2>1. QuietStep
    BY <1>18
    DEF ExecuteReturns, QuietStep, EndExecution, Accepted, Told, Executing, ExecutingPcs,
      JobRequests, ClientRequests
  <2> QED
    BY <2>1 DEF PromiseStep
<1>19. ASSUME ExecuteTimesOut PROVE PromiseStep
  <2>1. QuietStep
    BY <1>19
    DEF ExecuteTimesOut, QuietStep, EndExecution, Accepted, Told, Executing, ExecutingPcs,
      JobRequests, ClientRequests
  <2> QED
    BY <2>1 DEF PromiseStep
<1>20. ASSUME ExecuteCancelled PROVE PromiseStep
  <2>1. QuietStep
    BY <1>20
    DEF ExecuteCancelled, QuietStep, EndExecution, Accepted, Told, Executing, ExecutingPcs,
      JobRequests, ClientRequests
  <2> QED
    BY <2>1 DEF PromiseStep
<1>21. ASSUME ListenCheck PROVE PromiseStep
  <2>1. QuietStep
    BY <1>21
    DEF ListenCheck, QuietStep, Accepted, Told, Executing, ExecutingPcs, JobRequests,
      ClientRequests
  <2> QED
    BY <2>1 DEF PromiseStep
<1>22. ASSUME ListenArm PROVE PromiseStep
  <2>1. QuietStep
    BY <1>22
    DEF ListenArm, QuietStep, Accepted, Told, Executing, ExecutingPcs, JobRequests,
        ClientRequests
  <2> QED
    BY <2>1 DEF PromiseStep
<1>23. ASSUME WorkerUnregister PROVE PromiseStep
  <2>1. QuietStep
    BY <1>23
    DEF WorkerUnregister, QuietStep, Accepted, Told, Executing, ExecutingPcs, JobRequests,
      ClientRequests
  <2> QED
    BY <2>1 DEF PromiseStep
<1>24. ASSUME WorkerFinish PROVE PromiseStep
  <2>1. QuietStep
    BY <1>24
    DEF WorkerFinish, QuietStep, Accepted, Told, Executing, ExecutingPcs, JobRequests,
      ClientRequests
  <2> QED
    BY <2>1 DEF PromiseStep
<1>25. ASSUME WorkerRespond PROVE PromiseStep
  <2>1. TellStep(cur)
    BY <1>25, <1>0
    DEF WorkerRespond, TellStep, Answer, Accepted, Told, Executing, ExecutingPcs, JobRequests,
      ClientRequests, UnservedOutside, UnservedInside, Untouched, PlacesDisjoint, EarlyPcs,
      LatePcs
  <2> QED
    BY <1>25, <2>1 DEF PromiseStep, JobRequests, WorkerRespond
<1>26. ASSUME WorkerFollowUp PROVE PromiseStep
  <2>1. FinishStep(cur)
    BY <1>26, <1>0
    DEF WorkerFollowUp, FinishStep, Accepted, Told, Executing, ExecutingPcs, JobRequests,
      ClientRequests, UnservedOutside, UnservedInside, Untouched, PlacesDisjoint, EarlyPcs,
      LatePcs
  <2> QED
    BY <1>26, <2>1 DEF PromiseStep, JobRequests, WorkerFollowUp
<1>27. ASSUME PrivateCheck PROVE PromiseStep
  <2>0. cur \in Requests /\ cur # None /\ client[cur] = "sent" /\ cur \notin executed
    BY <1>27 DEF PrivateCheck, PlacesDisjoint, UnservedInside
  <2>1. CASE answer[cur] # "none"
    BY <1>27, <2>1
    DEF PrivateCheck, PromiseStep, QuietStep, Accepted, Told, Executing, ExecutingPcs
  <2>2. CASE answer[cur] = "none" /\ \E a \in {"ok", "expired", "error"} : Answer(cur, a)
    <3>1. TellStep(cur)
      BY <1>27, <2>0, <2>2
      DEF PrivateCheck, TellStep, Answer, Accepted, Told, Executing, ExecutingPcs
    <3> QED
      BY <2>0, <3>1 DEF PromiseStep
  <2>3. CASE answer[cur] = "none" /\ wpc' = "private_execute"
    <3>1. StartStep(cur)
      BY <1>27, <2>0, <2>3
      DEF PrivateCheck, StartStep, Accepted, Told, Executing, ExecutingPcs
    <3> QED
      BY <2>0, <3>1 DEF PromiseStep
  <2> QED
    BY <1>27, <2>1, <2>2, <2>3 DEF PrivateCheck
<1>28. ASSUME PrivateEnd PROVE PromiseStep
  <2>1. FinishStep(cur)
    BY <1>28, <1>0
    DEF PrivateEnd, FinishStep, Answer, Accepted, Told, Executing, ExecutingPcs, JobRequests,
      ClientRequests, UnservedOutside, UnservedInside, Untouched, PlacesDisjoint, EarlyPcs,
      LatePcs
  <2> QED
    BY <1>28, <2>1 DEF PromiseStep, JobRequests, PrivateEnd
<1>29. ASSUME DrainTick PROVE PromiseStep
  <2>1. QuietStep
    BY <1>29
    DEF DrainTick, QuietStep, Accepted, Told, Executing, ExecutingPcs, JobRequests,
        ClientRequests
  <2> QED
    BY <2>1 DEF PromiseStep
<1>30. ASSUME NEW r \in Requests, MonitorTick(r) PROVE PromiseStep
  <2>1. AcceptStep(r)
    BY <1>30, <1>0
    DEF MonitorTick, AcceptStep, Accepted, Told, Executing, ExecutingPcs, JobRequests,
      ClientRequests, UnservedOutside, UnservedInside, Untouched, PlacesDisjoint, EarlyPcs,
      LatePcs
  <2> QED
    BY <1>30, <2>1 DEF PromiseStep, JobRequests
<1>31. ASSUME NEW r \in Requests, RetrySend(r) PROVE PromiseStep
  <2>1. QuietStep
    BY <1>31
    DEF RetrySend, QuietStep, Accepted, Told, Executing, ExecutingPcs, JobRequests,
        ClientRequests
  <2> QED
    BY <2>1 DEF PromiseStep
<1>32. ASSUME NEW r \in Requests, RetryStopped(r) PROVE PromiseStep
  <2>1. TellStep(r)
    BY <1>32, <1>0
    DEF RetryStopped, TellStep, Answer, EndWait, PersistFailed, Accepted, Told, Executing,
      ExecutingPcs, JobRequests, ClientRequests, UnservedOutside, UnservedInside, Untouched,
      PlacesDisjoint, EarlyPcs, LatePcs
  <2> QED
    BY <1>32, <2>1 DEF PromiseStep, JobRequests
<1>33. ASSUME ShutdownSend PROVE PromiseStep
  <2>1. QuietStep
    BY <1>33
    DEF ShutdownSend, QuietStep, Accepted, Told, Executing, ExecutingPcs, JobRequests,
      ClientRequests
  <2> QED
    BY <2>1 DEF PromiseStep
<1>34. CASE UNCHANGED vars
  BY <1>34 DEF vars, PromiseStep, QuietStep, Accepted, Told, Executing
<1> QED
  BY <1>1, <1>2, <1>3, <1>4, <1>5, <1>6, <1>7, <1>8, <1>9, <1>10, <1>11, <1>12, <1>13,
     <1>14, <1>15, <1>16, <1>17, <1>18, <1>19, <1>20, <1>21, <1>22, <1>23, <1>24, <1>25,
     <1>26, <1>27, <1>28, <1>29, <1>30, <1>31, <1>32, <1>33, <1>34
  DEF Next, ClientStep, CancelStep, WorkerProgress, RetryStep, Quiescent

(* The control plane keeps the promise of JobService: a request is accepted *)
(* once, executed at most once and never together with another, its caller  *)
(* is told at most once and never before acceptance, and a command is not   *)
(* started once its caller has been told.                                   *)
THEOREM ControlPlaneKeepsPromise == Spec => KeepsPromise
<1>1. Init => Promise!Init
  BY DEF Init, Promise!Init
<1>2. Service /\ [Next]_vars => [Promise!Next]_(Promise!vars)
  BY ImplementationStep, PromiseStepIs
<1> QED
  BY <1>1, <1>2, ServiceInvariant, PTL DEF Spec, KeepsPromise, Promise!Spec


-----------------------------------------------------------------------------
(* The journal, for the requests that own the record under their id.  What  *)
(* pruning and requests with a shared id do to a record is in its `lost'.   *)

(* The effect of a write by request r on the records that are still owned   *)
(* after it: r's own becomes st and the others are as they were.            *)
OwnsNext(r) == client'[r] # "new" /\ r \notin jobs'[JobOf[r]].lost
Rewrites(r, st) ==
  /\ OwnsNext(r) => jobs'[JobOf[r]].state = st /\ (client[r] = "new" \/ Owns(r))
  /\ \A q \in JobRequests :
       q # r /\ OwnsNext(q) => Owns(q) /\ jobs'[JobOf[q]] = jobs[JobOf[q]]

LEMMA WriteRewrites ==
  ASSUME JournalType, NEW r \in JobRequests, NEW st, NEW at,
         jobs' = Write(r, st, at),
         \A q \in JobRequests : q # r => client'[q] = client[q]
  PROVE  Rewrites(r, st)
<1> DEFINE new == [state |-> st, at |-> at,
                   lost |-> jobs[JobOf[r]].lost \cup (Journalled(JobOf[r], r) \ {r})]
           js == [jobs EXCEPT ![JobOf[r]] = new]
<1>1. \A q \in JobRequests : JobOf[q] \in Jobs
  BY JobsAssumption
<1>2. \A j \in Jobs : jobs'[j] = IF j \in Excess(js)
                                THEN Absent(js[j].lost \cup Journalled(j, r)) ELSE js[j]
  BY DEF Write, PruneJobs
<1>3. js[JobOf[r]] = new /\ \A j \in Jobs : j # JobOf[r] => js[j] = jobs[j]
  BY <1>1 DEF JournalType
<1>4. new.state = st /\ jobs[JobOf[r]].lost \subseteq new.lost
      /\ Journalled(JobOf[r], r) \ {r} \subseteq new.lost
  OBVIOUS
<1> HIDE DEF js, new
<1>5. ASSUME NEW q \in JobRequests, q = r \/ client[q] # "new", OwnsNext(q)
      PROVE  jobs'[JobOf[q]] = js[JobOf[q]]
  <2>1. q \in Journalled(JobOf[q], r)
    BY <1>5 DEF Journalled
  <2>2. CASE JobOf[q] \in Excess(js)
    <3>1. jobs'[JobOf[q]] = Absent(js[JobOf[q]].lost \cup Journalled(JobOf[q], r))
      BY <1>1, <1>2, <2>2
    <3>2. q \in jobs'[JobOf[q]].lost
      BY <2>1, <3>1 DEF Absent
    <3> QED
      BY <1>5, <3>2 DEF Owns, OwnsNext
  <2>3. CASE JobOf[q] \notin Excess(js)
    BY <1>1, <1>2, <2>3
  <2> QED
    BY <2>2, <2>3
<1>6. ASSUME OwnsNext(r)
      PROVE  jobs'[JobOf[r]].state = st /\ (client[r] = "new" \/ Owns(r))
  BY <1>3, <1>4, <1>5, <1>6 DEF Owns, OwnsNext
<1>7. ASSUME NEW q \in JobRequests, q # r, OwnsNext(q)
      PROVE  Owns(q) /\ jobs'[JobOf[q]] = jobs[JobOf[q]]
  <2>1. client[q] # "new"
    BY <1>7 DEF Owns, OwnsNext
  <2>2. jobs'[JobOf[q]] = js[JobOf[q]]
    BY <1>5, <1>7, <2>1
  <2>3. CASE JobOf[q] = JobOf[r]
    <3>1. q \in new.lost
      BY <1>4, <1>7, <2>1, <2>3 DEF Journalled
    <3> QED
      BY <1>3, <1>7, <2>2, <2>3, <3>1 DEF Owns, OwnsNext
  <2>4. CASE JobOf[q] # JobOf[r]
    BY <1>1, <1>3, <1>7, <2>1, <2>2, <2>4 DEF Owns, OwnsNext
  <2> QED
    BY <2>3, <2>4
<1> QED
  BY <1>6, <1>7 DEF Rewrites

LEMMA PersistRewrites ==
  ASSUME JournalType, NEW r \in JobRequests, NEW st, Persist(r, st), UNCHANGED client
  PROVE  Rewrites(r, st)
  BY WriteRewrites DEF Persist

LEMMA FailedRewrites ==
  ASSUME JournalType, NEW r \in JobRequests, PersistFailed(r), UNCHANGED client
  PROVE  Rewrites(r, "failed")
  BY WriteRewrites DEF PersistFailed

(* What the worker's writes do to the records. *)
LEMMA WorkerRewrites ==
  ASSUME Service
  PROVE  /\ WorkerReject => Rewrites(cur, "failed")
         /\ WorkerWait => Rewrites(cur, "waiting")
         /\ WorkerDispatch => Rewrites(cur, "running")
         /\ ExecuteTimesOut => Rewrites(cur, "timed_out")
         /\ ExecuteCancelled => Rewrites(cur, "cancelled")
         /\ WorkerFinish /\ outcome = "cancelled" => Rewrites(cur, "cancelled")
         /\ WorkerFinish /\ outcome \in {"ok", "error"}
              => Rewrites(cur, FinishedState(outcome))
<1>1. JournalType
  BY DEF Service, Typed
<1>2. wpc \in {"reject", "wait", "dispatch", "execute", "finish"} => cur \in JobRequests
  BY DEF Service, CurMatchesPc, Received
<1>3. ASSUME WorkerReject PROVE Rewrites(cur, "failed")
  <2>1. PersistFailed(cur) /\ UNCHANGED client /\ cur \in JobRequests
    BY <1>2, <1>3 DEF WorkerReject
  <2> QED
    BY <1>1, <2>1, FailedRewrites
<1>4. ASSUME WorkerWait PROVE Rewrites(cur, "waiting")
  <2>1. Persist(cur, "waiting") /\ UNCHANGED client /\ cur \in JobRequests
    BY <1>2, <1>4 DEF WorkerWait, clientVars
  <2> QED
    BY <1>1, <2>1, PersistRewrites
<1>5. ASSUME WorkerDispatch PROVE Rewrites(cur, "running")
  <2>1. Persist(cur, "running") /\ UNCHANGED client /\ cur \in JobRequests
    BY <1>2, <1>5 DEF WorkerDispatch, clientVars
  <2> QED
    BY <1>1, <2>1, PersistRewrites
<1>6. ASSUME ExecuteTimesOut PROVE Rewrites(cur, "timed_out")
  <2>1. Persist(cur, "timed_out") /\ UNCHANGED client /\ cur \in JobRequests
    BY <1>2, <1>6 DEF ExecuteTimesOut, EndExecution, clientVars
  <2> QED
    BY <1>1, <2>1, PersistRewrites
<1>7. ASSUME ExecuteCancelled PROVE Rewrites(cur, "cancelled")
  <2>1. Persist(cur, "cancelled") /\ UNCHANGED client /\ cur \in JobRequests
    BY <1>2, <1>7 DEF ExecuteCancelled, EndExecution, clientVars
  <2> QED
    BY <1>1, <2>1, PersistRewrites
<1>8. ASSUME WorkerFinish, outcome = "cancelled" PROVE Rewrites(cur, "cancelled")
  <2>1. Persist(cur, "cancelled") /\ UNCHANGED client /\ cur \in JobRequests
    BY <1>2, <1>8 DEF WorkerFinish, clientVars
  <2> QED
    BY <1>1, <2>1, PersistRewrites
<1>9. ASSUME WorkerFinish, outcome \in {"ok", "error"}
      PROVE  Rewrites(cur, FinishedState(outcome))
  <2>1. Persist(cur, FinishedState(outcome)) /\ UNCHANGED client /\ cur \in JobRequests
    BY <1>2, <1>9 DEF WorkerFinish, clientVars
  <2> QED
    BY <1>1, <2>1, PersistRewrites
<1> QED
  BY <1>3, <1>4, <1>5, <1>6, <1>7, <1>8, <1>9

(* The state of a request's own record, by the place the request is in. *)
Undecided == {"queued", "waiting", "cancelled"}
RecordsOutside ==
  \A r \in JobRequests :
    /\ client[r] = "journalled" => r \in ClientRequests
    /\ Owns(r) =>
         /\ client[r] = "journalled" => jobs[JobOf[r]].state \in Undecided
         /\ client[r] \in {"full", "closed"} /\ r \in ClientRequests /\ answer[r] = "none"
              => jobs[JobOf[r]].state \in Undecided
         /\ r \in Queued \cup retry => jobs[JobOf[r]].state \in Undecided
RecordInside ==
  /\ wpc \in Received /\ Owns(cur) =>
       /\ wpc \in {"received", "gate", "reject", "wait", "dispatch"}
            => jobs[JobOf[cur]].state \in Undecided
       /\ wpc \in {"register", "execute"} => jobs[JobOf[cur]].state = "running"
       /\ wpc \in {"unregister", "finish"} =>
            /\ outcome \in {"ok", "error", "ok_timed_out"}
                 => jobs[JobOf[cur]].state = "running"
            /\ outcome = "cancelled" => jobs[JobOf[cur]].state \in {"running", "cancelled"}
            /\ outcome = "timed_out" => jobs[JobOf[cur]].state = "timed_out"
       /\ wpc = "respond" =>
            /\ outcome = "ok" => jobs[JobOf[cur]].state = "succeeded"
            /\ outcome = "error" => jobs[JobOf[cur]].state = "failed"
            /\ outcome = "cancelled" => jobs[JobOf[cur]].state = "cancelled"
            /\ outcome = "timed_out" => jobs[JobOf[cur]].state = "timed_out"
            /\ outcome = "ok_timed_out" => jobs[JobOf[cur]].state = "running"
  /\ wpc \in {"unregister", "finish", "respond"} /\ outcome = "ok_timed_out"
       => cur \in CaptureRequests

(* The record of an answered request. *)
Agrees(a, st) ==
  \/ a = "ok" /\ st = "succeeded"
  \/ a \in {"error", "rejected", "full", "stopped"} /\ st = "failed"
  \/ a \in {"cancelled", "cancelled_early"} /\ st = "cancelled"
  \/ a = "timed_out" /\ st = "timed_out"
  \/ a = "dropped" /\ st \in Undecided
RecordsAnswered ==
  \A r \in JobRequests :
    Owns(r) =>
      /\ \/ answer[r] = "none"
         \/ Agrees(answer[r], jobs[JobOf[r]].state)
         \/ r \in CaptureRequests /\ answer[r] = "ok" /\ jobs[JobOf[r]].state = "running"
      /\ r \in executed => jobs[JobOf[r]].state \notin {"queued", "waiting", "absent"}

(* A request whose cancellation was acknowledged while it was parked. *)
ParkedIsHeld ==
  \A r \in JobRequests :
    Owns(r) /\ cancelAck[JobOf[r]] = "parked" =>
      /\ r \notin executed
      /\ jobs[JobOf[r]].state \in {"cancelled", "failed"}
      /\ r = cur => wpc = "received"
Journal == RecordsOutside /\ RecordInside /\ RecordsAnswered /\ ParkedIsHeld

(* Every action keeps the records of the requests outside the worker. *)
LEMMA RecordsOutsideStep ==
  ASSUME Service, Journal, [Next]_vars
  PROVE  RecordsOutside'
<1> USE RequestsAssumption
    DEF Service, Typed, ClientType, WorkerType, CurMatchesPc, Received, clientVars,
        workerVars, leaseVars, cancelVars, Owns, OwnsNext
<1>0. ASSUME NEW r \in JobRequests, r \in Queued'
      PROVE  r \in Queued \/ (client[r] # "sent" /\ client'[r] = "sent") \/ r \in retry
  BY <1>0, QueuedFrom DEF JobRequests
<1>99. /\ Queued \subseteq Requests /\ retry \subseteq JobRequests
       /\ LeaseRequests \subseteq ClientRequests
       /\ \A q \in JobRequests : JobOf[q] \in Jobs
  BY JobsAssumption DEF Queued, LeaseType
<1>1. ASSUME NEW r \in Requests, SubmitJournal(r) PROVE RecordsOutside'
  <2>1. r \in JobRequests
    BY <1>1, <1>99 DEF SubmitJournal, ClientRequests
  <2>2. Rewrites(r, "queued")
    BY <1>1, <2>1, WriteRewrites DEF SubmitJournal
  <2> QED
    BY <1>1, <2>1, <2>2, <1>0, <1>99
    DEF Rewrites, SubmitJournal, Journal, RecordsOutside, RecordInside, RecordsAnswered,
      ParkedIsHeld, Undecided, UnservedOutside, UnservedInside, Untouched, PlacesDisjoint,
      EarlyPcs, LatePcs, JobRequests, ClientRequests
<1>2. ASSUME NEW r \in Requests, SubmitSend(r) PROVE RecordsOutside'
  BY <1>2, <1>0, <1>99
  DEF SubmitSend, Journal, RecordsOutside, RecordInside, RecordsAnswered, ParkedIsHeld,
      Undecided, UnservedOutside, UnservedInside, Untouched, PlacesDisjoint, EarlyPcs, LatePcs,
      JobRequests, ClientRequests
<1>3. ASSUME NEW r \in Requests, SubmitRefused(r) PROVE RecordsOutside'
  <2>1. r \in JobRequests
    BY <1>3, <1>99 DEF SubmitRefused, ClientRequests
  <2>2. Rewrites(r, "failed")
    BY <1>3, <2>1, FailedRewrites DEF SubmitRefused
  <2> QED
    BY <1>3, <2>1, <2>2, <1>0, <1>99
    DEF Rewrites, SubmitRefused, Answer, Journal, RecordsOutside, RecordInside, RecordsAnswered,
      ParkedIsHeld, Undecided, UnservedOutside, UnservedInside, Untouched, PlacesDisjoint,
      EarlyPcs, LatePcs, JobRequests, ClientRequests
<1>4. ASSUME NEW r \in Requests, SubmitDropped(r) PROVE RecordsOutside'
  BY <1>4, <1>0, <1>99
  DEF SubmitDropped, Answer, Journal, RecordsOutside, RecordInside, RecordsAnswered,
      ParkedIsHeld, Undecided, UnservedOutside, UnservedInside, Untouched, PlacesDisjoint,
      EarlyPcs, LatePcs, JobRequests, ClientRequests
<1>5. ASSUME NEW r \in Requests, PrivateEnqueue(r) PROVE RecordsOutside'
  BY <1>5, <1>0, <1>99
  DEF PrivateEnqueue, Answer, Journal, RecordsOutside, RecordInside, RecordsAnswered,
      ParkedIsHeld, Undecided, UnservedOutside, UnservedInside, Untouched, PlacesDisjoint,
      EarlyPcs, LatePcs, JobRequests, ClientRequests
<1>6. ASSUME NEW r \in Requests, PrivateGiveUp(r) PROVE RecordsOutside'
  BY <1>6, <1>0, <1>99
  DEF PrivateGiveUp, Answer, Journal, RecordsOutside, RecordInside, RecordsAnswered,
      ParkedIsHeld, Undecided, UnservedOutside, UnservedInside, Untouched, PlacesDisjoint,
      EarlyPcs, LatePcs, JobRequests, ClientRequests
<1>7. ASSUME NEW j \in Jobs, CancelRunning(j) PROVE RecordsOutside'
  BY <1>7, <1>0, <1>99
  DEF CancelRunning, Journal, RecordsOutside, RecordInside, RecordsAnswered, ParkedIsHeld,
      Undecided, UnservedOutside, UnservedInside, Untouched, PlacesDisjoint, EarlyPcs, LatePcs,
      JobRequests, ClientRequests
<1>8. ASSUME NEW j \in Jobs, CancelMiss(j) PROVE RecordsOutside'
  BY <1>8, <1>0, <1>99
  DEF CancelMiss, Journal, RecordsOutside, RecordInside, RecordsAnswered, ParkedIsHeld,
      Undecided, UnservedOutside, UnservedInside, Untouched, PlacesDisjoint, EarlyPcs, LatePcs,
      JobRequests, ClientRequests
<1>9. ASSUME NEW j \in Jobs, CancelPersisted(j) PROVE RecordsOutside'
  <2>1. CASE jobs[j].state \in CancellableStates
    <3>1. \A q \in JobRequests :
            /\ jobs'[JobOf[q]].state =
                 IF JobOf[q] = j THEN "cancelled" ELSE jobs[JobOf[q]].state
            /\ OwnsNext(q) = Owns(q)
      BY <1>9, <2>1, <1>99 DEF CancelPersisted, CancellableStates, JournalType, Record
    <3> QED
      BY <1>9, <2>1, <3>1, <1>0, <1>99
      DEF CancelPersisted, PastCancelCheck, CancellableStates, CancelType, Journal,
          RecordsOutside,
      RecordInside, RecordsAnswered, ParkedIsHeld, Undecided, UnservedOutside, UnservedInside,
      Untouched, PlacesDisjoint, EarlyPcs, LatePcs, JobRequests, ClientRequests
  <2>2. CASE jobs[j].state \notin CancellableStates
    BY <1>9, <2>2, <1>0, <1>99
    DEF CancelPersisted, Journal, RecordsOutside, RecordInside, RecordsAnswered, ParkedIsHeld,
      Undecided, UnservedOutside, UnservedInside, Untouched, PlacesDisjoint, EarlyPcs, LatePcs,
      JobRequests, ClientRequests
  <2> QED
    BY <2>1, <2>2
<1>10. ASSUME WorkerRecv PROVE RecordsOutside'
  BY <1>10, <1>0, <1>99
  DEF WorkerRecv, CountOut, Journal, RecordsOutside, RecordInside, RecordsAnswered,
      ParkedIsHeld, Undecided, UnservedOutside, UnservedInside, Untouched, PlacesDisjoint,
      EarlyPcs, LatePcs, JobRequests, ClientRequests
<1>11. ASSUME WorkerStop PROVE RecordsOutside'
  BY <1>11, <1>0, <1>99
  DEF WorkerStop, Journal, RecordsOutside, RecordInside, RecordsAnswered, ParkedIsHeld,
      Undecided, UnservedOutside, UnservedInside, Untouched, PlacesDisjoint, EarlyPcs, LatePcs,
      JobRequests, ClientRequests
<1>12. ASSUME WorkerCheckCancelled PROVE RecordsOutside'
  BY <1>12, <1>0, <1>99
  DEF WorkerCheckCancelled, Answer, EndWait, Journal, RecordsOutside, RecordInside,
      RecordsAnswered, ParkedIsHeld, Undecided, UnservedOutside, UnservedInside, Untouched,
      PlacesDisjoint, EarlyPcs, LatePcs, JobRequests, ClientRequests
<1>13. ASSUME WorkerGate PROVE RecordsOutside'
  BY <1>13, <1>0, <1>99
  DEF WorkerGate, EndWait, Journal, RecordsOutside, RecordInside, RecordsAnswered,
      ParkedIsHeld, Undecided, UnservedOutside, UnservedInside, Untouched, PlacesDisjoint,
      EarlyPcs, LatePcs, JobRequests, ClientRequests
<1>14. ASSUME WorkerReject PROVE RecordsOutside'
  <2>1. cur \in JobRequests
    BY <1>14, <1>99 DEF WorkerReject, ClientRequests
  <2>2. Rewrites(cur, "failed")
    BY <1>14, WorkerRewrites
  <2> QED
    BY <1>14, <2>1, <2>2, <1>0, <1>99
    DEF Rewrites, WorkerReject, Answer, Journal, RecordsOutside, RecordInside, RecordsAnswered,
      ParkedIsHeld, Undecided, UnservedOutside, UnservedInside, Untouched, PlacesDisjoint,
      EarlyPcs, LatePcs, JobRequests, ClientRequests
<1>15. ASSUME WorkerWait PROVE RecordsOutside'
  <2>1. cur \in JobRequests
    BY <1>15, <1>99 DEF WorkerWait, ClientRequests
  <2>2. Rewrites(cur, "waiting")
    BY <1>15, WorkerRewrites
  <2>3. UNCHANGED <<client, answer, queue>> /\ retry' = retry \cup {cur}
    BY <1>15 DEF WorkerWait, Park
  <2>4. Queued' = Queued
    BY <2>3 DEF Queued
  <2>5. \A q \in JobRequests : client'[q] = "journalled" => q \in ClientRequests
    BY <2>3 DEF Journal, RecordsOutside
  <2>6. OwnsNext(cur) => jobs'[JobOf[cur]].state \in Undecided
    BY <2>2 DEF Rewrites, Undecided
  <2>7. ASSUME NEW q \in JobRequests, q # cur, OwnsNext(q)
        PROVE  Owns(q) /\ jobs'[JobOf[q]] = jobs[JobOf[q]]
    BY <2>2, <2>7 DEF Rewrites
  <2> SUFFICES ASSUME NEW q \in JobRequests, OwnsNext(q)
               PROVE  /\ client[q] = "journalled" => jobs'[JobOf[q]].state \in Undecided
                      /\ client[q] \in {"full", "closed"} /\ q \in ClientRequests
                           /\ answer[q] = "none" => jobs'[JobOf[q]].state \in Undecided
                      /\ q \in Queued \cup retry' => jobs'[JobOf[q]].state \in Undecided
    BY <2>3, <2>4, <2>5 DEF RecordsOutside
  <2>8. CASE q = cur
    BY <2>6, <2>8
  <2>9. CASE q # cur
    BY <2>3, <2>7, <2>9 DEF Journal, RecordsOutside
  <2> QED
    BY <2>8, <2>9
<1>16. ASSUME WorkerDispatch PROVE RecordsOutside'
  <2>1. cur \in JobRequests
    BY <1>16, <1>99 DEF WorkerDispatch, ClientRequests
  <2>2. Rewrites(cur, "running")
    BY <1>16, WorkerRewrites
  <2> QED
    BY <1>16, <2>1, <2>2, <1>0, <1>99
    DEF Rewrites, WorkerDispatch, Journal, RecordsOutside, RecordInside, RecordsAnswered,
      ParkedIsHeld, Undecided, UnservedOutside, UnservedInside, Untouched, PlacesDisjoint,
      EarlyPcs, LatePcs, JobRequests, ClientRequests
<1>17. ASSUME WorkerRegister PROVE RecordsOutside'
  BY <1>17, <1>0, <1>99
  DEF WorkerRegister, Journal, RecordsOutside, RecordInside, RecordsAnswered, ParkedIsHeld,
      Undecided, UnservedOutside, UnservedInside, Untouched, PlacesDisjoint, EarlyPcs, LatePcs,
      JobRequests, ClientRequests
<1>18. ASSUME ExecuteReturns PROVE RecordsOutside'
  BY <1>18, <1>0, <1>99
  DEF ExecuteReturns, EndExecution, Journal, RecordsOutside, RecordInside, RecordsAnswered,
      ParkedIsHeld, Undecided, UnservedOutside, UnservedInside, Untouched, PlacesDisjoint,
      EarlyPcs, LatePcs, JobRequests, ClientRequests
<1>19. ASSUME ExecuteTimesOut PROVE RecordsOutside'
  <2>1. cur \in JobRequests
    BY <1>19, <1>99 DEF ExecuteTimesOut, ClientRequests
  <2>2. Rewrites(cur, "timed_out")
    BY <1>19, WorkerRewrites
  <2> QED
    BY <1>19, <2>1, <2>2, <1>0, <1>99
    DEF Rewrites, ExecuteTimesOut, EndExecution, Journal, RecordsOutside, RecordInside,
      RecordsAnswered, ParkedIsHeld, Undecided, UnservedOutside, UnservedInside, Untouched,
      PlacesDisjoint, EarlyPcs, LatePcs, JobRequests, ClientRequests
<1>20. ASSUME ExecuteCancelled PROVE RecordsOutside'
  <2>1. cur \in JobRequests
    BY <1>20, <1>99 DEF ExecuteCancelled, ClientRequests
  <2>2. Rewrites(cur, "cancelled")
    BY <1>20, WorkerRewrites
  <2> QED
    BY <1>20, <2>1, <2>2, <1>0, <1>99
    DEF Rewrites, ExecuteCancelled, EndExecution, Journal, RecordsOutside, RecordInside,
      RecordsAnswered, ParkedIsHeld, Undecided, UnservedOutside, UnservedInside, Untouched,
      PlacesDisjoint, EarlyPcs, LatePcs, JobRequests, ClientRequests
<1>21. ASSUME ListenCheck PROVE RecordsOutside'
  BY <1>21, <1>0, <1>99
  DEF ListenCheck, Journal, RecordsOutside, RecordInside, RecordsAnswered, ParkedIsHeld,
      Undecided, UnservedOutside, UnservedInside, Untouched, PlacesDisjoint, EarlyPcs, LatePcs,
      JobRequests, ClientRequests
<1>22. ASSUME ListenArm PROVE RecordsOutside'
  BY <1>22, <1>0, <1>99
  DEF ListenArm, Journal, RecordsOutside, RecordInside, RecordsAnswered, ParkedIsHeld,
      Undecided, UnservedOutside, UnservedInside, Untouched, PlacesDisjoint, EarlyPcs, LatePcs,
      JobRequests, ClientRequests
<1>23. ASSUME WorkerUnregister PROVE RecordsOutside'
  BY <1>23, <1>0, <1>99
  DEF WorkerUnregister, Journal, RecordsOutside, RecordInside, RecordsAnswered, ParkedIsHeld,
      Undecided, UnservedOutside, UnservedInside, Untouched, PlacesDisjoint, EarlyPcs, LatePcs,
      JobRequests, ClientRequests
<1>24. ASSUME WorkerFinish PROVE RecordsOutside'
  <2>1. cur \in JobRequests
    BY <1>24 DEF WorkerFinish
  <2>2. CASE outcome = "cancelled"
    <3>1. Rewrites(cur, "cancelled")
      BY <1>24, <2>2, WorkerRewrites
    <3> QED
      BY <1>24, <2>1, <2>2, <3>1, <1>0, <1>99
      DEF WorkerFinish, Rewrites, Journal, RecordsOutside, RecordInside, RecordsAnswered,
      ParkedIsHeld, Undecided, UnservedOutside, UnservedInside, Untouched, PlacesDisjoint,
      EarlyPcs, LatePcs, JobRequests, ClientRequests
  <2>3. CASE outcome \in {"ok", "error"}
    <3>1. Rewrites(cur, FinishedState(outcome))
      BY <1>24, <2>3, WorkerRewrites
    <3> QED
      BY <1>24, <2>1, <2>3, <3>1, <1>0, <1>99
      DEF WorkerFinish, Rewrites, FinishedState, Journal, RecordsOutside, RecordInside,
      RecordsAnswered, ParkedIsHeld, Undecided, UnservedOutside, UnservedInside, Untouched,
      PlacesDisjoint, EarlyPcs, LatePcs, JobRequests, ClientRequests
  <2>4. CASE outcome \in {"timed_out", "ok_timed_out"}
    BY <1>24, <2>1, <2>4, <1>0, <1>99
    DEF WorkerFinish, Journal, RecordsOutside, RecordInside, RecordsAnswered, ParkedIsHeld,
      Undecided, UnservedOutside, UnservedInside, Untouched, PlacesDisjoint, EarlyPcs, LatePcs,
      JobRequests, ClientRequests
  <2> QED
    BY <1>24, <2>2, <2>3, <2>4 DEF WorkerFinish
<1>25. ASSUME WorkerRespond PROVE RecordsOutside'
  BY <1>25, <1>0, <1>99
  DEF WorkerRespond, Answer, Journal, RecordsOutside, RecordInside, RecordsAnswered,
      ParkedIsHeld, Undecided, UnservedOutside, UnservedInside, Untouched, PlacesDisjoint,
      EarlyPcs, LatePcs, JobRequests, ClientRequests
<1>26. ASSUME WorkerFollowUp PROVE RecordsOutside'
  BY <1>26, <1>0, <1>99
  DEF WorkerFollowUp, Journal, RecordsOutside, RecordInside, RecordsAnswered, ParkedIsHeld,
      Undecided, UnservedOutside, UnservedInside, Untouched, PlacesDisjoint, EarlyPcs, LatePcs,
      JobRequests, ClientRequests
<1>27. ASSUME PrivateCheck PROVE RecordsOutside'
  BY <1>27, <1>0, <1>99
  DEF PrivateCheck, Answer, Journal, RecordsOutside, RecordInside, RecordsAnswered,
      ParkedIsHeld, Undecided, UnservedOutside, UnservedInside, Untouched, PlacesDisjoint,
      EarlyPcs, LatePcs, JobRequests, ClientRequests
<1>28. ASSUME PrivateEnd PROVE RecordsOutside'
  BY <1>28, <1>0, <1>99
  DEF PrivateEnd, Answer, Journal, RecordsOutside, RecordInside, RecordsAnswered, ParkedIsHeld,
      Undecided, UnservedOutside, UnservedInside, Untouched, PlacesDisjoint, EarlyPcs, LatePcs,
      JobRequests, ClientRequests
<1>29. ASSUME DrainTick PROVE RecordsOutside'
  BY <1>29, <1>0, <1>99
  DEF DrainTick, Journal, RecordsOutside, RecordInside, RecordsAnswered, ParkedIsHeld,
      Undecided, UnservedOutside, UnservedInside, Untouched, PlacesDisjoint, EarlyPcs, LatePcs,
      JobRequests, ClientRequests
<1>30. ASSUME NEW r \in Requests, MonitorTick(r) PROVE RecordsOutside'
  <2>1. r \in JobRequests /\ r \notin ClientRequests
    BY <1>30 DEF MonitorTick, ClientRequests
  <2>2. \/ Rewrites(r, "queued") /\ client' = [client EXCEPT ![r] = "sent"]
        \/ Rewrites(r, "failed") /\ client' = [client EXCEPT ![r] = "full"]
    <3>1. CASE HasRoom
      <4>1. jobs' = Write(r, "queued", clock + 1) /\ client' = [client EXCEPT ![r] = "sent"]
        BY <1>30, <3>1 DEF MonitorTick
      <4> QED
        BY <2>1, <4>1, WriteRewrites
    <3>2. CASE ~HasRoom
      <4>1. jobs' = Write(r, "failed", clock + 1) /\ client' = [client EXCEPT ![r] = "full"]
        BY <1>30, <3>2 DEF MonitorTick
      <4> QED
        BY <2>1, <4>1, WriteRewrites
    <3> QED
      BY <3>1, <3>2
  <2>3. /\ UNCHANGED <<answer, workerVars, leaseVars>> /\ client[r] = "new"
        /\ cancelAck' = [cancelAck EXCEPT ![JobOf[r]] = "none"]
    BY <1>30 DEF MonitorTick
  <2> QED
    BY <2>1, <2>2, <2>3, <1>0, <1>99
    DEF Rewrites, Journal, RecordsOutside, RecordInside, RecordsAnswered, ParkedIsHeld,
      Undecided, UnservedOutside, UnservedInside, Untouched, PlacesDisjoint, EarlyPcs, LatePcs,
      JobRequests, ClientRequests
<1>31. ASSUME NEW r \in Requests, RetrySend(r) PROVE RecordsOutside'
  BY <1>31, <1>0, <1>99
  DEF RetrySend, Journal, RecordsOutside, RecordInside, RecordsAnswered, ParkedIsHeld,
      Undecided, UnservedOutside, UnservedInside, Untouched, PlacesDisjoint, EarlyPcs, LatePcs,
      JobRequests, ClientRequests
<1>32. ASSUME NEW r \in Requests, RetryStopped(r) PROVE RecordsOutside'
  <2>1. r \in JobRequests /\ client[r] = "sent" /\ r \notin Queued
    BY <1>32, <1>99 DEF RetryStopped, PlacesDisjoint
  <2>2. Rewrites(r, "failed")
    BY <1>32, <2>1, FailedRewrites DEF RetryStopped
  <2>3. Queued' = Queued /\ retry' = retry \ {r} /\ client' = client
    BY <1>32, QueuedStill DEF RetryStopped
  <2>4. \A q \in Requests : q # r => answer'[q] = answer[q]
    BY <1>32 DEF RetryStopped, Answer
  <2> QED
    BY <2>1, <2>2, <2>3, <2>4 DEF Rewrites, Journal, RecordsOutside, Undecided, JobRequests
<1>33. ASSUME ShutdownSend PROVE RecordsOutside'
  BY <1>33, <1>0, <1>99
  DEF ShutdownSend, Journal, RecordsOutside, RecordInside, RecordsAnswered, ParkedIsHeld,
      Undecided, UnservedOutside, UnservedInside, Untouched, PlacesDisjoint, EarlyPcs, LatePcs,
      JobRequests, ClientRequests
<1>34. CASE UNCHANGED vars
  BY <1>34, <1>0, <1>99
  DEF vars, Journal, RecordsOutside, RecordInside, RecordsAnswered, ParkedIsHeld, Undecided,
      UnservedOutside, UnservedInside, Untouched, PlacesDisjoint, EarlyPcs, LatePcs,
      JobRequests, ClientRequests
<1> QED
  BY <1>1, <1>2, <1>3, <1>4, <1>5, <1>6, <1>7, <1>8, <1>9, <1>10, <1>11, <1>12, <1>13,
     <1>14, <1>15, <1>16, <1>17, <1>18, <1>19, <1>20, <1>21, <1>22, <1>23, <1>24, <1>25,
     <1>26, <1>27, <1>28, <1>29, <1>30, <1>31, <1>32, <1>33, <1>34
  DEF Next, ClientStep, CancelStep, WorkerProgress, RetryStep, Quiescent

(* Every action keeps the record of the request the worker holds. *)
LEMMA RecordInsideStep ==
  ASSUME Service, Journal, [Next]_vars
  PROVE  RecordInside'
<1> USE RequestsAssumption
    DEF Service, Typed, ClientType, WorkerType, CurMatchesPc, Received, clientVars,
        workerVars, leaseVars, cancelVars, Owns, OwnsNext
<1>0. ASSUME NEW r \in JobRequests, r \in Queued'
      PROVE  r \in Queued \/ (client[r] # "sent" /\ client'[r] = "sent") \/ r \in retry
  BY <1>0, QueuedFrom DEF JobRequests
<1>99. /\ Queued \subseteq Requests /\ retry \subseteq JobRequests
       /\ LeaseRequests \subseteq ClientRequests
       /\ \A q \in JobRequests : JobOf[q] \in Jobs
  BY JobsAssumption DEF Queued, LeaseType
<1>1. ASSUME NEW r \in Requests, SubmitJournal(r) PROVE RecordInside'
  <2>1. r \in JobRequests
    BY <1>1, <1>99 DEF SubmitJournal, ClientRequests
  <2>2. Rewrites(r, "queued")
    BY <1>1, <2>1, WriteRewrites DEF SubmitJournal
  <2> QED
    BY <1>1, <2>1, <2>2, <1>0, <1>99
    DEF Rewrites, SubmitJournal, Journal, RecordsOutside, RecordInside, RecordsAnswered,
      ParkedIsHeld, Undecided, UnservedOutside, UnservedInside, Untouched, PlacesDisjoint,
      EarlyPcs, LatePcs, JobRequests, ClientRequests
<1>2. ASSUME NEW r \in Requests, SubmitSend(r) PROVE RecordInside'
  BY <1>2, <1>0, <1>99
  DEF SubmitSend, Journal, RecordsOutside, RecordInside, RecordsAnswered, ParkedIsHeld,
      Undecided, UnservedOutside, UnservedInside, Untouched, PlacesDisjoint, EarlyPcs, LatePcs,
      JobRequests, ClientRequests
<1>3. ASSUME NEW r \in Requests, SubmitRefused(r) PROVE RecordInside'
  <2>1. r \in JobRequests
    BY <1>3, <1>99 DEF SubmitRefused, ClientRequests
  <2>2. Rewrites(r, "failed")
    BY <1>3, <2>1, FailedRewrites DEF SubmitRefused
  <2> QED
    BY <1>3, <2>1, <2>2, <1>0, <1>99
    DEF Rewrites, SubmitRefused, Answer, Journal, RecordsOutside, RecordInside, RecordsAnswered,
      ParkedIsHeld, Undecided, UnservedOutside, UnservedInside, Untouched, PlacesDisjoint,
      EarlyPcs, LatePcs, JobRequests, ClientRequests
<1>4. ASSUME NEW r \in Requests, SubmitDropped(r) PROVE RecordInside'
  BY <1>4, <1>0, <1>99
  DEF SubmitDropped, Answer, Journal, RecordsOutside, RecordInside, RecordsAnswered,
      ParkedIsHeld, Undecided, UnservedOutside, UnservedInside, Untouched, PlacesDisjoint,
      EarlyPcs, LatePcs, JobRequests, ClientRequests
<1>5. ASSUME NEW r \in Requests, PrivateEnqueue(r) PROVE RecordInside'
  BY <1>5, <1>0, <1>99
  DEF PrivateEnqueue, Answer, Journal, RecordsOutside, RecordInside, RecordsAnswered,
      ParkedIsHeld, Undecided, UnservedOutside, UnservedInside, Untouched, PlacesDisjoint,
      EarlyPcs, LatePcs, JobRequests, ClientRequests
<1>6. ASSUME NEW r \in Requests, PrivateGiveUp(r) PROVE RecordInside'
  BY <1>6, <1>0, <1>99
  DEF PrivateGiveUp, Answer, Journal, RecordsOutside, RecordInside, RecordsAnswered,
      ParkedIsHeld, Undecided, UnservedOutside, UnservedInside, Untouched, PlacesDisjoint,
      EarlyPcs, LatePcs, JobRequests, ClientRequests
<1>7. ASSUME NEW j \in Jobs, CancelRunning(j) PROVE RecordInside'
  BY <1>7, <1>0, <1>99
  DEF CancelRunning, Journal, RecordsOutside, RecordInside, RecordsAnswered, ParkedIsHeld,
      Undecided, UnservedOutside, UnservedInside, Untouched, PlacesDisjoint, EarlyPcs, LatePcs,
      JobRequests, ClientRequests
<1>8. ASSUME NEW j \in Jobs, CancelMiss(j) PROVE RecordInside'
  BY <1>8, <1>0, <1>99
  DEF CancelMiss, Journal, RecordsOutside, RecordInside, RecordsAnswered, ParkedIsHeld,
      Undecided, UnservedOutside, UnservedInside, Untouched, PlacesDisjoint, EarlyPcs, LatePcs,
      JobRequests, ClientRequests
<1>9. ASSUME NEW j \in Jobs, CancelPersisted(j) PROVE RecordInside'
  <2>1. CASE jobs[j].state \in CancellableStates
    <3>1. \A q \in JobRequests :
            /\ jobs'[JobOf[q]].state =
                 IF JobOf[q] = j THEN "cancelled" ELSE jobs[JobOf[q]].state
            /\ OwnsNext(q) = Owns(q)
      BY <1>9, <2>1, <1>99 DEF CancelPersisted, CancellableStates, JournalType, Record
    <3> QED
      BY <1>9, <2>1, <3>1, <1>0, <1>99
      DEF CancelPersisted, PastCancelCheck, CancellableStates, CancelType, Journal,
          RecordsOutside,
      RecordInside, RecordsAnswered, ParkedIsHeld, Undecided, UnservedOutside, UnservedInside,
      Untouched, PlacesDisjoint, EarlyPcs, LatePcs, JobRequests, ClientRequests
  <2>2. CASE jobs[j].state \notin CancellableStates
    BY <1>9, <2>2, <1>0, <1>99
    DEF CancelPersisted, Journal, RecordsOutside, RecordInside, RecordsAnswered, ParkedIsHeld,
      Undecided, UnservedOutside, UnservedInside, Untouched, PlacesDisjoint, EarlyPcs, LatePcs,
      JobRequests, ClientRequests
  <2> QED
    BY <2>1, <2>2
<1>10. ASSUME WorkerRecv PROVE RecordInside'
  <2>1. cur = None /\ (cur' = None \/ cur' \in Queued)
    BY <1>10, ReceivedFrom
  <2>2. Head(queue) \in Requests \cup {Shutdown}
    BY <1>10, HeadType DEF WorkerRecv
  <2>3. CASE Head(queue) = Shutdown
    BY <1>10, <2>3 DEF WorkerRecv, RecordInside
  <2>4. CASE Head(queue) # Shutdown
    <3>1. cur' \in Queued /\ cur' \in Requests
      BY <1>10, <2>1, <2>2, <2>4 DEF WorkerRecv
    <3>2. wpc' = IF cur' \in PrivateRequests THEN "private_check" ELSE "received"
      BY <1>10, <2>4 DEF WorkerRecv
    <3>3. UNCHANGED jobs
      BY <1>10 DEF WorkerRecv
    <3>4. cur' \in JobRequests /\ Owns(cur') => jobs[JobOf[cur']].state \in Undecided
      BY <3>1 DEF Journal, RecordsOutside
    <3>5. UNCHANGED client
      BY <1>10 DEF WorkerRecv
    <3> QED
      BY <3>1, <3>2, <3>3, <3>4, <3>5 DEF RecordInside, JobRequests
  <2> QED
    BY <2>3, <2>4
<1>11. ASSUME WorkerStop PROVE RecordInside'
  BY <1>11, <1>0, <1>99
  DEF WorkerStop, Journal, RecordsOutside, RecordInside, RecordsAnswered, ParkedIsHeld,
      Undecided, UnservedOutside, UnservedInside, Untouched, PlacesDisjoint, EarlyPcs, LatePcs,
      JobRequests, ClientRequests
<1>12. ASSUME WorkerCheckCancelled PROVE RecordInside'
  BY <1>12, <1>0, <1>99
  DEF WorkerCheckCancelled, Answer, EndWait, Journal, RecordsOutside, RecordInside,
      RecordsAnswered, ParkedIsHeld, Undecided, UnservedOutside, UnservedInside, Untouched,
      PlacesDisjoint, EarlyPcs, LatePcs, JobRequests, ClientRequests
<1>13. ASSUME WorkerGate PROVE RecordInside'
  BY <1>13, <1>0, <1>99
  DEF WorkerGate, EndWait, Journal, RecordsOutside, RecordInside, RecordsAnswered,
      ParkedIsHeld, Undecided, UnservedOutside, UnservedInside, Untouched, PlacesDisjoint,
      EarlyPcs, LatePcs, JobRequests, ClientRequests
<1>14. ASSUME WorkerReject PROVE RecordInside'
  <2>1. cur \in JobRequests
    BY <1>14, <1>99 DEF WorkerReject, ClientRequests
  <2>2. Rewrites(cur, "failed")
    BY <1>14, WorkerRewrites
  <2> QED
    BY <1>14, <2>1, <2>2, <1>0, <1>99
    DEF Rewrites, WorkerReject, Answer, Journal, RecordsOutside, RecordInside, RecordsAnswered,
      ParkedIsHeld, Undecided, UnservedOutside, UnservedInside, Untouched, PlacesDisjoint,
      EarlyPcs, LatePcs, JobRequests, ClientRequests
<1>15. ASSUME WorkerWait PROVE RecordInside'
  <2>1. cur \in JobRequests
    BY <1>15, <1>99 DEF WorkerWait, ClientRequests
  <2>2. Rewrites(cur, "waiting")
    BY <1>15, WorkerRewrites
  <2> QED
    BY <1>15, <2>1, <2>2, <1>0, <1>99
    DEF Rewrites, WorkerWait, Park, Journal, RecordsOutside, RecordInside, RecordsAnswered,
      ParkedIsHeld, Undecided, UnservedOutside, UnservedInside, Untouched, PlacesDisjoint,
      EarlyPcs, LatePcs, JobRequests, ClientRequests
<1>16. ASSUME WorkerDispatch PROVE RecordInside'
  <2>1. cur \in JobRequests
    BY <1>16, <1>99 DEF WorkerDispatch, ClientRequests
  <2>2. Rewrites(cur, "running")
    BY <1>16, WorkerRewrites
  <2> QED
    BY <1>16, <2>1, <2>2, <1>0, <1>99
    DEF Rewrites, WorkerDispatch, Journal, RecordsOutside, RecordInside, RecordsAnswered,
      ParkedIsHeld, Undecided, UnservedOutside, UnservedInside, Untouched, PlacesDisjoint,
      EarlyPcs, LatePcs, JobRequests, ClientRequests
<1>17. ASSUME WorkerRegister PROVE RecordInside'
  BY <1>17, <1>0, <1>99
  DEF WorkerRegister, Journal, RecordsOutside, RecordInside, RecordsAnswered, ParkedIsHeld,
      Undecided, UnservedOutside, UnservedInside, Untouched, PlacesDisjoint, EarlyPcs, LatePcs,
      JobRequests, ClientRequests
<1>18. ASSUME ExecuteReturns PROVE RecordInside'
  BY <1>18, <1>0, <1>99
  DEF ExecuteReturns, EndExecution, Journal, RecordsOutside, RecordInside, RecordsAnswered,
      ParkedIsHeld, Undecided, UnservedOutside, UnservedInside, Untouched, PlacesDisjoint,
      EarlyPcs, LatePcs, JobRequests, ClientRequests
<1>19. ASSUME ExecuteTimesOut PROVE RecordInside'
  <2>1. cur \in JobRequests
    BY <1>19, <1>99 DEF ExecuteTimesOut, ClientRequests
  <2>2. Rewrites(cur, "timed_out")
    BY <1>19, WorkerRewrites
  <2> QED
    BY <1>19, <2>1, <2>2, <1>0, <1>99
    DEF Rewrites, ExecuteTimesOut, EndExecution, Journal, RecordsOutside, RecordInside,
      RecordsAnswered, ParkedIsHeld, Undecided, UnservedOutside, UnservedInside, Untouched,
      PlacesDisjoint, EarlyPcs, LatePcs, JobRequests, ClientRequests
<1>20. ASSUME ExecuteCancelled PROVE RecordInside'
  <2>1. cur \in JobRequests
    BY <1>20, <1>99 DEF ExecuteCancelled, ClientRequests
  <2>2. Rewrites(cur, "cancelled")
    BY <1>20, WorkerRewrites
  <2> QED
    BY <1>20, <2>1, <2>2, <1>0, <1>99
    DEF Rewrites, ExecuteCancelled, EndExecution, Journal, RecordsOutside, RecordInside,
      RecordsAnswered, ParkedIsHeld, Undecided, UnservedOutside, UnservedInside, Untouched,
      PlacesDisjoint, EarlyPcs, LatePcs, JobRequests, ClientRequests
<1>21. ASSUME ListenCheck PROVE RecordInside'
  BY <1>21, <1>0, <1>99
  DEF ListenCheck, Journal, RecordsOutside, RecordInside, RecordsAnswered, ParkedIsHeld,
      Undecided, UnservedOutside, UnservedInside, Untouched, PlacesDisjoint, EarlyPcs, LatePcs,
      JobRequests, ClientRequests
<1>22. ASSUME ListenArm PROVE RecordInside'
  BY <1>22, <1>0, <1>99
  DEF ListenArm, Journal, RecordsOutside, RecordInside, RecordsAnswered, ParkedIsHeld,
      Undecided, UnservedOutside, UnservedInside, Untouched, PlacesDisjoint, EarlyPcs, LatePcs,
      JobRequests, ClientRequests
<1>23. ASSUME WorkerUnregister PROVE RecordInside'
  BY <1>23, <1>0, <1>99
  DEF WorkerUnregister, Journal, RecordsOutside, RecordInside, RecordsAnswered, ParkedIsHeld,
      Undecided, UnservedOutside, UnservedInside, Untouched, PlacesDisjoint, EarlyPcs, LatePcs,
      JobRequests, ClientRequests
<1>24. ASSUME WorkerFinish PROVE RecordInside'
  <2>1. cur \in JobRequests
    BY <1>24 DEF WorkerFinish
  <2>2. CASE outcome = "cancelled"
    <3>1. Rewrites(cur, "cancelled")
      BY <1>24, <2>2, WorkerRewrites
    <3> QED
      BY <1>24, <2>1, <2>2, <3>1, <1>0, <1>99
      DEF WorkerFinish, Rewrites, Journal, RecordsOutside, RecordInside, RecordsAnswered,
      ParkedIsHeld, Undecided, UnservedOutside, UnservedInside, Untouched, PlacesDisjoint,
      EarlyPcs, LatePcs, JobRequests, ClientRequests
  <2>3. CASE outcome \in {"ok", "error"}
    <3>1. Rewrites(cur, FinishedState(outcome))
      BY <1>24, <2>3, WorkerRewrites
    <3> QED
      BY <1>24, <2>1, <2>3, <3>1, <1>0, <1>99
      DEF WorkerFinish, Rewrites, FinishedState, Journal, RecordsOutside, RecordInside,
      RecordsAnswered, ParkedIsHeld, Undecided, UnservedOutside, UnservedInside, Untouched,
      PlacesDisjoint, EarlyPcs, LatePcs, JobRequests, ClientRequests
  <2>4. CASE outcome \in {"timed_out", "ok_timed_out"}
    BY <1>24, <2>1, <2>4, <1>0, <1>99
    DEF WorkerFinish, Journal, RecordsOutside, RecordInside, RecordsAnswered, ParkedIsHeld,
      Undecided, UnservedOutside, UnservedInside, Untouched, PlacesDisjoint, EarlyPcs, LatePcs,
      JobRequests, ClientRequests
  <2> QED
    BY <1>24, <2>2, <2>3, <2>4 DEF WorkerFinish
<1>25. ASSUME WorkerRespond PROVE RecordInside'
  BY <1>25, <1>0, <1>99
  DEF WorkerRespond, Answer, Journal, RecordsOutside, RecordInside, RecordsAnswered,
      ParkedIsHeld, Undecided, UnservedOutside, UnservedInside, Untouched, PlacesDisjoint,
      EarlyPcs, LatePcs, JobRequests, ClientRequests
<1>26. ASSUME WorkerFollowUp PROVE RecordInside'
  BY <1>26, <1>0, <1>99
  DEF WorkerFollowUp, Journal, RecordsOutside, RecordInside, RecordsAnswered, ParkedIsHeld,
      Undecided, UnservedOutside, UnservedInside, Untouched, PlacesDisjoint, EarlyPcs, LatePcs,
      JobRequests, ClientRequests
<1>27. ASSUME PrivateCheck PROVE RecordInside'
  BY <1>27, <1>0, <1>99
  DEF PrivateCheck, Answer, Journal, RecordsOutside, RecordInside, RecordsAnswered,
      ParkedIsHeld, Undecided, UnservedOutside, UnservedInside, Untouched, PlacesDisjoint,
      EarlyPcs, LatePcs, JobRequests, ClientRequests
<1>28. ASSUME PrivateEnd PROVE RecordInside'
  BY <1>28, <1>0, <1>99
  DEF PrivateEnd, Answer, Journal, RecordsOutside, RecordInside, RecordsAnswered, ParkedIsHeld,
      Undecided, UnservedOutside, UnservedInside, Untouched, PlacesDisjoint, EarlyPcs, LatePcs,
      JobRequests, ClientRequests
<1>29. ASSUME DrainTick PROVE RecordInside'
  BY <1>29, <1>0, <1>99
  DEF DrainTick, Journal, RecordsOutside, RecordInside, RecordsAnswered, ParkedIsHeld,
      Undecided, UnservedOutside, UnservedInside, Untouched, PlacesDisjoint, EarlyPcs, LatePcs,
      JobRequests, ClientRequests
<1>30. ASSUME NEW r \in Requests, MonitorTick(r) PROVE RecordInside'
  <2>1. r \in JobRequests /\ r \notin ClientRequests
    BY <1>30 DEF MonitorTick, ClientRequests
  <2>2. \/ Rewrites(r, "queued") /\ client' = [client EXCEPT ![r] = "sent"]
        \/ Rewrites(r, "failed") /\ client' = [client EXCEPT ![r] = "full"]
    <3>1. CASE HasRoom
      <4>1. jobs' = Write(r, "queued", clock + 1) /\ client' = [client EXCEPT ![r] = "sent"]
        BY <1>30, <3>1 DEF MonitorTick
      <4> QED
        BY <2>1, <4>1, WriteRewrites
    <3>2. CASE ~HasRoom
      <4>1. jobs' = Write(r, "failed", clock + 1) /\ client' = [client EXCEPT ![r] = "full"]
        BY <1>30, <3>2 DEF MonitorTick
      <4> QED
        BY <2>1, <4>1, WriteRewrites
    <3> QED
      BY <3>1, <3>2
  <2>3. /\ UNCHANGED <<answer, workerVars, leaseVars>> /\ client[r] = "new"
        /\ cancelAck' = [cancelAck EXCEPT ![JobOf[r]] = "none"]
    BY <1>30 DEF MonitorTick
  <2> QED
    BY <2>1, <2>2, <2>3, <1>0, <1>99
    DEF Rewrites, Journal, RecordsOutside, RecordInside, RecordsAnswered, ParkedIsHeld,
      Undecided, UnservedOutside, UnservedInside, Untouched, PlacesDisjoint, EarlyPcs, LatePcs,
      JobRequests, ClientRequests
<1>31. ASSUME NEW r \in Requests, RetrySend(r) PROVE RecordInside'
  BY <1>31, <1>0, <1>99
  DEF RetrySend, Journal, RecordsOutside, RecordInside, RecordsAnswered, ParkedIsHeld,
      Undecided, UnservedOutside, UnservedInside, Untouched, PlacesDisjoint, EarlyPcs, LatePcs,
      JobRequests, ClientRequests
<1>32. ASSUME NEW r \in Requests, RetryStopped(r) PROVE RecordInside'
  <2>1. r \in JobRequests
    BY <1>32, <1>99 DEF RetryStopped, ClientRequests
  <2>2. Rewrites(r, "failed")
    BY <1>32, <2>1, FailedRewrites DEF RetryStopped
  <2> QED
    BY <1>32, <2>1, <2>2, <1>0, <1>99
    DEF Rewrites, RetryStopped, Answer, EndWait, Journal, RecordsOutside, RecordInside,
      RecordsAnswered, ParkedIsHeld, Undecided, UnservedOutside, UnservedInside, Untouched,
      PlacesDisjoint, EarlyPcs, LatePcs, JobRequests, ClientRequests
<1>33. ASSUME ShutdownSend PROVE RecordInside'
  BY <1>33, <1>0, <1>99
  DEF ShutdownSend, Journal, RecordsOutside, RecordInside, RecordsAnswered, ParkedIsHeld,
      Undecided, UnservedOutside, UnservedInside, Untouched, PlacesDisjoint, EarlyPcs, LatePcs,
      JobRequests, ClientRequests
<1>34. CASE UNCHANGED vars
  BY <1>34, <1>0, <1>99
  DEF vars, Journal, RecordsOutside, RecordInside, RecordsAnswered, ParkedIsHeld, Undecided,
      UnservedOutside, UnservedInside, Untouched, PlacesDisjoint, EarlyPcs, LatePcs,
      JobRequests, ClientRequests
<1> QED
  BY <1>1, <1>2, <1>3, <1>4, <1>5, <1>6, <1>7, <1>8, <1>9, <1>10, <1>11, <1>12, <1>13,
     <1>14, <1>15, <1>16, <1>17, <1>18, <1>19, <1>20, <1>21, <1>22, <1>23, <1>24, <1>25,
     <1>26, <1>27, <1>28, <1>29, <1>30, <1>31, <1>32, <1>33, <1>34
  DEF Next, ClientStep, CancelStep, WorkerProgress, RetryStep, Quiescent

(* Every action keeps the records of the answered and executed requests. *)
LEMMA RecordsAnsweredStep ==
  ASSUME Service, Journal, [Next]_vars
  PROVE  RecordsAnswered'
<1> USE RequestsAssumption
    DEF Service, Typed, ClientType, WorkerType, CurMatchesPc, Received, clientVars,
        workerVars, leaseVars, cancelVars, Owns, OwnsNext
<1>0. ASSUME NEW r \in JobRequests, r \in Queued'
      PROVE  r \in Queued \/ (client[r] # "sent" /\ client'[r] = "sent") \/ r \in retry
  BY <1>0, QueuedFrom DEF JobRequests
<1>99. /\ Queued \subseteq Requests /\ retry \subseteq JobRequests
       /\ LeaseRequests \subseteq ClientRequests
       /\ \A q \in JobRequests : JobOf[q] \in Jobs
  BY JobsAssumption DEF Queued, LeaseType
<1>1. ASSUME NEW r \in Requests, SubmitJournal(r) PROVE RecordsAnswered'
  <2>1. r \in JobRequests
    BY <1>1, <1>99 DEF SubmitJournal, ClientRequests
  <2>2. Rewrites(r, "queued")
    BY <1>1, <2>1, WriteRewrites DEF SubmitJournal
  <2> QED
    BY <1>1, <2>1, <2>2, <1>0, <1>99
    DEF Rewrites, SubmitJournal, Journal, RecordsOutside, RecordInside, RecordsAnswered,
      ParkedIsHeld, Undecided, UnservedOutside, UnservedInside, Untouched, PlacesDisjoint,
      EarlyPcs, LatePcs, JobRequests, ClientRequests, Agrees, JobCancelled
<1>2. ASSUME NEW r \in Requests, SubmitSend(r) PROVE RecordsAnswered'
  BY <1>2, <1>0, <1>99
  DEF SubmitSend, Journal, RecordsOutside, RecordInside, RecordsAnswered, ParkedIsHeld,
      Undecided, UnservedOutside, UnservedInside, Untouched, PlacesDisjoint, EarlyPcs, LatePcs,
      JobRequests, ClientRequests, Agrees, JobCancelled
<1>3. ASSUME NEW r \in Requests, SubmitRefused(r) PROVE RecordsAnswered'
  <2>1. r \in JobRequests
    BY <1>3, <1>99 DEF SubmitRefused, ClientRequests
  <2>2. Rewrites(r, "failed")
    BY <1>3, <2>1, FailedRewrites DEF SubmitRefused
  <2> QED
    BY <1>3, <2>1, <2>2, <1>0, <1>99
    DEF Rewrites, SubmitRefused, Answer, Journal, RecordsOutside, RecordInside, RecordsAnswered,
      ParkedIsHeld, Undecided, UnservedOutside, UnservedInside, Untouched, PlacesDisjoint,
      EarlyPcs, LatePcs, JobRequests, ClientRequests, Agrees, JobCancelled
<1>4. ASSUME NEW r \in Requests, SubmitDropped(r) PROVE RecordsAnswered'
  BY <1>4, <1>0, <1>99
  DEF SubmitDropped, Answer, Journal, RecordsOutside, RecordInside, RecordsAnswered,
      ParkedIsHeld, Undecided, UnservedOutside, UnservedInside, Untouched, PlacesDisjoint,
      EarlyPcs, LatePcs, JobRequests, ClientRequests, Agrees, JobCancelled
<1>5. ASSUME NEW r \in Requests, PrivateEnqueue(r) PROVE RecordsAnswered'
  BY <1>5, <1>0, <1>99
  DEF PrivateEnqueue, Answer, Journal, RecordsOutside, RecordInside, RecordsAnswered,
      ParkedIsHeld, Undecided, UnservedOutside, UnservedInside, Untouched, PlacesDisjoint,
      EarlyPcs, LatePcs, JobRequests, ClientRequests, Agrees, JobCancelled
<1>6. ASSUME NEW r \in Requests, PrivateGiveUp(r) PROVE RecordsAnswered'
  BY <1>6, <1>0, <1>99
  DEF PrivateGiveUp, Answer, Journal, RecordsOutside, RecordInside, RecordsAnswered,
      ParkedIsHeld, Undecided, UnservedOutside, UnservedInside, Untouched, PlacesDisjoint,
      EarlyPcs, LatePcs, JobRequests, ClientRequests, Agrees, JobCancelled
<1>7. ASSUME NEW j \in Jobs, CancelRunning(j) PROVE RecordsAnswered'
  BY <1>7, <1>0, <1>99
  DEF CancelRunning, Journal, RecordsOutside, RecordInside, RecordsAnswered, ParkedIsHeld,
      Undecided, UnservedOutside, UnservedInside, Untouched, PlacesDisjoint, EarlyPcs, LatePcs,
      JobRequests, ClientRequests, Agrees, JobCancelled
<1>8. ASSUME NEW j \in Jobs, CancelMiss(j) PROVE RecordsAnswered'
  BY <1>8, <1>0, <1>99
  DEF CancelMiss, Journal, RecordsOutside, RecordInside, RecordsAnswered, ParkedIsHeld,
      Undecided, UnservedOutside, UnservedInside, Untouched, PlacesDisjoint, EarlyPcs, LatePcs,
      JobRequests, ClientRequests, Agrees, JobCancelled
<1>9. ASSUME NEW j \in Jobs, CancelPersisted(j) PROVE RecordsAnswered'
  <2>1. CASE jobs[j].state \in CancellableStates
    <3>1. \A q \in JobRequests :
            /\ jobs'[JobOf[q]].state =
                 IF JobOf[q] = j THEN "cancelled" ELSE jobs[JobOf[q]].state
            /\ OwnsNext(q) = Owns(q)
      BY <1>9, <2>1, <1>99 DEF CancelPersisted, CancellableStates, JournalType, Record
    <3> QED
      BY <1>9, <2>1, <3>1, <1>0, <1>99
      DEF CancelPersisted, PastCancelCheck, CancellableStates, CancelType, Journal,
          RecordsOutside,
      RecordInside, RecordsAnswered, ParkedIsHeld, Undecided, UnservedOutside, UnservedInside,
      Untouched, PlacesDisjoint, EarlyPcs, LatePcs, JobRequests, ClientRequests, Agrees,
      JobCancelled
  <2>2. CASE jobs[j].state \notin CancellableStates
    BY <1>9, <2>2, <1>0, <1>99
    DEF CancelPersisted, Journal, RecordsOutside, RecordInside, RecordsAnswered, ParkedIsHeld,
      Undecided, UnservedOutside, UnservedInside, Untouched, PlacesDisjoint, EarlyPcs, LatePcs,
      JobRequests, ClientRequests, Agrees, JobCancelled
  <2> QED
    BY <2>1, <2>2
<1>10. ASSUME WorkerRecv PROVE RecordsAnswered'
  BY <1>10, <1>0, <1>99
  DEF WorkerRecv, CountOut, Journal, RecordsOutside, RecordInside, RecordsAnswered,
      ParkedIsHeld, Undecided, UnservedOutside, UnservedInside, Untouched, PlacesDisjoint,
      EarlyPcs, LatePcs, JobRequests, ClientRequests, Agrees, JobCancelled
<1>11. ASSUME WorkerStop PROVE RecordsAnswered'
  BY <1>11, <1>0, <1>99
  DEF WorkerStop, Journal, RecordsOutside, RecordInside, RecordsAnswered, ParkedIsHeld,
      Undecided, UnservedOutside, UnservedInside, Untouched, PlacesDisjoint, EarlyPcs, LatePcs,
      JobRequests, ClientRequests, Agrees, JobCancelled
<1>12. ASSUME WorkerCheckCancelled PROVE RecordsAnswered'
  BY <1>12, <1>0, <1>99
  DEF WorkerCheckCancelled, Answer, EndWait, Journal, RecordsOutside, RecordInside,
      RecordsAnswered, ParkedIsHeld, Undecided, UnservedOutside, UnservedInside, Untouched,
      PlacesDisjoint, EarlyPcs, LatePcs, JobRequests, ClientRequests, Agrees, JobCancelled
<1>13. ASSUME WorkerGate PROVE RecordsAnswered'
  BY <1>13, <1>0, <1>99
  DEF WorkerGate, EndWait, Journal, RecordsOutside, RecordInside, RecordsAnswered,
      ParkedIsHeld, Undecided, UnservedOutside, UnservedInside, Untouched, PlacesDisjoint,
      EarlyPcs, LatePcs, JobRequests, ClientRequests, Agrees, JobCancelled
<1>14. ASSUME WorkerReject PROVE RecordsAnswered'
  <2>1. cur \in JobRequests
    BY <1>14, <1>99 DEF WorkerReject, ClientRequests
  <2>2. Rewrites(cur, "failed")
    BY <1>14, WorkerRewrites
  <2>3. UNCHANGED executed /\ answer' = [answer EXCEPT ![cur] = "rejected"]
    BY <1>14 DEF WorkerReject, Answer
  <2>4. /\ answer'[cur] = "rejected"
        /\ \A q \in JobRequests : q # cur => answer'[q] = answer[q]
    BY <2>1, <2>3 DEF JobRequests
  <2>5. OwnsNext(cur) => jobs'[JobOf[cur]].state = "failed"
    BY <2>2 DEF Rewrites
  <2>6. ASSUME NEW q \in JobRequests, q # cur, OwnsNext(q)
        PROVE  Owns(q) /\ jobs'[JobOf[q]] = jobs[JobOf[q]]
    BY <2>2, <2>6 DEF Rewrites
  <2> SUFFICES ASSUME NEW q \in JobRequests, OwnsNext(q)
               PROVE  /\ \/ answer'[q] = "none"
                         \/ Agrees(answer'[q], jobs'[JobOf[q]].state)
                         \/ /\ q \in CaptureRequests /\ answer'[q] = "ok"
                            /\ jobs'[JobOf[q]].state = "running"
                      /\ q \in executed =>
                           jobs'[JobOf[q]].state \notin {"queued", "waiting", "absent"}
    BY <2>3 DEF RecordsAnswered, Agrees
  <2>7. CASE q = cur
    BY <2>4, <2>5, <2>7 DEF Agrees
  <2>8. CASE q # cur
    BY <2>4, <2>6, <2>8 DEF Journal, RecordsAnswered
  <2> QED
    BY <2>7, <2>8
<1>15. ASSUME WorkerWait PROVE RecordsAnswered'
  <2>1. cur \in JobRequests
    BY <1>15, <1>99 DEF WorkerWait, ClientRequests
  <2>2. Rewrites(cur, "waiting")
    BY <1>15, WorkerRewrites
  <2> QED
    BY <1>15, <2>1, <2>2, <1>0, <1>99
    DEF Rewrites, WorkerWait, Park, Journal, RecordsOutside, RecordInside, RecordsAnswered,
      ParkedIsHeld, Undecided, UnservedOutside, UnservedInside, Untouched, PlacesDisjoint,
      EarlyPcs, LatePcs, JobRequests, ClientRequests, Agrees, JobCancelled
<1>16. ASSUME WorkerDispatch PROVE RecordsAnswered'
  <2>1. cur \in JobRequests
    BY <1>16, <1>99 DEF WorkerDispatch, ClientRequests
  <2>2. Rewrites(cur, "running")
    BY <1>16, WorkerRewrites
  <2> QED
    BY <1>16, <2>1, <2>2, <1>0, <1>99
    DEF Rewrites, WorkerDispatch, Journal, RecordsOutside, RecordInside, RecordsAnswered,
      ParkedIsHeld, Undecided, UnservedOutside, UnservedInside, Untouched, PlacesDisjoint,
      EarlyPcs, LatePcs, JobRequests, ClientRequests, Agrees, JobCancelled
<1>17. ASSUME WorkerRegister PROVE RecordsAnswered'
  BY <1>17, <1>0, <1>99
  DEF WorkerRegister, Journal, RecordsOutside, RecordInside, RecordsAnswered, ParkedIsHeld,
      Undecided, UnservedOutside, UnservedInside, Untouched, PlacesDisjoint, EarlyPcs, LatePcs,
      JobRequests, ClientRequests, Agrees, JobCancelled
<1>18. ASSUME ExecuteReturns PROVE RecordsAnswered'
  BY <1>18, <1>0, <1>99
  DEF ExecuteReturns, EndExecution, Journal, RecordsOutside, RecordInside, RecordsAnswered,
      ParkedIsHeld, Undecided, UnservedOutside, UnservedInside, Untouched, PlacesDisjoint,
      EarlyPcs, LatePcs, JobRequests, ClientRequests, Agrees, JobCancelled
<1>19. ASSUME ExecuteTimesOut PROVE RecordsAnswered'
  <2>1. cur \in JobRequests
    BY <1>19, <1>99 DEF ExecuteTimesOut, ClientRequests
  <2>2. Rewrites(cur, "timed_out")
    BY <1>19, WorkerRewrites
  <2> QED
    BY <1>19, <2>1, <2>2, <1>0, <1>99
    DEF Rewrites, ExecuteTimesOut, EndExecution, Journal, RecordsOutside, RecordInside,
      RecordsAnswered, ParkedIsHeld, Undecided, UnservedOutside, UnservedInside, Untouched,
      PlacesDisjoint, EarlyPcs, LatePcs, JobRequests, ClientRequests, Agrees, JobCancelled
<1>20. ASSUME ExecuteCancelled PROVE RecordsAnswered'
  <2>1. cur \in JobRequests
    BY <1>20, <1>99 DEF ExecuteCancelled, ClientRequests
  <2>2. Rewrites(cur, "cancelled")
    BY <1>20, WorkerRewrites
  <2> QED
    BY <1>20, <2>1, <2>2, <1>0, <1>99
    DEF Rewrites, ExecuteCancelled, EndExecution, Journal, RecordsOutside, RecordInside,
      RecordsAnswered, ParkedIsHeld, Undecided, UnservedOutside, UnservedInside, Untouched,
      PlacesDisjoint, EarlyPcs, LatePcs, JobRequests, ClientRequests, Agrees, JobCancelled
<1>21. ASSUME ListenCheck PROVE RecordsAnswered'
  BY <1>21, <1>0, <1>99
  DEF ListenCheck, Journal, RecordsOutside, RecordInside, RecordsAnswered, ParkedIsHeld,
      Undecided, UnservedOutside, UnservedInside, Untouched, PlacesDisjoint, EarlyPcs, LatePcs,
      JobRequests, ClientRequests, Agrees, JobCancelled
<1>22. ASSUME ListenArm PROVE RecordsAnswered'
  BY <1>22, <1>0, <1>99
  DEF ListenArm, Journal, RecordsOutside, RecordInside, RecordsAnswered, ParkedIsHeld,
      Undecided, UnservedOutside, UnservedInside, Untouched, PlacesDisjoint, EarlyPcs, LatePcs,
      JobRequests, ClientRequests, Agrees, JobCancelled
<1>23. ASSUME WorkerUnregister PROVE RecordsAnswered'
  BY <1>23, <1>0, <1>99
  DEF WorkerUnregister, Journal, RecordsOutside, RecordInside, RecordsAnswered, ParkedIsHeld,
      Undecided, UnservedOutside, UnservedInside, Untouched, PlacesDisjoint, EarlyPcs, LatePcs,
      JobRequests, ClientRequests, Agrees, JobCancelled
<1>24. ASSUME WorkerFinish PROVE RecordsAnswered'
  <2>1. cur \in JobRequests
    BY <1>24 DEF WorkerFinish
  <2>2. CASE outcome = "cancelled"
    <3>1. Rewrites(cur, "cancelled")
      BY <1>24, <2>2, WorkerRewrites
    <3> QED
      BY <1>24, <2>1, <2>2, <3>1, <1>0, <1>99
      DEF WorkerFinish, Rewrites, Journal, RecordsOutside, RecordInside, RecordsAnswered,
      ParkedIsHeld, Undecided, UnservedOutside, UnservedInside, Untouched, PlacesDisjoint,
      EarlyPcs, LatePcs, JobRequests, ClientRequests, Agrees, JobCancelled
  <2>3. CASE outcome \in {"ok", "error"}
    <3>1. Rewrites(cur, FinishedState(outcome))
      BY <1>24, <2>3, WorkerRewrites
    <3> QED
      BY <1>24, <2>1, <2>3, <3>1, <1>0, <1>99
      DEF WorkerFinish, Rewrites, FinishedState, Journal, RecordsOutside, RecordInside,
      RecordsAnswered, ParkedIsHeld, Undecided, UnservedOutside, UnservedInside, Untouched,
      PlacesDisjoint, EarlyPcs, LatePcs, JobRequests, ClientRequests, Agrees, JobCancelled
  <2>4. CASE outcome \in {"timed_out", "ok_timed_out"}
    BY <1>24, <2>1, <2>4, <1>0, <1>99
    DEF WorkerFinish, Journal, RecordsOutside, RecordInside, RecordsAnswered, ParkedIsHeld,
      Undecided, UnservedOutside, UnservedInside, Untouched, PlacesDisjoint, EarlyPcs, LatePcs,
      JobRequests, ClientRequests, Agrees, JobCancelled
  <2> QED
    BY <1>24, <2>2, <2>3, <2>4 DEF WorkerFinish
<1>25. ASSUME WorkerRespond PROVE RecordsAnswered'
  <2>1. cur \in JobRequests /\ outcome \in Outcomes \ {"none"} /\ cur \in executed
    BY <1>25 DEF WorkerRespond, UnservedInside, LatePcs
  <2>2. UNCHANGED <<jobs, executed, client>>
    BY <1>25 DEF WorkerRespond
  <2>3. answer' = [answer EXCEPT ![cur] = IF outcome = "ok_timed_out" THEN "ok" ELSE outcome]
    BY <1>25 DEF WorkerRespond, Answer
  <2>4. \/ ~Owns(cur)
        \/ Agrees(answer'[cur], jobs[JobOf[cur]].state)
        \/ cur \in CaptureRequests /\ answer'[cur] = "ok" /\ jobs[JobOf[cur]].state = "running"
    BY <1>25, <2>1, <2>3
    DEF WorkerRespond, Journal, RecordInside, Agrees, Outcomes, JobRequests
  <2>5. \A q \in JobRequests : q # cur => answer'[q] = answer[q]
    BY <2>1, <2>3 DEF JobRequests
  <2> QED
    BY <2>1, <2>2, <2>4, <2>5 DEF Journal, RecordsAnswered
<1>26. ASSUME WorkerFollowUp PROVE RecordsAnswered'
  BY <1>26, <1>0, <1>99
  DEF WorkerFollowUp, Journal, RecordsOutside, RecordInside, RecordsAnswered, ParkedIsHeld,
      Undecided, UnservedOutside, UnservedInside, Untouched, PlacesDisjoint, EarlyPcs, LatePcs,
      JobRequests, ClientRequests, Agrees, JobCancelled
<1>27. ASSUME PrivateCheck PROVE RecordsAnswered'
  BY <1>27, <1>0, <1>99
  DEF PrivateCheck, Answer, Journal, RecordsOutside, RecordInside, RecordsAnswered,
      ParkedIsHeld, Undecided, UnservedOutside, UnservedInside, Untouched, PlacesDisjoint,
      EarlyPcs, LatePcs, JobRequests, ClientRequests, Agrees, JobCancelled
<1>28. ASSUME PrivateEnd PROVE RecordsAnswered'
  BY <1>28, <1>0, <1>99
  DEF PrivateEnd, Answer, Journal, RecordsOutside, RecordInside, RecordsAnswered, ParkedIsHeld,
      Undecided, UnservedOutside, UnservedInside, Untouched, PlacesDisjoint, EarlyPcs, LatePcs,
      JobRequests, ClientRequests, Agrees, JobCancelled
<1>29. ASSUME DrainTick PROVE RecordsAnswered'
  BY <1>29, <1>0, <1>99
  DEF DrainTick, Journal, RecordsOutside, RecordInside, RecordsAnswered, ParkedIsHeld,
      Undecided, UnservedOutside, UnservedInside, Untouched, PlacesDisjoint, EarlyPcs, LatePcs,
      JobRequests, ClientRequests, Agrees, JobCancelled
<1>30. ASSUME NEW r \in Requests, MonitorTick(r) PROVE RecordsAnswered'
  <2>1. r \in JobRequests /\ r \notin ClientRequests
    BY <1>30 DEF MonitorTick, ClientRequests
  <2>2. \/ Rewrites(r, "queued") /\ client' = [client EXCEPT ![r] = "sent"]
        \/ Rewrites(r, "failed") /\ client' = [client EXCEPT ![r] = "full"]
    <3>1. CASE HasRoom
      <4>1. jobs' = Write(r, "queued", clock + 1) /\ client' = [client EXCEPT ![r] = "sent"]
        BY <1>30, <3>1 DEF MonitorTick
      <4> QED
        BY <2>1, <4>1, WriteRewrites
    <3>2. CASE ~HasRoom
      <4>1. jobs' = Write(r, "failed", clock + 1) /\ client' = [client EXCEPT ![r] = "full"]
        BY <1>30, <3>2 DEF MonitorTick
      <4> QED
        BY <2>1, <4>1, WriteRewrites
    <3> QED
      BY <3>1, <3>2
  <2>3. /\ UNCHANGED <<answer, workerVars, leaseVars>> /\ client[r] = "new"
        /\ cancelAck' = [cancelAck EXCEPT ![JobOf[r]] = "none"]
    BY <1>30 DEF MonitorTick
  <2> QED
    BY <2>1, <2>2, <2>3, <1>0, <1>99
    DEF Rewrites, Journal, RecordsOutside, RecordInside, RecordsAnswered, ParkedIsHeld,
      Undecided, UnservedOutside, UnservedInside, Untouched, PlacesDisjoint, EarlyPcs, LatePcs,
      JobRequests, ClientRequests, Agrees, JobCancelled
<1>31. ASSUME NEW r \in Requests, RetrySend(r) PROVE RecordsAnswered'
  BY <1>31, <1>0, <1>99
  DEF RetrySend, Journal, RecordsOutside, RecordInside, RecordsAnswered, ParkedIsHeld,
      Undecided, UnservedOutside, UnservedInside, Untouched, PlacesDisjoint, EarlyPcs, LatePcs,
      JobRequests, ClientRequests, Agrees, JobCancelled
<1>32. ASSUME NEW r \in Requests, RetryStopped(r) PROVE RecordsAnswered'
  <2>1. r \in JobRequests
    BY <1>32, <1>99 DEF RetryStopped, ClientRequests
  <2>2. Rewrites(r, "failed")
    BY <1>32, <2>1, FailedRewrites DEF RetryStopped
  <2> QED
    BY <1>32, <2>1, <2>2, <1>0, <1>99
    DEF Rewrites, RetryStopped, Answer, EndWait, Journal, RecordsOutside, RecordInside,
      RecordsAnswered, ParkedIsHeld, Undecided, UnservedOutside, UnservedInside, Untouched,
      PlacesDisjoint, EarlyPcs, LatePcs, JobRequests, ClientRequests, Agrees, JobCancelled
<1>33. ASSUME ShutdownSend PROVE RecordsAnswered'
  BY <1>33, <1>0, <1>99
  DEF ShutdownSend, Journal, RecordsOutside, RecordInside, RecordsAnswered, ParkedIsHeld,
      Undecided, UnservedOutside, UnservedInside, Untouched, PlacesDisjoint, EarlyPcs, LatePcs,
      JobRequests, ClientRequests, Agrees, JobCancelled
<1>34. CASE UNCHANGED vars
  BY <1>34, <1>0, <1>99
  DEF vars, Journal, RecordsOutside, RecordInside, RecordsAnswered, ParkedIsHeld, Undecided,
      UnservedOutside, UnservedInside, Untouched, PlacesDisjoint, EarlyPcs, LatePcs,
      JobRequests, ClientRequests, Agrees, JobCancelled
<1> QED
  BY <1>1, <1>2, <1>3, <1>4, <1>5, <1>6, <1>7, <1>8, <1>9, <1>10, <1>11, <1>12, <1>13,
     <1>14, <1>15, <1>16, <1>17, <1>18, <1>19, <1>20, <1>21, <1>22, <1>23, <1>24, <1>25,
     <1>26, <1>27, <1>28, <1>29, <1>30, <1>31, <1>32, <1>33, <1>34
  DEF Next, ClientStep, CancelStep, WorkerProgress, RetryStep, Quiescent

(* Every action keeps a request cancelled while parked from execution. *)
LEMMA ParkedStep ==
  ASSUME Service, Journal, [Next]_vars
  PROVE  ParkedIsHeld'
<1> USE RequestsAssumption
    DEF Service, Typed, ClientType, WorkerType, CurMatchesPc, Received, clientVars,
        workerVars, leaseVars, cancelVars, Owns, OwnsNext
<1>0. ASSUME NEW r \in JobRequests, r \in Queued'
      PROVE  r \in Queued \/ (client[r] # "sent" /\ client'[r] = "sent") \/ r \in retry
  BY <1>0, QueuedFrom DEF JobRequests
<1>99. /\ Queued \subseteq Requests /\ retry \subseteq JobRequests
       /\ LeaseRequests \subseteq ClientRequests
       /\ \A q \in JobRequests : JobOf[q] \in Jobs
  BY JobsAssumption DEF Queued, LeaseType
<1>1. ASSUME NEW r \in Requests, SubmitJournal(r) PROVE ParkedIsHeld'
  <2>1. r \in JobRequests
    BY <1>1, <1>99 DEF SubmitJournal, ClientRequests
  <2>2. Rewrites(r, "queued")
    BY <1>1, <2>1, WriteRewrites DEF SubmitJournal
  <2> QED
    BY <1>1, <2>1, <2>2, <1>0, <1>99
    DEF Rewrites, SubmitJournal, Journal, RecordsOutside, RecordInside, RecordsAnswered,
      ParkedIsHeld, Undecided, UnservedOutside, UnservedInside, Untouched, PlacesDisjoint,
      EarlyPcs, LatePcs, JobRequests, ClientRequests, JobCancelled, CancelType
<1>2. ASSUME NEW r \in Requests, SubmitSend(r) PROVE ParkedIsHeld'
  BY <1>2, <1>0, <1>99
  DEF SubmitSend, Journal, RecordsOutside, RecordInside, RecordsAnswered, ParkedIsHeld,
      Undecided, UnservedOutside, UnservedInside, Untouched, PlacesDisjoint, EarlyPcs, LatePcs,
      JobRequests, ClientRequests, JobCancelled, CancelType
<1>3. ASSUME NEW r \in Requests, SubmitRefused(r) PROVE ParkedIsHeld'
  <2>1. r \in JobRequests
    BY <1>3, <1>99 DEF SubmitRefused, ClientRequests
  <2>2. Rewrites(r, "failed")
    BY <1>3, <2>1, FailedRewrites DEF SubmitRefused
  <2> QED
    BY <1>3, <2>1, <2>2, <1>0, <1>99
    DEF Rewrites, SubmitRefused, Answer, Journal, RecordsOutside, RecordInside, RecordsAnswered,
      ParkedIsHeld, Undecided, UnservedOutside, UnservedInside, Untouched, PlacesDisjoint,
      EarlyPcs, LatePcs, JobRequests, ClientRequests, JobCancelled, CancelType
<1>4. ASSUME NEW r \in Requests, SubmitDropped(r) PROVE ParkedIsHeld'
  BY <1>4, <1>0, <1>99
  DEF SubmitDropped, Answer, Journal, RecordsOutside, RecordInside, RecordsAnswered,
      ParkedIsHeld, Undecided, UnservedOutside, UnservedInside, Untouched, PlacesDisjoint,
      EarlyPcs, LatePcs, JobRequests, ClientRequests, JobCancelled, CancelType
<1>5. ASSUME NEW r \in Requests, PrivateEnqueue(r) PROVE ParkedIsHeld'
  BY <1>5, <1>0, <1>99
  DEF PrivateEnqueue, Answer, Journal, RecordsOutside, RecordInside, RecordsAnswered,
      ParkedIsHeld, Undecided, UnservedOutside, UnservedInside, Untouched, PlacesDisjoint,
      EarlyPcs, LatePcs, JobRequests, ClientRequests, JobCancelled, CancelType
<1>6. ASSUME NEW r \in Requests, PrivateGiveUp(r) PROVE ParkedIsHeld'
  BY <1>6, <1>0, <1>99
  DEF PrivateGiveUp, Answer, Journal, RecordsOutside, RecordInside, RecordsAnswered,
      ParkedIsHeld, Undecided, UnservedOutside, UnservedInside, Untouched, PlacesDisjoint,
      EarlyPcs, LatePcs, JobRequests, ClientRequests, JobCancelled, CancelType
<1>7. ASSUME NEW j \in Jobs, CancelRunning(j) PROVE ParkedIsHeld'
  BY <1>7, <1>0, <1>99
  DEF CancelRunning, Journal, RecordsOutside, RecordInside, RecordsAnswered, ParkedIsHeld,
      Undecided, UnservedOutside, UnservedInside, Untouched, PlacesDisjoint, EarlyPcs, LatePcs,
      JobRequests, ClientRequests, JobCancelled, CancelType
<1>8. ASSUME NEW j \in Jobs, CancelMiss(j) PROVE ParkedIsHeld'
  BY <1>8, <1>0, <1>99
  DEF CancelMiss, Journal, RecordsOutside, RecordInside, RecordsAnswered, ParkedIsHeld,
      Undecided, UnservedOutside, UnservedInside, Untouched, PlacesDisjoint, EarlyPcs, LatePcs,
      JobRequests, ClientRequests, JobCancelled, CancelType
<1>9. ASSUME NEW j \in Jobs, CancelPersisted(j) PROVE ParkedIsHeld'
  <2>1. CASE jobs[j].state \in CancellableStates
    <3> SUFFICES ASSUME NEW q \in JobRequests, OwnsNext(q), cancelAck'[JobOf[q]] = "parked"
                 PROVE  /\ q \notin executed
                        /\ jobs'[JobOf[q]].state \in {"cancelled", "failed"}
                        /\ q = cur => wpc = "received"
      BY <1>9 DEF CancelPersisted, ParkedIsHeld
    <3>1. /\ jobs'[JobOf[q]].state = IF JobOf[q] = j THEN "cancelled" ELSE jobs[JobOf[q]].state
          /\ Owns(q)
      BY <1>9, <2>1, <1>99 DEF CancelPersisted, CancellableStates, JournalType, Record
    <3>2. CASE JobOf[q] # j
      <4>1. cancelAck[JobOf[q]] = "parked"
        BY <1>9, <2>1, <3>2, <1>99 DEF CancelPersisted, CancelType
      <4> QED
        BY <3>1, <3>2, <4>1 DEF Journal, ParkedIsHeld
    <3>3. CASE JobOf[q] = j
      <4>1. q \notin executed
        BY <2>1, <3>1, <3>3 DEF Journal, RecordsAnswered, CancellableStates
      <4>2. cancelAck[j] = "parked" \/ ~PastCancelCheck(j)
        BY <1>9, <2>1, <3>3, <1>99 DEF CancelPersisted, CancelType
      <4>3. ASSUME q = cur PROVE wpc = "received"
        <5>1. CASE cancelAck[j] = "parked"
          BY <3>1, <3>3, <4>3, <5>1 DEF Journal, ParkedIsHeld
        <5>2. CASE ~PastCancelCheck(j)
          <6>1. wpc \in Received \ {"gate", "reject", "wait", "dispatch"}
            BY <3>3, <4>3, <5>2 DEF PastCancelCheck, JobRequests, WorkerPcs
          <6>2. jobs[JobOf[cur]].state \in {"queued", "waiting"}
            BY <2>1, <3>3, <4>3 DEF CancellableStates
          <6>3. wpc \notin {"execute", "unregister", "finish", "respond", "register"}
            BY <3>1, <4>1, <4>3, <6>2 DEF UnservedInside, LatePcs, Journal, RecordInside
          <6>4. wpc # "follow_up"
            BY <4>1, <4>3 DEF UnservedInside
          <6> QED
            BY <6>1, <6>3, <6>4
        <5> QED
          BY <4>2, <5>1, <5>2
      <4> QED
        BY <3>1, <3>3, <4>1, <4>3
    <3> QED
      BY <3>2, <3>3
  <2>2. CASE jobs[j].state \notin CancellableStates
    BY <1>9, <2>2, <1>99 DEF CancelPersisted, Journal, ParkedIsHeld
  <2> QED
    BY <2>1, <2>2
<1>10. ASSUME WorkerRecv PROVE ParkedIsHeld'
  BY <1>10, <1>0, <1>99
  DEF WorkerRecv, CountOut, Journal, RecordsOutside, RecordInside, RecordsAnswered,
      ParkedIsHeld, Undecided, UnservedOutside, UnservedInside, Untouched, PlacesDisjoint,
      EarlyPcs, LatePcs, JobRequests, ClientRequests, JobCancelled, CancelType
<1>11. ASSUME WorkerStop PROVE ParkedIsHeld'
  BY <1>11, <1>0, <1>99
  DEF WorkerStop, Journal, RecordsOutside, RecordInside, RecordsAnswered, ParkedIsHeld,
      Undecided, UnservedOutside, UnservedInside, Untouched, PlacesDisjoint, EarlyPcs, LatePcs,
      JobRequests, ClientRequests, JobCancelled, CancelType
<1>12. ASSUME WorkerCheckCancelled PROVE ParkedIsHeld'
  BY <1>12, <1>0, <1>99
  DEF WorkerCheckCancelled, Answer, EndWait, Journal, RecordsOutside, RecordInside,
      RecordsAnswered, ParkedIsHeld, Undecided, UnservedOutside, UnservedInside, Untouched,
      PlacesDisjoint, EarlyPcs, LatePcs, JobRequests, ClientRequests, JobCancelled, CancelType
<1>13. ASSUME WorkerGate PROVE ParkedIsHeld'
  BY <1>13, <1>0, <1>99
  DEF WorkerGate, EndWait, Journal, RecordsOutside, RecordInside, RecordsAnswered,
      ParkedIsHeld, Undecided, UnservedOutside, UnservedInside, Untouched, PlacesDisjoint,
      EarlyPcs, LatePcs, JobRequests, ClientRequests, JobCancelled, CancelType
<1>14. ASSUME WorkerReject PROVE ParkedIsHeld'
  <2>1. cur \in JobRequests /\ client[cur] # "new"
    BY <1>14 DEF WorkerReject, PlacesDisjoint, JobRequests
  <2>2. Rewrites(cur, "failed")
    BY <1>14, WorkerRewrites
  <2>3. UNCHANGED <<executed, cancelAck>> /\ cur' = None
    BY <1>14 DEF WorkerReject
  <2>4. ~(OwnsNext(cur) /\ cancelAck[JobOf[cur]] = "parked")
    BY <1>14, <2>1, <2>2 DEF WorkerReject, Rewrites, Journal, ParkedIsHeld
  <2>5. ASSUME NEW q \in JobRequests, q # cur, OwnsNext(q)
        PROVE  Owns(q) /\ jobs'[JobOf[q]] = jobs[JobOf[q]]
    BY <2>2, <2>5 DEF Rewrites
  <2> SUFFICES ASSUME NEW q \in JobRequests, OwnsNext(q), cancelAck[JobOf[q]] = "parked"
               PROVE  /\ q \notin executed
                      /\ jobs'[JobOf[q]].state \in {"cancelled", "failed"}
    BY <2>3 DEF ParkedIsHeld, JobRequests
  <2>6. q # cur
    BY <2>4
  <2> QED
    BY <2>5, <2>6 DEF Journal, ParkedIsHeld
<1>15. ASSUME WorkerWait PROVE ParkedIsHeld'
  <2>1. cur \in JobRequests /\ client[cur] # "new"
    BY <1>15 DEF WorkerWait, PlacesDisjoint, JobRequests
  <2>2. Rewrites(cur, "waiting")
    BY <1>15, WorkerRewrites
  <2>3. UNCHANGED <<executed, cancelAck>> /\ cur' = None
    BY <1>15 DEF WorkerWait
  <2>4. ~(OwnsNext(cur) /\ cancelAck[JobOf[cur]] = "parked")
    BY <1>15, <2>1, <2>2 DEF WorkerWait, Rewrites, Journal, ParkedIsHeld
  <2>5. ASSUME NEW q \in JobRequests, q # cur, OwnsNext(q)
        PROVE  Owns(q) /\ jobs'[JobOf[q]] = jobs[JobOf[q]]
    BY <2>2, <2>5 DEF Rewrites
  <2> SUFFICES ASSUME NEW q \in JobRequests, OwnsNext(q), cancelAck[JobOf[q]] = "parked"
               PROVE  /\ q \notin executed
                      /\ jobs'[JobOf[q]].state \in {"cancelled", "failed"}
    BY <2>3 DEF ParkedIsHeld, JobRequests
  <2>6. q # cur
    BY <2>4
  <2> QED
    BY <2>5, <2>6 DEF Journal, ParkedIsHeld
<1>16. ASSUME WorkerDispatch PROVE ParkedIsHeld'
  <2>1. cur \in JobRequests
    BY <1>16, <1>99 DEF WorkerDispatch, ClientRequests
  <2>2. Rewrites(cur, "running")
    BY <1>16, WorkerRewrites
  <2> QED
    BY <1>16, <2>1, <2>2, <1>0, <1>99
    DEF Rewrites, WorkerDispatch, Journal, RecordsOutside, RecordInside, RecordsAnswered,
      ParkedIsHeld, Undecided, UnservedOutside, UnservedInside, Untouched, PlacesDisjoint,
      EarlyPcs, LatePcs, JobRequests, ClientRequests, JobCancelled, CancelType
<1>17. ASSUME WorkerRegister PROVE ParkedIsHeld'
  BY <1>17, <1>0, <1>99
  DEF WorkerRegister, Journal, RecordsOutside, RecordInside, RecordsAnswered, ParkedIsHeld,
      Undecided, UnservedOutside, UnservedInside, Untouched, PlacesDisjoint, EarlyPcs, LatePcs,
      JobRequests, ClientRequests, JobCancelled, CancelType
<1>18. ASSUME ExecuteReturns PROVE ParkedIsHeld'
  BY <1>18, <1>0, <1>99
  DEF ExecuteReturns, EndExecution, Journal, RecordsOutside, RecordInside, RecordsAnswered,
      ParkedIsHeld, Undecided, UnservedOutside, UnservedInside, Untouched, PlacesDisjoint,
      EarlyPcs, LatePcs, JobRequests, ClientRequests, JobCancelled, CancelType
<1>19. ASSUME ExecuteTimesOut PROVE ParkedIsHeld'
  <2>1. cur \in JobRequests
    BY <1>19, <1>99 DEF ExecuteTimesOut, ClientRequests
  <2>2. Rewrites(cur, "timed_out")
    BY <1>19, WorkerRewrites
  <2> QED
    BY <1>19, <2>1, <2>2, <1>0, <1>99
    DEF Rewrites, ExecuteTimesOut, EndExecution, Journal, RecordsOutside, RecordInside,
      RecordsAnswered, ParkedIsHeld, Undecided, UnservedOutside, UnservedInside, Untouched,
      PlacesDisjoint, EarlyPcs, LatePcs, JobRequests, ClientRequests, JobCancelled, CancelType
<1>20. ASSUME ExecuteCancelled PROVE ParkedIsHeld'
  <2>1. cur \in JobRequests
    BY <1>20, <1>99 DEF ExecuteCancelled, ClientRequests
  <2>2. Rewrites(cur, "cancelled")
    BY <1>20, WorkerRewrites
  <2> QED
    BY <1>20, <2>1, <2>2, <1>0, <1>99
    DEF Rewrites, ExecuteCancelled, EndExecution, Journal, RecordsOutside, RecordInside,
      RecordsAnswered, ParkedIsHeld, Undecided, UnservedOutside, UnservedInside, Untouched,
      PlacesDisjoint, EarlyPcs, LatePcs, JobRequests, ClientRequests, JobCancelled, CancelType
<1>21. ASSUME ListenCheck PROVE ParkedIsHeld'
  BY <1>21, <1>0, <1>99
  DEF ListenCheck, Journal, RecordsOutside, RecordInside, RecordsAnswered, ParkedIsHeld,
      Undecided, UnservedOutside, UnservedInside, Untouched, PlacesDisjoint, EarlyPcs, LatePcs,
      JobRequests, ClientRequests, JobCancelled, CancelType
<1>22. ASSUME ListenArm PROVE ParkedIsHeld'
  BY <1>22, <1>0, <1>99
  DEF ListenArm, Journal, RecordsOutside, RecordInside, RecordsAnswered, ParkedIsHeld,
      Undecided, UnservedOutside, UnservedInside, Untouched, PlacesDisjoint, EarlyPcs, LatePcs,
      JobRequests, ClientRequests, JobCancelled, CancelType
<1>23. ASSUME WorkerUnregister PROVE ParkedIsHeld'
  BY <1>23, <1>0, <1>99
  DEF WorkerUnregister, Journal, RecordsOutside, RecordInside, RecordsAnswered, ParkedIsHeld,
      Undecided, UnservedOutside, UnservedInside, Untouched, PlacesDisjoint, EarlyPcs, LatePcs,
      JobRequests, ClientRequests, JobCancelled, CancelType
<1>24. ASSUME WorkerFinish PROVE ParkedIsHeld'
  <2>1. cur \in JobRequests
    BY <1>24 DEF WorkerFinish
  <2>2. CASE outcome = "cancelled"
    <3>1. Rewrites(cur, "cancelled")
      BY <1>24, <2>2, WorkerRewrites
    <3> QED
      BY <1>24, <2>1, <2>2, <3>1, <1>0, <1>99
      DEF WorkerFinish, Rewrites, Journal, RecordsOutside, RecordInside, RecordsAnswered,
      ParkedIsHeld, Undecided, UnservedOutside, UnservedInside, Untouched, PlacesDisjoint,
      EarlyPcs, LatePcs, JobRequests, ClientRequests, JobCancelled, CancelType
  <2>3. CASE outcome \in {"ok", "error"}
    <3>1. Rewrites(cur, FinishedState(outcome))
      BY <1>24, <2>3, WorkerRewrites
    <3> QED
      BY <1>24, <2>1, <2>3, <3>1, <1>0, <1>99
      DEF WorkerFinish, Rewrites, FinishedState, Journal, RecordsOutside, RecordInside,
      RecordsAnswered, ParkedIsHeld, Undecided, UnservedOutside, UnservedInside, Untouched,
      PlacesDisjoint, EarlyPcs, LatePcs, JobRequests, ClientRequests, JobCancelled, CancelType
  <2>4. CASE outcome \in {"timed_out", "ok_timed_out"}
    BY <1>24, <2>1, <2>4, <1>0, <1>99
    DEF WorkerFinish, Journal, RecordsOutside, RecordInside, RecordsAnswered, ParkedIsHeld,
      Undecided, UnservedOutside, UnservedInside, Untouched, PlacesDisjoint, EarlyPcs, LatePcs,
      JobRequests, ClientRequests, JobCancelled, CancelType
  <2> QED
    BY <1>24, <2>2, <2>3, <2>4 DEF WorkerFinish
<1>25. ASSUME WorkerRespond PROVE ParkedIsHeld'
  BY <1>25, <1>0, <1>99
  DEF WorkerRespond, Answer, Journal, RecordsOutside, RecordInside, RecordsAnswered,
      ParkedIsHeld, Undecided, UnservedOutside, UnservedInside, Untouched, PlacesDisjoint,
      EarlyPcs, LatePcs, JobRequests, ClientRequests, JobCancelled, CancelType
<1>26. ASSUME WorkerFollowUp PROVE ParkedIsHeld'
  BY <1>26, <1>0, <1>99
  DEF WorkerFollowUp, Journal, RecordsOutside, RecordInside, RecordsAnswered, ParkedIsHeld,
      Undecided, UnservedOutside, UnservedInside, Untouched, PlacesDisjoint, EarlyPcs, LatePcs,
      JobRequests, ClientRequests, JobCancelled, CancelType
<1>27. ASSUME PrivateCheck PROVE ParkedIsHeld'
  BY <1>27, <1>0, <1>99
  DEF PrivateCheck, Answer, Journal, RecordsOutside, RecordInside, RecordsAnswered,
      ParkedIsHeld, Undecided, UnservedOutside, UnservedInside, Untouched, PlacesDisjoint,
      EarlyPcs, LatePcs, JobRequests, ClientRequests, JobCancelled, CancelType
<1>28. ASSUME PrivateEnd PROVE ParkedIsHeld'
  BY <1>28, <1>0, <1>99
  DEF PrivateEnd, Answer, Journal, RecordsOutside, RecordInside, RecordsAnswered, ParkedIsHeld,
      Undecided, UnservedOutside, UnservedInside, Untouched, PlacesDisjoint, EarlyPcs, LatePcs,
      JobRequests, ClientRequests, JobCancelled, CancelType
<1>29. ASSUME DrainTick PROVE ParkedIsHeld'
  BY <1>29, <1>0, <1>99
  DEF DrainTick, Journal, RecordsOutside, RecordInside, RecordsAnswered, ParkedIsHeld,
      Undecided, UnservedOutside, UnservedInside, Untouched, PlacesDisjoint, EarlyPcs, LatePcs,
      JobRequests, ClientRequests, JobCancelled, CancelType
<1>30. ASSUME NEW r \in Requests, MonitorTick(r) PROVE ParkedIsHeld'
  <2>1. r \in JobRequests /\ r \notin ClientRequests
    BY <1>30 DEF MonitorTick, ClientRequests
  <2>2. \/ Rewrites(r, "queued") /\ client' = [client EXCEPT ![r] = "sent"]
        \/ Rewrites(r, "failed") /\ client' = [client EXCEPT ![r] = "full"]
    <3>1. CASE HasRoom
      <4>1. jobs' = Write(r, "queued", clock + 1) /\ client' = [client EXCEPT ![r] = "sent"]
        BY <1>30, <3>1 DEF MonitorTick
      <4> QED
        BY <2>1, <4>1, WriteRewrites
    <3>2. CASE ~HasRoom
      <4>1. jobs' = Write(r, "failed", clock + 1) /\ client' = [client EXCEPT ![r] = "full"]
        BY <1>30, <3>2 DEF MonitorTick
      <4> QED
        BY <2>1, <4>1, WriteRewrites
    <3> QED
      BY <3>1, <3>2
  <2>3. /\ UNCHANGED <<answer, workerVars, leaseVars>> /\ client[r] = "new"
        /\ cancelAck' = [cancelAck EXCEPT ![JobOf[r]] = "none"]
    BY <1>30 DEF MonitorTick
  <2> QED
    BY <2>1, <2>2, <2>3, <1>0, <1>99
    DEF Rewrites, Journal, RecordsOutside, RecordInside, RecordsAnswered, ParkedIsHeld,
      Undecided, UnservedOutside, UnservedInside, Untouched, PlacesDisjoint, EarlyPcs, LatePcs,
      JobRequests, ClientRequests, JobCancelled, CancelType
<1>31. ASSUME NEW r \in Requests, RetrySend(r) PROVE ParkedIsHeld'
  BY <1>31, <1>0, <1>99
  DEF RetrySend, Journal, RecordsOutside, RecordInside, RecordsAnswered, ParkedIsHeld,
      Undecided, UnservedOutside, UnservedInside, Untouched, PlacesDisjoint, EarlyPcs, LatePcs,
      JobRequests, ClientRequests, JobCancelled, CancelType
<1>32. ASSUME NEW r \in Requests, RetryStopped(r) PROVE ParkedIsHeld'
  <2>1. r \in JobRequests
    BY <1>32, <1>99 DEF RetryStopped, ClientRequests
  <2>2. Rewrites(r, "failed")
    BY <1>32, <2>1, FailedRewrites DEF RetryStopped
  <2> QED
    BY <1>32, <2>1, <2>2, <1>0, <1>99
    DEF Rewrites, RetryStopped, Answer, EndWait, Journal, RecordsOutside, RecordInside,
      RecordsAnswered, ParkedIsHeld, Undecided, UnservedOutside, UnservedInside, Untouched,
      PlacesDisjoint, EarlyPcs, LatePcs, JobRequests, ClientRequests, JobCancelled, CancelType
<1>33. ASSUME ShutdownSend PROVE ParkedIsHeld'
  BY <1>33, <1>0, <1>99
  DEF ShutdownSend, Journal, RecordsOutside, RecordInside, RecordsAnswered, ParkedIsHeld,
      Undecided, UnservedOutside, UnservedInside, Untouched, PlacesDisjoint, EarlyPcs, LatePcs,
      JobRequests, ClientRequests, JobCancelled, CancelType
<1>34. CASE UNCHANGED vars
  BY <1>34, <1>0, <1>99
  DEF vars, Journal, RecordsOutside, RecordInside, RecordsAnswered, ParkedIsHeld, Undecided,
      UnservedOutside, UnservedInside, Untouched, PlacesDisjoint, EarlyPcs, LatePcs,
      JobRequests, ClientRequests, JobCancelled, CancelType
<1> QED
  BY <1>1, <1>2, <1>3, <1>4, <1>5, <1>6, <1>7, <1>8, <1>9, <1>10, <1>11, <1>12, <1>13,
     <1>14, <1>15, <1>16, <1>17, <1>18, <1>19, <1>20, <1>21, <1>22, <1>23, <1>24, <1>25,
     <1>26, <1>27, <1>28, <1>29, <1>30, <1>31, <1>32, <1>33, <1>34
  DEF Next, ClientStep, CancelStep, WorkerProgress, RetryStep, Quiescent


LEMMA JournalInvariant == Spec => []Journal
<1>1. Init => Journal
  <2> SUFFICES ASSUME Init PROVE Journal
    OBVIOUS
  <2>1. Queued = {} /\ retry = {}
    BY DEF Init, Queued
  <2>2. \A r \in JobRequests : r \in Requests /\ JobOf[r] \in Jobs
    BY JobsAssumption DEF JobRequests
  <2> QED
    BY <2>1, <2>2
    DEF Init, Absent, Journal, RecordsOutside, RecordInside, RecordsAnswered, ParkedIsHeld
<1>2. Service /\ Journal /\ [Next]_vars => Journal'
  BY RecordsOutsideStep, RecordInsideStep, RecordsAnsweredStep, ParkedStep DEF Journal
<1> QED
  BY <1>1, <1>2, ServiceInvariant, PTL DEF Spec

(* What the caller of a request was told is what the journal says of it for *)
(* as long as it says anything, although cancellations edit the same record *)
(* at any moment.                                                           *)
THEOREM AnswersAgreeWithJournal == Spec => []AnswerAgreesWithJournal
<1>1. Journal => AnswerAgreesWithJournal
  <2> SUFFICES ASSUME Journal, NEW r \in ClientRequests \ CaptureRequests,
                      Owns(r), answer[r] # "none"
               PROVE  jobs[JobOf[r]].state \in JournalState[answer[r]]
    BY DEF AnswerAgreesWithJournal
  <2>1. Agrees(answer[r], jobs[JobOf[r]].state)
    BY DEF Journal, RecordsAnswered, ClientRequests
  <2>2. /\ JournalState["ok"] = {"succeeded"}
        /\ JournalState["error"] = {"failed"} /\ JournalState["rejected"] = {"failed"}
        /\ JournalState["full"] = {"failed"} /\ JournalState["stopped"] = {"failed"}
        /\ JournalState["cancelled"] = {"cancelled"}
        /\ JournalState["cancelled_early"] = {"cancelled"}
        /\ JournalState["timed_out"] = {"timed_out"}
        /\ JournalState["dropped"] = Undecided
    BY DEF JournalState, Undecided
  <2> QED
    BY <2>1, <2>2 DEF Agrees
<1> QED
  BY <1>1, JournalInvariant, PTL

(* A job cancelled while its request is queued or parked for its profile    *)
(* lease is not executed while the journal keeps its record.                *)
THEOREM ParkedCancelsHold == Spec => []ParkedCancelHolds
<1>1. Journal => ParkedCancelHolds
  BY DEF Journal, ParkedIsHeld, ParkedCancelHolds
<1> QED
  BY <1>1, JournalInvariant, PTL

(* Only records that are not settled are rewritten. *)
LEMMA SettledStep ==
  ASSUME Service, Journal, [Next]_vars
  PROVE  \A r \in JobRequests :
           /\ Owns(r) /\ OwnsNext(r)
           /\ jobs[JobOf[r]].state \in {"succeeded", "failed", "timed_out"}
           => jobs'[JobOf[r]].state = jobs[JobOf[r]].state
<1> DEFINE Settled ==
      \A r \in JobRequests :
        /\ Owns(r) /\ OwnsNext(r)
        /\ jobs[JobOf[r]].state \in {"succeeded", "failed", "timed_out"}
        => jobs'[JobOf[r]].state = jobs[JobOf[r]].state
<1> SUFFICES Settled
  OBVIOUS
<1> USE RequestsAssumption DEF Service, Typed, ClientType, CurMatchesPc, Received, clientVars
<1>0. retry \subseteq JobRequests
  BY DEF LeaseType
<1>99. ASSUME NEW r \in JobRequests, NEW st, Rewrites(r, st),
              ~Owns(r) \/ jobs[JobOf[r]].state \notin {"succeeded", "failed", "timed_out"}
       PROVE  Settled
  BY <1>99 DEF Rewrites
<1>1. ASSUME NEW r \in Requests, SubmitJournal(r) PROVE Settled
  <2>1. r \in JobRequests
    BY <1>1, <1>0 DEF SubmitJournal, ClientRequests
  <2>2. Rewrites(r, "queued")
    BY <1>1, <2>1, WriteRewrites DEF SubmitJournal
  <2>3. ~Owns(r) \/ jobs[JobOf[r]].state \notin {"succeeded", "failed", "timed_out"}
    BY <1>1 DEF SubmitJournal, Owns
  <2> QED
    BY <2>1, <2>2, <2>3, <1>99
<1>2. ASSUME NEW r \in Requests, SubmitSend(r) PROVE Settled
  BY <1>2 DEF SubmitSend
<1>3. ASSUME NEW r \in Requests, SubmitRefused(r) PROVE Settled
  <2>1. r \in JobRequests
    BY <1>3, <1>0 DEF SubmitRefused, ClientRequests
  <2>2. Rewrites(r, "failed")
    BY <1>3, <2>1, FailedRewrites DEF SubmitRefused
  <2>3. ~Owns(r) \/ jobs[JobOf[r]].state \notin {"succeeded", "failed", "timed_out"}
    BY <1>3, <2>1
    DEF SubmitRefused, Journal, RecordsOutside, RecordInside, Undecided, ClientRequests
  <2> QED
    BY <2>1, <2>2, <2>3, <1>99
<1>4. ASSUME NEW r \in Requests, SubmitDropped(r) PROVE Settled
  BY <1>4 DEF SubmitDropped
<1>5. ASSUME NEW r \in Requests, PrivateEnqueue(r) PROVE Settled
  BY <1>5 DEF PrivateEnqueue
<1>6. ASSUME NEW r \in Requests, PrivateGiveUp(r) PROVE Settled
  BY <1>6 DEF PrivateGiveUp
<1>7. ASSUME NEW j \in Jobs, CancelRunning(j) PROVE Settled
  BY <1>7 DEF CancelRunning
<1>8. ASSUME NEW j \in Jobs, CancelMiss(j) PROVE Settled
  BY <1>8 DEF CancelMiss
<1>9. ASSUME NEW j \in Jobs, CancelPersisted(j) PROVE Settled
  <2>1. jobs' = jobs \/ /\ jobs[j].state \notin {"succeeded", "failed", "timed_out"}
                        /\ jobs' = [jobs EXCEPT ![j].state = "cancelled"]
    BY <1>9 DEF CancelPersisted, CancellableStates
  <2>2. UNCHANGED client
    BY <1>9 DEF CancelPersisted
  <2>3. \A q \in JobRequests : JobOf[q] \in Jobs
    BY JobsAssumption
  <2>4. ASSUME NEW q \in JobRequests, JobOf[q] # j PROVE jobs'[JobOf[q]] = jobs[JobOf[q]]
    BY <2>1, <2>3, <2>4 DEF JournalType
  <2> QED
    BY <2>1, <2>2, <2>4
<1>10. ASSUME WorkerRecv PROVE Settled
  BY <1>10 DEF WorkerRecv
<1>11. ASSUME WorkerStop PROVE Settled
  BY <1>11 DEF WorkerStop
<1>12. ASSUME WorkerCheckCancelled PROVE Settled
  BY <1>12 DEF WorkerCheckCancelled
<1>13. ASSUME WorkerGate PROVE Settled
  BY <1>13 DEF WorkerGate
<1>14. ASSUME WorkerReject PROVE Settled
  <2>1. cur \in JobRequests
    BY <1>14, <1>0 DEF WorkerReject, ClientRequests
  <2>2. Rewrites(cur, "failed")
    BY <1>14, WorkerRewrites
  <2>3. ~Owns(cur) \/ jobs[JobOf[cur]].state \notin {"succeeded", "failed", "timed_out"}
    BY <1>14, <2>1
    DEF WorkerReject, Journal, RecordsOutside, RecordInside, Undecided, ClientRequests
  <2> QED
    BY <2>1, <2>2, <2>3, <1>99
<1>15. ASSUME WorkerWait PROVE Settled
  <2>1. cur \in JobRequests
    BY <1>15, <1>0 DEF WorkerWait, ClientRequests
  <2>2. Rewrites(cur, "waiting")
    BY <1>15, WorkerRewrites
  <2>3. ~Owns(cur) \/ jobs[JobOf[cur]].state \notin {"succeeded", "failed", "timed_out"}
    BY <1>15, <2>1
    DEF WorkerWait, Journal, RecordsOutside, RecordInside, Undecided, ClientRequests
  <2> QED
    BY <2>1, <2>2, <2>3, <1>99
<1>16. ASSUME WorkerDispatch PROVE Settled
  <2>1. cur \in JobRequests
    BY <1>16, <1>0 DEF WorkerDispatch, ClientRequests
  <2>2. Rewrites(cur, "running")
    BY <1>16, WorkerRewrites
  <2>3. ~Owns(cur) \/ jobs[JobOf[cur]].state \notin {"succeeded", "failed", "timed_out"}
    BY <1>16, <2>1
    DEF WorkerDispatch, Journal, RecordsOutside, RecordInside, Undecided, ClientRequests
  <2> QED
    BY <2>1, <2>2, <2>3, <1>99
<1>17. ASSUME WorkerRegister PROVE Settled
  BY <1>17 DEF WorkerRegister
<1>18. ASSUME ExecuteReturns PROVE Settled
  BY <1>18 DEF ExecuteReturns, EndExecution
<1>19. ASSUME ExecuteTimesOut PROVE Settled
  <2>1. cur \in JobRequests
    BY <1>19, <1>0 DEF ExecuteTimesOut, ClientRequests
  <2>2. Rewrites(cur, "timed_out")
    BY <1>19, WorkerRewrites
  <2>3. ~Owns(cur) \/ jobs[JobOf[cur]].state \notin {"succeeded", "failed", "timed_out"}
    BY <1>19, <2>1
    DEF ExecuteTimesOut, Journal, RecordsOutside, RecordInside, Undecided, ClientRequests
  <2> QED
    BY <2>1, <2>2, <2>3, <1>99
<1>20. ASSUME ExecuteCancelled PROVE Settled
  <2>1. cur \in JobRequests
    BY <1>20, <1>0 DEF ExecuteCancelled, ClientRequests
  <2>2. Rewrites(cur, "cancelled")
    BY <1>20, WorkerRewrites
  <2>3. ~Owns(cur) \/ jobs[JobOf[cur]].state \notin {"succeeded", "failed", "timed_out"}
    BY <1>20, <2>1
    DEF ExecuteCancelled, Journal, RecordsOutside, RecordInside, Undecided, ClientRequests
  <2> QED
    BY <2>1, <2>2, <2>3, <1>99
<1>21. ASSUME ListenCheck PROVE Settled
  BY <1>21 DEF ListenCheck
<1>22. ASSUME ListenArm PROVE Settled
  BY <1>22 DEF ListenArm
<1>23. ASSUME WorkerUnregister PROVE Settled
  BY <1>23 DEF WorkerUnregister
<1>24. ASSUME WorkerFinish PROVE Settled
  <2>1. cur \in JobRequests
    BY <1>24 DEF WorkerFinish
  <2>2. \/ UNCHANGED jobs
        \/ \E st \in {"cancelled", FinishedState(outcome)} : Rewrites(cur, st)
    BY <1>24, <2>1, PersistRewrites DEF WorkerFinish
  <2>3. UNCHANGED jobs \/ ~Owns(cur) \/ jobs[JobOf[cur]].state \notin {"succeeded", "failed", "timed_out"}
    BY <1>24 DEF WorkerFinish, Journal, RecordInside
  <2> QED
    BY <2>1, <2>2, <2>3, <1>99
<1>25. ASSUME WorkerRespond PROVE Settled
  BY <1>25 DEF WorkerRespond
<1>26. ASSUME WorkerFollowUp PROVE Settled
  BY <1>26 DEF WorkerFollowUp
<1>27. ASSUME PrivateCheck PROVE Settled
  BY <1>27 DEF PrivateCheck
<1>28. ASSUME PrivateEnd PROVE Settled
  BY <1>28 DEF PrivateEnd
<1>29. ASSUME DrainTick PROVE Settled
  BY <1>29 DEF DrainTick
<1>30. ASSUME NEW r \in Requests, MonitorTick(r) PROVE Settled
  <2>1. r \in JobRequests /\ client[r] = "new"
    BY <1>30 DEF MonitorTick
  <2>2. \E st \in {"queued", "failed"} : jobs' = Write(r, st, clock + 1)
    BY <1>30 DEF MonitorTick
  <2>5. \A q \in JobRequests : q # r => client'[q] = client[q]
    BY <1>30, <2>1 DEF MonitorTick, JobRequests
  <2>3. \E st \in {"queued", "failed"} : Rewrites(r, st)
    BY <2>1, <2>2, <2>5, WriteRewrites
  <2>4. ~Owns(r)
    BY <2>1 DEF Owns, OwnsNext
  <2> QED
    BY <2>1, <2>3, <2>4, <1>99
<1>31. ASSUME NEW r \in Requests, RetrySend(r) PROVE Settled
  BY <1>31 DEF RetrySend
<1>32. ASSUME NEW r \in Requests, RetryStopped(r) PROVE Settled
  <2>1. r \in JobRequests
    BY <1>32, <1>0 DEF RetryStopped, ClientRequests
  <2>2. Rewrites(r, "failed")
    BY <1>32, <2>1, FailedRewrites DEF RetryStopped
  <2>3. ~Owns(r) \/ jobs[JobOf[r]].state \notin {"succeeded", "failed", "timed_out"}
    BY <1>32, <2>1
    DEF RetryStopped, Journal, RecordsOutside, RecordInside, Undecided, ClientRequests
  <2> QED
    BY <2>1, <2>2, <2>3, <1>99
<1>33. ASSUME ShutdownSend PROVE Settled
  BY <1>33 DEF ShutdownSend
<1>34. CASE UNCHANGED vars
  BY <1>34 DEF vars
<1> QED
  BY <1>1, <1>2, <1>3, <1>4, <1>5, <1>6, <1>7, <1>8, <1>9, <1>10, <1>11, <1>12, <1>13,
     <1>14, <1>15, <1>16, <1>17, <1>18, <1>19, <1>20, <1>21, <1>22, <1>23, <1>24, <1>25,
     <1>26, <1>27, <1>28, <1>29, <1>30, <1>31, <1>32, <1>33, <1>34
  DEF Next, ClientStep, CancelStep, WorkerProgress, RetryStep, Quiescent

(* The record of a job that succeeded, failed or timed out is final while   *)
(* the job owns it: no task, whichever reads the journal late, turns it     *)
(* into anything else.                                                      *)
THEOREM SettledIsFinal == Spec => SettledNeverRewritten
<1>1. Service /\ Journal /\ [Next]_vars =>
        [\A r \in JobRequests :
           /\ Owns(r) /\ Owns(r)'
           /\ jobs[JobOf[r]].state \in {"succeeded", "failed", "timed_out"}
           => jobs'[JobOf[r]].state = jobs[JobOf[r]].state]_vars
  BY SettledStep DEF Owns, OwnsNext
<1> QED
  BY <1>1, ServiceInvariant, JournalInvariant, PTL DEF Spec, SettledNeverRewritten

=============================================================================
