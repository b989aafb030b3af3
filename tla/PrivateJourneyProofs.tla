------------------------ MODULE PrivateJourneyProofs ------------------------
(***************************************************************************)
(* Proofs about PrivateJourney: the receipts make a plan begin one epoch   *)
(* (PlanOnceHolds) and a code be typed once (CodeOnceHolds); an admitted   *)
(* intent can be recovered (IntentIsRecoverable), and what a journey       *)
(* leaves outside its own store has its cause (EffectsAreCaused).          *)
(*                                                                         *)
(* A synced receipt outlives everything, so what a run has passed is read  *)
(* off Synced and not off its place, which a failure erases.               *)
(***************************************************************************)
EXTENDS PrivateJourney, TLAPS

Synced == {f \in DOMAIN files : files[f] = "durable"}

(* Types, with the recoverers' records as a function. *)
Statuses == {"none", "staged", "admitted", "result_ready", "error"}
Records == [epoch : Runs \cup {NoRun}, at : {"idle", "read", "permit", "committed"},
            status : Statuses]
Typed == TypeOK /\ rec \in [Recoverers -> Records]

(* Places, from the attachment on, each contained in the one before. *)
Early == {"connected", "staged", "claimed"}
Leaving == {"sanitized", "detaching", "detach_acked", "detached", "closed", "prepared",
            "retained", "intent_admitted", "committed", "reconciled", "delivering",
            "key_sent", "key_acked", "delivered"}
Detaching == Leaving \ {"sanitized"}
Acked     == Detaching \ {"detaching"}
Detached  == Acked \ {"detach_acked"}
Prepared  == Detached \ {"detached", "closed"}
Retained  == Prepared \ {"prepared"}
Intended  == Retained \ {"retained"}
Committed == Intended \ {"intent_admitted"}
Reconciled == Committed \ {"committed"}
Delivering == Reconciled \ {"reconciled"}

(* The run has the plan's claim. *)
Owns(r) == pc[r] = "claimed" \/ stage[r] >= 0

Claims ==
  /\ \A r \in Runs : Owns(r) => <<"claimed", PlanOf[r]>> \in Synced
  /\ \A q, r \in Runs : q # r /\ Owns(q) /\ Owns(r) => PlanOf[q] # PlanOf[r]

(* The run has the receipts of its code: it has typed it or is about to.    *)
HasCode(r) ==
  \/ <<r, "backup_code">> \in done
  \/ stage[r] = 1 /\ pc[r] \in {"code_reserved", "admitted"}

Codes ==
  /\ \A r \in Runs : HasCode(r) =>
       <<"source", SourceOf[PlanOf[r]]>> \in Synced /\ <<"code", CodeOf[r]>> \in Synced
  /\ \A q, r \in Runs : q # r /\ HasCode(q) /\ HasCode(r) =>
       CodeOf[q] # CodeOf[r] /\ SourceOf[PlanOf[q]] # SourceOf[PlanOf[r]]

(* The stage of the epoch, by the place of its run. *)
Staged(r) ==
  /\ pc[r] \in Early => stage[r] = -1 /\ broker[r] = 0
  /\ pc[r] \in Holding => stage[r] >= 0
  /\ pc[r] = "code_reserved" => stage[r] = 1
  /\ pc[r] \in Leaving => stage[r] = 3
  /\ pc[r] \in Holding \ Committed => broker[r] = stage[r]

(* Receipts and actions a run has behind it, by its place. *)
Behind(r) ==
  /\ pc[r] \in Holding \ {"begun", "reserved"} => Admitted(r, "attach") \in Synced
  /\ pc[r] \in Holding \ {"begun", "reserved", "attaching", "attach_sent"} =>
       Result(r, "attach") \in Synced
  /\ stage[r] = 3 =>
       /\ pc[r] \in {"admitted", "dispatched", "stored"} => Admitted(r, "read_key") \in Synced
       /\ pc[r] \in {"dispatched", "stored"} => <<r, "read_key">> \in done
       /\ pc[r] = "stored" => Result(r, "read_key") \in Synced
  /\ pc[r] \in Leaving =>
       /\ Admitted(r, "read_key") \in Synced /\ Result(r, "read_key") \in Synced
       /\ {<<r, "read_key">>, <<r, "sanitize">>} \subseteq done
  /\ pc[r] \in Detaching => Admitted(r, "detach") \in Synced
  /\ pc[r] \in Acked => r \in detached
  /\ pc[r] \in Detached => Result(r, "detach") \in Synced
  /\ pc[r] \in Prepared => <<"bookmark", r>> \in Synced
  /\ pc[r] \in Retained => <<"authority", r>> \in Synced
  /\ pc[r] \in Intended => Admitted(r, "intent") \in Synced
  /\ pc[r] \in Committed => broker[r] = Blank /\ disk[r] = Blank
  /\ pc[r] \in Reconciled => Result(r, "intent") \in Synced
  /\ pc[r] \in Delivering => <<"delivery-admitted", r>> \in Synced
  /\ pc[r] = "key_acked" => r \in installed

(* All that must have come before an intent. *)
Cause(r) ==
  /\ {<<"authority", r>>, <<"bookmark", r>>, Admitted(r, "attach"), Result(r, "attach"),
      Admitted(r, "read_key"), Result(r, "read_key"), Admitted(r, "detach"),
      Result(r, "detach")} \subseteq Synced
  /\ stage[r] = 3 /\ r \in detached
  /\ {<<r, "read_key">>, <<r, "sanitize">>} \subseteq done

(* What is found of a journey, by a recovery or by a reader of the broker,  *)
(* whatever became of the run.                                              *)
Found(r) ==
  /\ Admitted(r, "intent") \in DOMAIN files =>
       Cause(r) /\ (power = 0 => broker[r] \in {3, Blank})
  /\ broker[r] = Blank =>
       Cause(r) /\ (power = 0 => Admitted(r, "intent") \in DOMAIN files)
  /\ Result(r, "intent") \in DOMAIN files => broker[r] = Blank /\ disk[r] = Blank
  /\ r \in delivered =>
       Result(r, "intent") \in Synced /\ <<"delivery-admitted", r>> \in Synced
  /\ <<"delivery", r>> \in DOMAIN files => r \in installed

(* A recovery has found an admitted intent, and has the permit alone.       *)
Recovery(k) ==
  LET r == rec[k].epoch IN
  rec[k].at # "idle" =>
    /\ r \in Runs /\ Admitted(r, "intent") \in DOMAIN files
    /\ rec[k].at \in {"permit", "committed"} => pc[r] \notin Holding
    /\ rec[k].at = "committed" => broker[r] = Blank /\ disk[r] = Blank

Journeys == \A r \in Runs : Staged(r) /\ Behind(r) /\ Found(r)
Recoveries == \A k \in Recoverers : Recovery(k)

Inductive == Typed /\ Claims /\ Codes /\ Journeys /\ Recoveries

-----------------------------------------------------------------------------
(* The store. *)

(* Files only become more, and of the receipts they are synced. *)
Grow(F) ==
  /\ Synced \subseteq Synced' /\ DOMAIN files \subseteq DOMAIN files'
  /\ DOMAIN files' \subseteq DOMAIN files \cup F
  /\ \A f \in DOMAIN files' : files'[f] \in {"partial", "unsynced", "durable"}

(* A create-new that succeeds has synced a file that was not there. *)
LEMMA CreatedFacts ==
  ASSUME Typed, NEW f, Created(f)
  PROVE  Grow({f}) /\ f \in Synced' \ DOMAIN files
BY DEF Put, Created, Exists, Grow, Synced, Typed, TypeOK

(* One that fails leaves the other files alone. *)
LEMMA BreaksOffFacts ==
  ASSUME Typed, NEW f, BreaksOff(f)
  PROVE  Grow({f})
<1>1. CASE UNCHANGED files
  BY <1>1 DEF Grow, Synced, Typed, TypeOK
<1>2. CASE ~Exists(f) /\ \E left \in {"partial", "unsynced"} : files' = Put({f}, left, files)
  <2>1. PICK left \in {"partial", "unsynced"} : files' = Put({f}, left, files)
    BY <1>2
  <2> QED BY <1>2, <2>1 DEF Put, Exists, Grow, Synced, Typed, TypeOK
<1> QED BY <1>1, <1>2 DEF BreaksOff

(* A run that creates a receipt goes on with it synced, or fails. *)
LEMMA CreateFacts ==
  ASSUME Typed, NEW r \in Runs, NEW f, NEW next, Create(r, f, next)
  PROVE  /\ Grow({f})
         /\ \/ pc' = [pc EXCEPT ![r] = next] /\ f \in Synced' \ DOMAIN files
            \/ pc' = [pc EXCEPT ![r] = "failed"]
BY CreatedFacts, BreaksOffFacts DEF Create, To

(* The same for the three receipts of a code. *)
LEMMA ReserveCodeFacts ==
  ASSUME Typed, NEW r \in Runs, ReserveCode(r)
  PROVE  /\ Grow({<<"reference", r>>, <<"source", SourceOf[PlanOf[r]]>>, <<"code", CodeOf[r]>>})
         /\ \/ /\ pc' = [pc EXCEPT ![r] = "code_reserved"]
               /\ <<"source", SourceOf[PlanOf[r]]>> \in Synced' \ DOMAIN files
               /\ <<"code", CodeOf[r]>> \in Synced' \ DOMAIN files
            \/ pc' = [pc EXCEPT ![r] = "failed"]
<1> DEFINE receipts == CodeReceipts(r)
           Named(n) == {receipts[i] : i \in 1 .. n}
           Made(n) == Put(Named(n), "durable", files)
           three == {<<"reference", r>>, <<"source", SourceOf[PlanOf[r]]>>, <<"code", CodeOf[r]>>}
<1>1. /\ receipts[1] = <<"reference", r>>
      /\ receipts[2] = <<"source", SourceOf[PlanOf[r]]>> /\ receipts[3] = <<"code", CodeOf[r]>>
  BY DEF CodeReceipts
<1>2. \A n \in 0 .. 3 : Named(n) \subseteq three
  <2> SUFFICES ASSUME NEW n \in 0 .. 3, NEW i \in 1 .. n PROVE receipts[i] \in three
    OBVIOUS
  <2>1. i = 1 \/ i = 2 \/ i = 3
    OBVIOUS
  <2> QED BY <1>1, <2>1
<1>3. {receipts[2], receipts[3]} \subseteq Named(3)
  OBVIOUS
<1> HIDE DEF receipts, Named, three
<1>4. CASE pc' = [pc EXCEPT ![r] = "failed"] /\ UNCHANGED files
  BY <1>4 DEF Grow, Synced, Typed, TypeOK
<1>5. CASE ~(\E i \in 1 .. 3 : Exists(receipts[i]))
  <2>1. three \cap DOMAIN files = {}
    BY <1>1, <1>5 DEF three, Exists
  <2>2. \A n \in 0 .. 3 : files' = Made(n) => Grow(three)
    BY <1>2, <2>1 DEF Put, Grow, Synced, Typed, TypeOK
  <2>3. CASE files' = Made(3) /\ pc' = [pc EXCEPT ![r] = "code_reserved"]
    <3>1. {receipts[2], receipts[3]} \subseteq Synced'
      BY <1>3, <2>3 DEF Put, Synced
    <3>2. {receipts[2], receipts[3]} \cap DOMAIN files = {}
      BY <1>2, <1>3, <2>1
    <3> QED BY <1>1, <2>2, <2>3, <3>1, <3>2 DEF three
  <2>4. ASSUME pc' = [pc EXCEPT ![r] = "failed"], NEW n \in 0 .. 2,
               \/ files' = Made(n)
               \/ \E left \in {"partial", "unsynced"} : files' = Put({receipts[n + 1]}, left, Made(n))
        PROVE  Grow(three)
    <3>1. CASE files' = Made(n)
      BY <2>2, <3>1
    <3>2. ASSUME NEW left \in {"partial", "unsynced"}, files' = Put({receipts[n + 1]}, left, Made(n))
          PROVE  Grow(three)
      <4>1. receipts[n + 1] \in three
        <5>1. n = 0 \/ n = 1 \/ n = 2
          OBVIOUS
        <5> QED BY <1>1, <5>1 DEF three
      <4>2. DOMAIN Made(n) = DOMAIN files \cup Named(n) /\ Named(n) \subseteq three
        BY <1>2 DEF Put
      <4>3. \A f \in DOMAIN files : Made(n)[f] = files[f]
        BY <2>1, <4>2 DEF Put
      <4>4. \A f \in Named(n) : Made(n)[f] = "durable"
        BY DEF Put
      <4> HIDE DEF Made
      <4>5. DOMAIN files' = DOMAIN Made(n) \cup {receipts[n + 1]}
        BY <3>2 DEF Put
      <4>6. \A f \in DOMAIN files : files'[f] = files[f]
        BY <2>1, <3>2, <4>1, <4>2, <4>3 DEF Put
      <4>7. \A f \in DOMAIN files' \ DOMAIN files : files'[f] \in {"partial", "unsynced", "durable"}
        BY <3>2, <4>2, <4>4, <4>5 DEF Put
      <4> QED BY <4>1, <4>2, <4>5, <4>6, <4>7 DEF Grow, Synced, Typed, TypeOK
    <3> QED BY <2>4, <3>1, <3>2
  <2> QED BY <1>5, <2>3, <2>4 DEF ReserveCode, To, three, receipts, Named
<1> QED BY <1>4, <1>5 DEF ReserveCode, To, receipts

-----------------------------------------------------------------------------
(* Types. *)

(* The operations, by stage. *)
LEMMA Operations ==
  /\ Operation(0) = "login" /\ Operation(1) = "backup_code"
  /\ Operation(2) = "renew" /\ Operation(3) = "read_key"
  /\ \A n \in 0 .. 3 : Operation(n) \in Actions
BY DEF Operation, OperationAt, Actions

(* Types are kept by the steps of a run. *)
LEMMA RunTypes ==
  ASSUME Typed, Journeys, NEW r \in Runs, RunStep(r)
  PROVE  Typed'
<1> USE DEF Typed, TypeOK, journeyUnchanged, Active, Blank
<1>1. CASE StageHandoff(r)
  BY <1>1 DEF StageHandoff, To
<1>2. CASE Claim(r)
  BY <1>2, CreateFacts DEF Claim, Grow
<1>3. CASE BeginJourney(r)
  BY <1>3 DEF BeginJourney, To
<1>4. CASE ReserveJourney(r)
  BY <1>4, CreateFacts DEF ReserveJourney, ConsentKey, Grow
<1>5. CASE AdmitAttach(r)
  BY <1>5, CreateFacts DEF AdmitAttach, Grow
<1>6. CASE SendAttach(r)
  BY <1>6 DEF SendAttach, Dispatch, To, Actions
<1>7. CASE StoreAttach(r)
  BY <1>7, CreateFacts DEF StoreAttach, Grow
<1>8. CASE ReserveCode(r)
  BY <1>8, ReserveCodeFacts DEF ReserveCode, Grow
<1>9. CASE AdmitOperation(r)
  BY <1>9, CreateFacts DEF AdmitOperation, Grow
<1>10. CASE ExecuteDom(r)
  <2>1. Operation(stage[r]) \in Actions
    BY <1>10, Operations DEF ExecuteDom, Journeys, Staged, Holding, Early
  <2> QED BY <1>10, <2>1 DEF ExecuteDom, Dispatch, To
<1>11. CASE StoreOperation(r)
  BY <1>11, CreateFacts DEF StoreOperation, Grow
<1>12. CASE AdvanceTarget(r)
  BY <1>12 DEF AdvanceTarget, CanAdvance, To
<1>13. CASE SanitizePage(r)
  BY <1>13 DEF SanitizePage, Dispatch, To, Actions
<1>14. CASE AdmitDetach(r)
  BY <1>14, CreateFacts DEF AdmitDetach, Grow
<1>15. CASE SendDetach(r)
  BY <1>15 DEF SendDetach, Dispatch, To, Actions
<1>16. CASE StoreDetach(r)
  BY <1>16, CreateFacts DEF StoreDetach, Grow
<1>17. CASE CloseTransport(r)
  BY <1>17 DEF CloseTransport, To
<1>18. CASE PrepareIntent(r)
  BY <1>18, CreateFacts DEF PrepareIntent, Grow
<1>19. CASE RetainAuthority(r)
  BY <1>19, CreateFacts DEF RetainAuthority, Grow
<1>20. CASE AdmitIntent(r)
  BY <1>20, CreateFacts DEF AdmitIntent, IntentReady, Grow
<1>21. CASE CommitBroker(r)
  BY <1>21 DEF CommitBroker, Blanked, BlankBreaksOff, To
<1>22. CASE StoreCompletion(r)
  BY <1>22, CreateFacts DEF StoreCompletion, Grow
<1>23. CASE AdmitDelivery(r)
  BY <1>23, CreateFacts DEF AdmitDelivery, Deliverable, Grow
<1>24. CASE SendKey(r)
  BY <1>24 DEF SendKey, To
<1>25. CASE Install(r)
  BY <1>25 DEF Install, To
<1>26. CASE ReadAck(r)
  BY <1>26 DEF ReadAck, Acknowledged, To
<1>27. CASE CompleteDelivery(r)
  BY <1>27, CreateFacts DEF CompleteDelivery, Grow
<1>28. CASE Fail(r)
  BY <1>28 DEF Fail, To
<1> QED
  BY <1>1, <1>2, <1>3, <1>4, <1>5, <1>6, <1>7, <1>8, <1>9, <1>10, <1>11, <1>12, <1>13, <1>14,
     <1>15, <1>16, <1>17, <1>18, <1>19, <1>20, <1>21, <1>22, <1>23, <1>24, <1>25, <1>26,
     <1>27, <1>28 DEF RunStep

-----------------------------------------------------------------------------
(* The steps of a run. *)

(* What a step of r, or of a recovery of r, leaves alone. *)
Local(r) ==
  /\ Synced \subseteq Synced' /\ DOMAIN files \subseteq DOMAIN files' /\ power' = power
  /\ done \subseteq done' /\ \A p \in done' \ done : p[1] = r
  /\ detached \subseteq detached' /\ installed \subseteq installed'
  /\ delivered' \ {r} \subseteq delivered
  /\ \A q \in Runs \ {r} :
       /\ pc'[q] = pc[q] /\ stage'[q] = stage[q] /\ broker'[q] = broker[q]
       /\ disk'[q] \in {disk[q], broker[q]}
       /\ \A f \in {Admitted(q, "intent"), Result(q, "intent"), <<"delivery", q>>} :
            f \in DOMAIN files' => f \in DOMAIN files

(* A run touches its own journey. *)
LEMMA RunIsLocal ==
  ASSUME Typed, NEW r \in Runs, RunStep(r)
  PROVE  Local(r) /\ UNCHANGED rec
<1> USE DEF Local, journeyUnchanged
<1>0. /\ pc \in [Runs -> Active \cup {"failed", "delivered"}] /\ stage \in [Runs -> -1 .. 3]
      /\ broker \in [Runs -> 0 .. Blank] /\ disk \in [Runs -> 0 .. Blank]
  BY DEF Typed, TypeOK
<1>1. CASE StageHandoff(r)
  BY <1>1, <1>0 DEF Synced, StageHandoff, To
<1>2. CASE Claim(r)
  BY <1>0, <1>2, CreateFacts DEF Claim, Grow, Admitted, Result
<1>3. CASE BeginJourney(r)
  BY <1>3, <1>0 DEF Synced, BeginJourney, To
<1>4. CASE ReserveJourney(r)
  BY <1>0, <1>4, CreateFacts DEF ReserveJourney, ConsentKey, Grow, Admitted, Result
<1>5. CASE AdmitAttach(r)
  BY <1>0, <1>5, CreateFacts DEF AdmitAttach, Grow, Admitted, Result
<1>6. CASE SendAttach(r)
  BY <1>6, <1>0 DEF Synced, SendAttach, Dispatch, To
<1>7. CASE StoreAttach(r)
  BY <1>0, <1>7, CreateFacts DEF StoreAttach, Grow, Admitted, Result
<1>8. CASE ReserveCode(r)
  <2> DEFINE three == {<<"reference", r>>, <<"source", SourceOf[PlanOf[r]]>>, <<"code", CodeOf[r]>>}
  <2>1. \A q \in Runs : \A f \in {Admitted(q, "intent"), Result(q, "intent"), <<"delivery", q>>} :
          f \notin three
    BY DEF Admitted, Result
  <2>2. Grow(three) /\ \E next : pc' = [pc EXCEPT ![r] = next]
    BY <1>8, ReserveCodeFacts
  <2> HIDE DEF three
  <2> QED BY <1>0, <1>8, <2>1, <2>2 DEF ReserveCode, Grow
<1>9. CASE AdmitOperation(r)
  BY <1>0, <1>9, CreateFacts DEF AdmitOperation, Grow, Admitted, Result
<1>10. CASE ExecuteDom(r)
  BY <1>10, <1>0 DEF Synced, ExecuteDom, Dispatch, To
<1>11. CASE StoreOperation(r)
  BY <1>0, <1>11, CreateFacts DEF StoreOperation, Grow, Admitted, Result
<1>12. CASE AdvanceTarget(r)
  BY <1>12, <1>0 DEF Synced, AdvanceTarget, CanAdvance, To
<1>13. CASE SanitizePage(r)
  BY <1>13, <1>0 DEF Synced, SanitizePage, Dispatch, To
<1>14. CASE AdmitDetach(r)
  BY <1>0, <1>14, CreateFacts DEF AdmitDetach, Grow, Admitted, Result
<1>15. CASE SendDetach(r)
  BY <1>15, <1>0 DEF Synced, SendDetach, Dispatch, To
<1>16. CASE StoreDetach(r)
  BY <1>0, <1>16, CreateFacts DEF StoreDetach, Grow, Admitted, Result
<1>17. CASE CloseTransport(r)
  BY <1>17, <1>0 DEF Synced, CloseTransport, To
<1>18. CASE PrepareIntent(r)
  BY <1>0, <1>18, CreateFacts DEF PrepareIntent, Grow, Admitted, Result
<1>19. CASE RetainAuthority(r)
  BY <1>0, <1>19, CreateFacts DEF RetainAuthority, Grow, Admitted, Result
<1>20. CASE AdmitIntent(r)
  BY <1>0, <1>20, CreateFacts DEF AdmitIntent, IntentReady, Grow, Admitted, Result
<1>21. CASE CommitBroker(r)
  BY <1>21, <1>0 DEF Synced, CommitBroker, Blanked, BlankBreaksOff, To
<1>22. CASE StoreCompletion(r)
  BY <1>0, <1>22, CreateFacts DEF StoreCompletion, Grow, Admitted, Result
<1>23. CASE AdmitDelivery(r)
  BY <1>0, <1>23, CreateFacts DEF AdmitDelivery, Deliverable, Grow, Admitted, Result
<1>24. CASE SendKey(r)
  BY <1>24, <1>0 DEF Synced, SendKey, To
<1>25. CASE Install(r)
  BY <1>25, <1>0 DEF Synced, Install, To
<1>26. CASE ReadAck(r)
  BY <1>26, <1>0 DEF Synced, ReadAck, Acknowledged, To
<1>27. CASE CompleteDelivery(r)
  BY <1>0, <1>27, CreateFacts DEF CompleteDelivery, Grow, Admitted, Result
<1>28. CASE Fail(r)
  BY <1>28, <1>0 DEF Synced, Fail, To
<1> QED
  BY <1>1, <1>2, <1>3, <1>4, <1>5, <1>6, <1>7, <1>8, <1>9, <1>10, <1>11, <1>12, <1>13, <1>14,
     <1>15, <1>16, <1>17, <1>18, <1>19, <1>20, <1>21, <1>22, <1>23, <1>24, <1>25, <1>26,
     <1>27, <1>28 DEF RunStep

(* So the other runs are where they were. *)
LEMMA OthersStay ==
  ASSUME Typed, Journeys, NEW r \in Runs, Local(r), NEW q \in Runs \ {r}
  PROVE  Staged(q)' /\ Behind(q)' /\ Found(q)'
<1>1. Staged(q)'
  BY DEF Journeys, Staged, Local
<1>2. Behind(q)'
  BY DEF Journeys, Behind, Local
<1>3. \A a : <<q, a>> \in done => <<q, a>> \in done'
  BY DEF Local
<1>4. Cause(q) => Cause(q)'
  BY <1>3 DEF Cause, Local
<1>5. Found(q)'
  BY <1>4 DEF Journeys, Found, Local
<1> QED BY <1>1, <1>2, <1>5

(* What a step does to its own run: the journey's invariant, and no claim,  *)
(* code or permit that was not there before or is new.                      *)
Own(r) ==
  /\ Staged(r)' /\ Behind(r)' /\ Found(r)'
  /\ Owns(r)' /\ ~Owns(r) => <<"claimed", PlanOf[r]>> \in Synced' \ DOMAIN files
  /\ HasCode(r)' /\ ~HasCode(r) =>
       {<<"source", SourceOf[PlanOf[r]]>>, <<"code", CodeOf[r]>>} \subseteq Synced' \ DOMAIN files
  /\ pc'[r] \in Holding => pc[r] \in Holding \/ stage[r] = -1
  /\ broker[r] = Blank /\ disk[r] = Blank => broker'[r] = Blank /\ disk'[r] = Blank

(* Each step of a run does so. *)
LEMMA RunKeepsOwn ==
  ASSUME Typed, Journeys, NEW r \in Runs, RunStep(r)
  PROVE  Own(r)
<1> USE DEF Own, journeyUnchanged, Staged, Behind, Found, Cause, Owns, HasCode,
            Early, Holding, Active, Leaving, Detaching, Acked, Detached, Prepared,
            Retained, Intended, Committed, Reconciled, Delivering
<1>0. /\ pc \in [Runs -> Active \cup {"failed", "delivered"}] /\ stage \in [Runs -> -1 .. 3]
      /\ broker \in [Runs -> 0 .. Blank] /\ disk \in [Runs -> 0 .. Blank]
      /\ Staged(r) /\ Behind(r) /\ Found(r)
  BY DEF Typed, TypeOK, Journeys
<1>1. CASE StageHandoff(r)
  BY <1>1, <1>0 DEF Synced, Blank, StageHandoff, To
<1>2. CASE Claim(r)
  BY <1>0, <1>2, CreateFacts DEF Claim, Grow, Admitted, Result, Blank
<1>3. CASE BeginJourney(r)
  BY <1>3, <1>0 DEF Synced, Blank, BeginJourney, To
<1>4. CASE ReserveJourney(r)
  BY <1>0, <1>4, CreateFacts DEF ReserveJourney, ConsentKey, Grow, Admitted, Result, Blank
<1>5. CASE AdmitAttach(r)
  BY <1>0, <1>5, CreateFacts DEF AdmitAttach, Grow, Admitted, Result, Blank
<1>6. CASE SendAttach(r)
  BY <1>6, <1>0 DEF Synced, Blank, SendAttach, Dispatch, To
<1>7. CASE StoreAttach(r)
  BY <1>0, <1>7, CreateFacts DEF StoreAttach, Grow, Admitted, Result, Blank
<1>8. CASE ReserveCode(r)
  <2> DEFINE source == <<"source", SourceOf[PlanOf[r]]>>
             code == <<"code", CodeOf[r]>>
             three == {<<"reference", r>>, source, code}
  <2>1. {Admitted(r, "intent"), Result(r, "intent"), <<"delivery", r>>} \cap three = {}
    BY DEF Admitted, Result
  <2>2. /\ Grow(three)
        /\ \/ pc' = [pc EXCEPT ![r] = "code_reserved"] /\ {source, code} \subseteq Synced' \ DOMAIN files
           \/ pc' = [pc EXCEPT ![r] = "failed"]
    BY <1>8, ReserveCodeFacts
  <2> HIDE DEF three, source, code
  <2>3. {source, code} \subseteq Synced' \ DOMAIN files \/ pc'[r] = "failed"
    BY <1>0, <2>2
  <2>4. HasCode(r)' /\ ~HasCode(r) => {source, code} \subseteq Synced' \ DOMAIN files
    BY <1>0, <1>8, <2>3 DEF ReserveCode
  <2> QED BY <1>0, <1>8, <2>1, <2>2, <2>4 DEF ReserveCode, Grow, Blank, source, code
<1>9. CASE AdmitOperation(r)
  BY <1>0, <1>9, Operations, CreateFacts DEF AdmitOperation, Grow, Admitted, Result, Blank
<1>10. CASE ExecuteDom(r)
  BY <1>0, <1>10, Operations DEF ExecuteDom, Dispatch, To, Synced, Blank
<1>11. CASE StoreOperation(r)
  BY <1>0, <1>11, Operations, CreateFacts DEF StoreOperation, Grow, Admitted, Result, Blank
<1>12. CASE AdvanceTarget(r)
  BY <1>12, <1>0 DEF Synced, Blank, AdvanceTarget, CanAdvance, To
<1>13. CASE SanitizePage(r)
  BY <1>13, <1>0 DEF Synced, Blank, SanitizePage, Dispatch, To
<1>14. CASE AdmitDetach(r)
  BY <1>0, <1>14, CreateFacts DEF AdmitDetach, Grow, Admitted, Result, Blank
<1>15. CASE SendDetach(r)
  BY <1>15, <1>0 DEF Synced, Blank, SendDetach, Dispatch, To
<1>16. CASE StoreDetach(r)
  BY <1>0, <1>16, CreateFacts DEF StoreDetach, Grow, Admitted, Result, Blank
<1>17. CASE CloseTransport(r)
  BY <1>17, <1>0 DEF Synced, Blank, CloseTransport, To
<1>18. CASE PrepareIntent(r)
  BY <1>0, <1>18, CreateFacts DEF PrepareIntent, Grow, Admitted, Result, Blank
<1>19. CASE RetainAuthority(r)
  BY <1>0, <1>19, CreateFacts DEF RetainAuthority, Grow, Admitted, Result, Blank
<1>20. CASE AdmitIntent(r)
  BY <1>0, <1>20, CreateFacts DEF AdmitIntent, IntentReady, Grow, Admitted, Result, Blank
<1>21. CASE CommitBroker(r)
  BY <1>21, <1>0 DEF Synced, Blank, CommitBroker, Blanked, BlankBreaksOff, To
<1>22. CASE StoreCompletion(r)
  BY <1>0, <1>22, CreateFacts DEF StoreCompletion, Grow, Admitted, Result, Blank
<1>23. CASE AdmitDelivery(r)
  BY <1>0, <1>23, CreateFacts DEF AdmitDelivery, Deliverable, Grow, Admitted, Result, Blank
<1>24. CASE SendKey(r)
  BY <1>24, <1>0 DEF Synced, Blank, SendKey, To
<1>25. CASE Install(r)
  BY <1>25, <1>0 DEF Synced, Blank, Install, To
<1>26. CASE ReadAck(r)
  BY <1>26, <1>0 DEF Synced, Blank, ReadAck, Acknowledged, To
<1>27. CASE CompleteDelivery(r)
  BY <1>0, <1>27, CreateFacts DEF CompleteDelivery, Grow, Admitted, Result, Blank
<1>28. CASE Fail(r)
  BY <1>28, <1>0 DEF Synced, Blank, Fail, To
<1> QED
  BY <1>1, <1>2, <1>3, <1>4, <1>5, <1>6, <1>7, <1>8, <1>9, <1>10, <1>11, <1>12, <1>13, <1>14,
     <1>15, <1>16, <1>17, <1>18, <1>19, <1>20, <1>21, <1>22, <1>23, <1>24, <1>25, <1>26,
     <1>27, <1>28 DEF RunStep

-----------------------------------------------------------------------------
(* Steps that are local and keep their own run keep the invariant. *)

(* No plan is claimed twice. *)
LEMMA ClaimsStep ==
  ASSUME Claims, NEW r \in Runs, Local(r), Own(r)
  PROVE  Claims'
<1>1. \A q \in Runs \ {r} : Owns(q)' => Owns(q)
  BY DEF Local, Owns
<1>2. Synced \subseteq Synced' /\ Synced \subseteq DOMAIN files
  BY DEF Local, Synced
<1>3. \A q \in Runs : Owns(q)' => <<"claimed", PlanOf[q]>> \in Synced'
  BY <1>1, <1>2 DEF Claims, Own
<1>4. ASSUME NEW q \in Runs \ {r}, Owns(q)', Owns(r)' PROVE PlanOf[q] # PlanOf[r]
  BY <1>1, <1>2, <1>4 DEF Claims, Own
<1> QED BY <1>1, <1>3, <1>4 DEF Claims

(* No code is taken twice. *)
LEMMA CodesStep ==
  ASSUME Codes, NEW r \in Runs, Local(r), Own(r)
  PROVE  Codes'
<1>0. \A q \in Runs \ {r} : <<q, "backup_code">> \in done' => <<q, "backup_code">> \in done
  <2> SUFFICES ASSUME NEW q \in Runs \ {r}, <<q, "backup_code">> \in done' \ done PROVE FALSE
    OBVIOUS
  <2>1. <<q, "backup_code">>[1] = r
    BY DEF Local
  <2> QED BY <2>1
<1>1. \A q \in Runs \ {r} : HasCode(q)' => HasCode(q)
  BY <1>0 DEF Local, HasCode
<1>2. Synced \subseteq Synced' /\ Synced \subseteq DOMAIN files
  BY DEF Local, Synced
<1>3. \A q \in Runs : HasCode(q)' =>
        <<"source", SourceOf[PlanOf[q]]>> \in Synced' /\ <<"code", CodeOf[q]>> \in Synced'
  BY <1>1, <1>2 DEF Codes, Own
<1>4. ASSUME NEW q \in Runs \ {r}, HasCode(q)', HasCode(r)'
      PROVE  CodeOf[q] # CodeOf[r] /\ SourceOf[PlanOf[q]] # SourceOf[PlanOf[r]]
  BY <1>1, <1>2, <1>4 DEF Codes, Own
<1> QED BY <1>1, <1>3, <1>4 DEF Codes

(* A recovery keeps what it found, and the permit. *)
LEMMA RecoveriesStep ==
  ASSUME Typed, Journeys, Recoveries, NEW r \in Runs, Local(r), Own(r),
         NEW k \in Recoverers, rec'[k] = rec[k]
  PROVE  Recovery(k)'
<1> DEFINE q == rec[k].epoch
<1>1. CASE rec[k].at = "idle"
  BY <1>1 DEF Recovery
<1>2. CASE rec[k].at # "idle"
  <2>1. /\ q \in Runs /\ Admitted(q, "intent") \in DOMAIN files
        /\ rec[k].at \in {"permit", "committed"} => pc[q] \notin Holding
        /\ rec[k].at = "committed" => broker[q] = Blank /\ disk[q] = Blank
    BY <1>2 DEF Recoveries, Recovery
  <2> HIDE DEF q
  <2>2. stage[q] # -1
    <3>1. Cause(q)
      BY <2>1 DEF Journeys, Found
    <3> QED BY <3>1 DEF Cause
  <2>3. Admitted(q, "intent") \in DOMAIN files'
    BY <2>1 DEF Local
  <2>4. pc[q] \notin Holding => pc'[q] \notin Holding
    BY <2>1, <2>2 DEF Local, Own
  <2>5. broker[q] = Blank /\ disk[q] = Blank => broker'[q] = Blank /\ disk'[q] = Blank
    BY <2>1 DEF Local, Own
  <2> QED BY <2>1, <2>3, <2>4, <2>5 DEF Recovery, q
<1> QED BY <1>1, <1>2

(* A run keeps the whole invariant. *)
LEMMA RunStepKeeps ==
  ASSUME Inductive, NEW r \in Runs, RunStep(r)
  PROVE  Inductive'
<1> USE DEF Inductive
<1>1. Local(r) /\ Own(r) /\ UNCHANGED rec
  BY RunIsLocal, RunKeepsOwn
<1>2. Typed'
  BY RunTypes
<1>3. Claims' /\ Codes'
  BY <1>1, ClaimsStep, CodesStep
<1>4. Journeys'
  BY <1>1, OthersStay DEF Journeys, Own
<1>5. Recoveries'
  BY <1>1, RecoveriesStep DEF Recoveries
<1> QED BY <1>2, <1>3, <1>4, <1>5

-----------------------------------------------------------------------------
(* Recoveries. *)

(* Steps that leave everything but the recoverers alone. *)
LEMMA JourneysStay ==
  ASSUME Claims, Codes, Journeys,
         UNCHANGED <<pc, stage, files, done, detached, broker, disk, delivered, installed, power>>
  PROVE  Claims' /\ Codes' /\ Journeys'
<1>1. UNCHANGED Synced
  BY DEF Synced
<1>2. Claims'
  BY <1>1 DEF Claims, Owns
<1>3. Codes'
  BY <1>1 DEF Codes, HasCode
<1>4. ASSUME NEW r \in Runs PROVE Staged(r)' /\ Behind(r)' /\ Found(r)'
  <2>1. Staged(r) /\ Behind(r) /\ Found(r)
    BY DEF Journeys
  <2>2. Staged(r)'
    BY <2>1 DEF Staged
  <2>3. Behind(r)'
    BY <1>1, <2>1 DEF Behind
  <2>4. Found(r)'
    BY <1>1, <2>1 DEF Found, Cause
  <2> QED BY <2>2, <2>3, <2>4
<1> QED BY <1>2, <1>3, <1>4 DEF Journeys

(* What RecoverReads has seen is the invariant of a recovery. *)
LEMMA RecovererKeeps ==
  ASSUME Inductive, NEW k \in Recoverers, RecovererStep(k)
  PROVE  Inductive'
<1> USE DEF Inductive, recUnchanged
<1>0. /\ pc \in [Runs -> Active \cup {"failed", "delivered"}] /\ stage \in [Runs -> -1 .. 3]
      /\ broker \in [Runs -> 0 .. Blank] /\ disk \in [Runs -> 0 .. Blank]
      /\ rec \in [Recoverers -> Records]
  BY DEF Typed, TypeOK
<1>1. ASSUME rec' = [rec EXCEPT ![k] = Idle], UNCHANGED <<files, broker, disk>>, recUnchanged
      PROVE  Inductive'
  <2>1. Typed'
    BY <1>0, <1>1 DEF Typed, TypeOK, Records, Idle, Statuses
  <2>2. Claims' /\ Codes' /\ Journeys'
    BY <1>1, JourneysStay
  <2>3. Recoveries'
    BY <1>0, <1>1 DEF Recoveries, Recovery, Idle
  <2> QED BY <2>1, <2>2, <2>3
<1>2. ASSUME NEW r \in Runs, RecoverReads(k, r) PROVE Inductive'
  <2>1. UNCHANGED <<pc, stage, files, done, detached, broker, disk, delivered, installed, power>>
    BY <1>2 DEF RecoverReads
  <2>2. Admitted(r, "intent") \in DOMAIN files /\ Status(r, "intent") \in Statuses
    BY <1>2 DEF RecoverReads, Recoverable, Status, Exists, Statuses
  <2>3. rec' = [rec EXCEPT ![k] = [epoch |-> r, at |-> "read", status |-> Status(r, "intent")]]
    BY <1>2 DEF RecoverReads, RecTo
  <2>4. Typed'
    BY <1>0, <2>1, <2>2, <2>3 DEF Typed, TypeOK, Records, Statuses
  <2>5. Claims' /\ Codes' /\ Journeys'
    BY <2>1, JourneysStay
  <2>6. Recoveries'
    BY <1>0, <2>1, <2>2, <2>3 DEF Recoveries, Recovery
  <2> QED BY <2>4, <2>5, <2>6
<1>3. CASE RecoverResumes(k)
  <2>1. UNCHANGED <<pc, stage, files, done, detached, broker, disk, delivered, installed, power>>
    BY <1>3 DEF RecoverResumes
  <2>2. rec' = [rec EXCEPT ![k] = [epoch |-> rec[k].epoch, at |-> "permit", status |-> rec[k].status]]
    BY <1>3 DEF RecoverResumes, RecTo
  <2>3. rec[k].at = "read" /\ pc[rec[k].epoch] \notin Holding
    BY <1>3 DEF RecoverResumes, PermitFree
  <2>4. Typed'
    BY <1>0, <2>1, <2>2 DEF Typed, TypeOK, Records, Statuses
  <2>5. Claims' /\ Codes' /\ Journeys'
    BY <2>1, JourneysStay
  <2>6. Recoveries'
    BY <1>0, <2>1, <2>2, <2>3 DEF Recoveries, Recovery
  <2> QED BY <2>4, <2>5, <2>6
<1>4. CASE RecoverCommits(k)
  <2>0. PICK r \in Runs : r = rec[k].epoch
    BY <1>4 DEF RecoverCommits, Recoveries, Recovery
  <2>1. rec[k].at = "permit" /\ Admitted(r, "intent") \in DOMAIN files /\ pc[r] \notin Holding
    BY <1>4, <2>0 DEF RecoverCommits, Recoveries, Recovery
  <2>2. UNCHANGED <<pc, stage, files, done, detached, delivered, installed, power, Synced>>
    BY <1>4 DEF RecoverCommits, Synced
  <2>3. \/ /\ broker' = [broker EXCEPT ![r] = Blank] /\ disk' = broker'
           /\ rec' = [rec EXCEPT ![k] = [epoch |-> r, at |-> "committed", status |-> rec[k].status]]
        \/ /\ broker' \in {broker, [broker EXCEPT ![r] = Blank]} /\ disk' = disk
           /\ rec' = [rec EXCEPT ![k] = Idle]
    BY <1>4, <2>0 DEF RecoverCommits, RecTo, Blanked, BlankBreaksOff
  <2>4. Typed'
    <3>1. rec[k].status \in Statuses /\ 4 \in 0 .. 4
      BY <1>0 DEF Records
    <3> QED BY <1>0, <2>1, <2>2, <2>3, <3>1 DEF Typed, TypeOK, Records, Statuses, Idle, Blank
  <2>5. Local(r)
    BY <1>0, <2>1, <2>2, <2>3 DEF Local
  <2>6. Cause(r) /\ Cause(r)' /\ Staged(r) /\ Behind(r) /\ Found(r)
    BY <2>1, <2>2 DEF Journeys, Found, Cause
  <2>7. Own(r)
    <3>1. broker'[r] = Blank \/ broker'[r] = broker[r]
      BY <1>0, <2>1, <2>3
    <3>2. pc[r] \notin Early
      BY <2>6 DEF Staged, Cause
    <3>3. Staged(r)'
      BY <2>1, <2>2, <2>6, <3>2 DEF Staged
    <3>4. broker[r] = Blank /\ disk[r] = Blank => broker'[r] = Blank /\ disk'[r] = Blank
      BY <1>0, <2>1, <2>3
    <3>5. Behind(r)'
      BY <2>2, <2>6, <3>4 DEF Behind
    <3>6. Found(r)'
      BY <2>1, <2>2, <2>6, <3>1, <3>4 DEF Found
    <3> QED BY <2>1, <2>2, <3>3, <3>4, <3>5, <3>6 DEF Own, Owns, HasCode
  <2>8. Claims' /\ Codes'
    BY <2>1, <2>5, <2>7, ClaimsStep, CodesStep
  <2>9. Journeys'
    BY <2>1, <2>5, <2>7, OthersStay DEF Journeys, Own
  <2>10. \A j \in Recoverers \ {k} : Recovery(j)'
    <3>1. \A j \in Recoverers \ {k} : rec'[j] = rec[j]
      BY <1>0, <2>3
    <3> QED BY <2>1, <2>5, <2>7, <3>1, RecoveriesStep
  <2>11. Recovery(k)'
    <3>1. CASE rec' = [rec EXCEPT ![k] = Idle]
      BY <1>0, <3>1 DEF Recovery, Idle
    <3>2. CASE /\ broker' = [broker EXCEPT ![r] = Blank] /\ disk' = broker'
               /\ rec' = [rec EXCEPT ![k] = [epoch |-> r, at |-> "committed", status |-> rec[k].status]]
      <4>1. rec'[k].epoch = r
        BY <1>0, <3>2
      <4>2. broker'[r] = Blank /\ disk'[r] = Blank
        BY <1>0, <2>1, <3>2
      <4> QED BY <2>1, <2>2, <4>1, <4>2 DEF Recovery
    <3> QED BY <2>3, <3>1, <3>2
  <2> QED BY <2>4, <2>8, <2>9, <2>10, <2>11 DEF Recoveries
<1>5. CASE RecoverCompletes(k)
  <2>0. PICK r \in Runs : r = rec[k].epoch
    BY <1>5 DEF RecoverCompletes, Recoveries, Recovery
  <2> DEFINE f == Result(r, "intent")
  <2>1. rec[k].at = "committed" /\ broker[r] = Blank /\ disk[r] = Blank
    BY <1>5, <2>0 DEF RecoverCompletes, Recoveries, Recovery
  <2>2. UNCHANGED <<pc, stage, done, detached, broker, disk, delivered, installed, power>>
    BY <1>5 DEF RecoverCompletes
  <2>3. rec' = [rec EXCEPT ![k] = Idle]
    BY <1>5 DEF RecoverCompletes
  <2>4. Grow({f})
    <3>1. CASE UNCHANGED files
      BY <3>1 DEF Grow, Synced, Typed, TypeOK
    <3>2. CASE Created(f) \/ BreaksOff(f)
      BY <3>2, CreatedFacts, BreaksOffFacts
    <3> QED BY <1>5, <2>0, <3>1, <3>2 DEF RecoverCompletes
  <2>5. Typed'
    BY <1>0, <2>2, <2>3, <2>4 DEF Typed, TypeOK, Records, Statuses, Idle, Grow
  <2>6. Local(r)
    BY <1>0, <2>1, <2>2, <2>4 DEF Local, Grow, Admitted, Result
  <2>7. Staged(r) /\ Behind(r) /\ Found(r)
    BY <2>1 DEF Journeys
  <2>8. Own(r)
    <3>1. Staged(r)' /\ Behind(r)'
      BY <2>2, <2>4, <2>7 DEF Staged, Behind, Grow
    <3>2. Cause(r)'
      BY <2>1, <2>2, <2>4, <2>7 DEF Found, Cause, Grow
    <3>3. Found(r)'
      BY <2>1, <2>2, <2>4, <2>7, <3>2 DEF Found, Grow, Admitted, Result
    <3> QED BY <2>1, <2>2, <2>4, <3>1, <3>3 DEF Own, Owns, HasCode
  <2>9. Claims' /\ Codes'
    BY <2>1, <2>6, <2>8, ClaimsStep, CodesStep
  <2>10. Journeys'
    BY <2>1, <2>6, <2>8, OthersStay DEF Journeys, Own
  <2>11. \A j \in Recoverers \ {k} : Recovery(j)'
    <3>1. \A j \in Recoverers \ {k} : rec'[j] = rec[j]
      BY <1>0, <2>3
    <3> QED BY <2>1, <2>6, <2>8, <3>1, RecoveriesStep
  <2>12. Recovery(k)'
    BY <1>0, <2>3 DEF Recovery, Idle
  <2> QED BY <2>5, <2>9, <2>10, <2>11, <2>12 DEF Recoveries
<1>6. CASE RecoverFails(k)
  BY <1>1, <1>6 DEF RecoverFails
<1> QED BY <1>2, <1>3, <1>4, <1>5, <1>6 DEF RecovererStep

-----------------------------------------------------------------------------
(* Plans, and the loss of power. *)

(* A plan's receipt is nobody's. *)
LEMMA BindPlanKeeps ==
  ASSUME Inductive, NEW p, BindPlan(p)
  PROVE  Inductive'
<1> USE DEF Inductive
<1>1. Grow({<<"plan", p>>}) /\ UNCHANGED pc /\ journeyUnchanged
  BY CreatedFacts, BreaksOffFacts DEF BindPlan
<1>2. Typed'
  BY <1>1 DEF Typed, TypeOK, Grow, journeyUnchanged
<1>3. Claims'
  BY <1>1 DEF Claims, Owns, Grow, journeyUnchanged
<1>4. Codes'
  BY <1>1 DEF Codes, HasCode, Grow, journeyUnchanged
<1>5. ASSUME NEW r \in Runs PROVE Staged(r)' /\ Behind(r)' /\ Found(r)'
  <2>1. Staged(r) /\ Behind(r) /\ Found(r)
    BY DEF Journeys
  <2>2. Staged(r)'
    BY <1>1, <2>1 DEF Staged, journeyUnchanged
  <2>3. Behind(r)'
    BY <1>1, <2>1 DEF Behind, Grow, journeyUnchanged
  <2>4. Cause(r) => Cause(r)'
    BY <1>1 DEF Cause, Grow, journeyUnchanged
  <2>5. \A f \in {Admitted(r, "intent"), Result(r, "intent"), <<"delivery", r>>} :
          f \in DOMAIN files' <=> f \in DOMAIN files
    BY <1>1 DEF Grow, Admitted, Result
  <2>6. Found(r)'
    BY <1>1, <2>1, <2>4, <2>5 DEF Found, Grow, journeyUnchanged
  <2> QED BY <2>2, <2>3, <2>6
<1>6. Recoveries'
  BY <1>1 DEF Recoveries, Recovery, Grow, journeyUnchanged
<1> QED BY <1>2, <1>3, <1>4, <1>5, <1>6 DEF Journeys

(* What is synced stays, the broker does not fall below what is synced of   *)
(* it, and everyone who acted is gone.                                      *)
LEMMA PowerFailsKeeps ==
  ASSUME Inductive, PowerFails
  PROVE  Inductive'
<1> USE DEF Inductive
<1>1. /\ Synced \subseteq Synced' /\ DOMAIN files' \subseteq DOMAIN files
      /\ \A f \in DOMAIN files' : files'[f] \in {"partial", "unsynced", "durable"}
  BY DEF PowerFails, Synced, Typed, TypeOK
<1>2. /\ pc' = [r \in Runs |-> IF pc[r] \in Active \ {"connected"} THEN "failed" ELSE pc[r]]
      /\ rec' = [k \in Recoverers |-> Idle] /\ disk' = broker' /\ power' = power + 1
      /\ broker' \in [Runs -> 0 .. Blank]
      /\ \A r \in Runs : disk[r] <= broker'[r] /\ broker'[r] <= broker[r]
      /\ UNCHANGED <<stage, done, detached, delivered, installed>>
  BY DEF PowerFails
<1>3. power' \in 0 .. MaxPower /\ power' # 0
  BY JourneyAssumption DEF PowerFails, Typed, TypeOK
<1>4. /\ pc \in [Runs -> Active \cup {"failed", "delivered"}]
      /\ broker \in [Runs -> 0 .. Blank] /\ disk \in [Runs -> 0 .. Blank]
  BY DEF Typed, TypeOK
<1>5. Typed'
  BY <1>1, <1>2, <1>3, <1>4 DEF Typed, TypeOK, Records, Idle, Statuses, Active
<1>6. \A r \in Runs : \/ pc'[r] = "failed"
                      \/ pc'[r] = pc[r] /\ pc[r] \in {"connected", "failed", "delivered"}
  BY <1>2, <1>4
<1>7. Claims'
  BY <1>1, <1>2, <1>6 DEF Claims, Owns
<1>8. Codes'
  BY <1>1, <1>2, <1>6 DEF Codes, HasCode
<1>9. ASSUME NEW r \in Runs PROVE Staged(r)' /\ Behind(r)' /\ Found(r)'
  <2>1. Staged(r) /\ Behind(r) /\ Found(r)
    BY DEF Journeys
  <2>2. broker[r] = Blank /\ disk[r] = Blank => broker'[r] = Blank /\ disk'[r] = Blank
    BY <1>2, <1>4 DEF Blank
  <2>3. broker'[r] = Blank => broker[r] = Blank
    BY <1>2, <1>4 DEF Blank
  <2>4. broker[r] = 0 => broker'[r] = 0
    BY <1>2, <1>4 DEF Blank
  <2>5. Staged(r)'
    BY <1>2, <1>6, <2>1, <2>4 DEF Staged, Early, Holding, Active, Leaving
  <2>6. Behind(r)'
    BY <1>1, <1>2, <1>6, <2>1, <2>2
       DEF Behind, Holding, Active, Leaving, Detaching, Acked, Detached, Prepared,
           Retained, Intended, Committed, Reconciled, Delivering
  <2>7. Cause(r) => Cause(r)'
    BY <1>1, <1>2 DEF Cause
  <2>8. Found(r)'
    BY <1>1, <1>2, <1>3, <2>1, <2>2, <2>3, <2>7 DEF Found
  <2> QED BY <2>5, <2>6, <2>8
<1>10. Recoveries'
  BY <1>2 DEF Recoveries, Recovery, Idle
<1> QED BY <1>5, <1>7, <1>8, <1>9, <1>10 DEF Journeys

-----------------------------------------------------------------------------
(* Before anything has happened. *)
LEMMA InductiveInit == Init => Inductive
<1> SUFFICES ASSUME Init PROVE Inductive
  OBVIOUS
<1>1. DOMAIN files = {} /\ Synced = {}
  BY DEF Init, Synced
<1>2. Typed
  BY <1>1, JourneyAssumption DEF Init, Typed, TypeOK, Records, Idle, Statuses, Active, Blank
<1>3. Claims /\ Codes
  BY DEF Init, Claims, Codes, Owns, HasCode
<1>4. ASSUME NEW r \in Runs PROVE Staged(r) /\ Behind(r) /\ Found(r)
  <2>1. pc[r] = "connected" /\ stage[r] = -1 /\ broker[r] = 0 /\ r \notin delivered
    BY DEF Init
  <2> QED BY <1>1, <2>1
          DEF Staged, Behind, Found, Blank, Early, Holding, Active, Leaving, Detaching, Acked,
              Detached, Prepared, Retained, Intended, Committed, Reconciled, Delivering
<1>5. Recoveries
  BY DEF Init, Recoveries, Recovery, Idle
<1> QED BY <1>2, <1>3, <1>4, <1>5 DEF Inductive, Journeys

(* Every step keeps the invariant. *)
LEMMA InductiveStep == Inductive /\ [Next]_vars => Inductive'
<1> SUFFICES ASSUME Inductive, [Next]_vars PROVE Inductive'
  OBVIOUS
<1>1. CASE Next
  BY <1>1, BindPlanKeeps, RunStepKeeps, RecovererKeeps, PowerFailsKeeps DEF Next
<1>2. CASE UNCHANGED vars
  <2>1. Typed' /\ Recoveries'
    BY <1>2 DEF vars, Inductive, Typed, TypeOK, Recoveries, Recovery
  <2>2. Claims' /\ Codes' /\ Journeys'
    BY <1>2, JourneysStay DEF vars, Inductive
  <2> QED BY <2>1, <2>2 DEF Inductive
<1> QED BY <1>1, <1>2

(* The inductive invariant holds always. *)
LEMMA InductiveInvariant == Spec => []Inductive
BY InductiveInit, InductiveStep, PTL DEF Spec

(* What came before an intent is what recover() asks for. *)
LEMMA CauseIsEvidence ==
  ASSUME NEW r, Cause(r)
  PROVE  Evidence(r)
BY DEF Cause, Evidence, Whole, Exists, Status, Synced

(* However many connections ask for a plan, through broken claims and       *)
(* losses of power, one of them begins its private epoch                    *)
(* (private_bound_execution.rs, the claim receipt).                         *)
THEOREM PlanOnceHolds == Spec => []PlanOnce
<1>1. Inductive => PlanOnce
  BY DEF Inductive, Claims, Owns, PlanOnce
<1> QED BY <1>1, InductiveInvariant, PTL

(* A backup code is typed at most once and a source slot used at most once, *)
(* under whatever consents, restarts and broken reservations                *)
(* (reserve_backup_code).                                                   *)
THEOREM CodeOnceHolds == Spec => []CodeOnce
<1>1. Inductive => CodeOnce
  BY DEF Inductive, Codes, HasCode, CodeOnce
<1> QED BY <1>1, InductiveInvariant, PTL

(* Whatever becomes of the run that admitted an intent, recover() finds all *)
(* it asks for and, power failures apart, a broker record it accepts        *)
(* (private_journey.rs, private_recovery.rs).                               *)
THEOREM IntentIsRecoverable == Spec => []IntentRecoverable
<1>1. Inductive => IntentRecoverable
  <2> SUFFICES ASSUME Inductive, NEW r \in Runs, Exists(Admitted(r, "intent"))
               PROVE  /\ Evidence(r) /\ stage[r] = 3
                      /\ Status(r, "intent") # "error" /\ power = 0
                           => BrokerAccepts(r, Status(r, "intent"))
    BY DEF IntentRecoverable
  <2>1. Found(r) /\ Admitted(r, "intent") \in DOMAIN files
    BY DEF Inductive, Journeys, Exists
  <2>2. Evidence(r) /\ stage[r] = 3
    BY <2>1, CauseIsEvidence DEF Found, Cause
  <2>3. power = 0 => broker[r] \in {3, Blank}
    BY <2>1 DEF Found
  <2>4. Status(r, "intent") = "result_ready" => broker[r] = Blank
    BY <2>1 DEF Found, Status, Whole, Exists
  <2> QED BY <2>2, <2>3, <2>4 DEF BrokerAccepts
<1> QED BY <1>1, InductiveInvariant, PTL

(* A blank broker record, a completion receipt and a delivered key each     *)
(* rest on what must come before them, whether a run or a recovery left     *)
(* them and wherever power failed (reconcile, recover and deliver).         *)
THEOREM EffectsAreCaused == Spec => []EffectsHaveCause
<1>1. Inductive => EffectsHaveCause
  <2> SUFFICES ASSUME Inductive PROVE EffectsHaveCause
    OBVIOUS
  <2>1. \A r \in Runs : Found(r)
    BY DEF Inductive, Journeys
  <2>2. BlankedWithCause
    BY <2>1, CauseIsEvidence DEF BlankedWithCause, Found, Cause, Exists
  <2>3. CompletionTrue
    BY <2>1 DEF CompletionTrue, Found, Whole, Exists
  <2>4. DeliveredWithCause
    BY <2>1 DEF DeliveredWithCause, Found, Whole, Exists, Synced
  <2> QED BY <2>2, <2>3, <2>4 DEF Inductive, Typed, EffectsHaveCause
<1> QED BY <1>1, InductiveInvariant, PTL
=============================================================================
