----------------------- MODULE TaskConfirmationsProofs -----------------------
(***************************************************************************)
(* Proofs about TaskConfirmations: every decision is dispatched once and   *)
(* none is lost without trace (DispatchIsSound), the ledger of retired ids *)
(* always passes its own verification (LedgerAlwaysVerifies), and          *)
(* decisions are final (DecisionsAreFinal).                                *)
(***************************************************************************)
EXTENDS TaskConfirmations, FiniteSetTheorems, WellFoundedInduction, TLAPS

(* Files and memory as records, so that what a step changes of them is all  *)
(* it changes.                                                              *)
IsManifest(m) ==
  /\ m = [form |-> m.form, active |-> m.active, count |-> m.count, head |-> m.head]
  /\ m.form \in {"absent", "legacy", "v2"} /\ m.active \subseteq Ids
  /\ m.count \in 0 .. MaxSegments

IsOp ==
  /\ op = [at |-> op.at, id |-> op.id, next |-> op.next, new |-> op.new, man |-> op.man,
           cands |-> op.cands]
  /\ op.at \in {"idle", "archived", "stage", "run", "persist", "remove"}
  /\ op.at = "archived" => op.id \in Ids /\ op.next \in {"run", "end", "other", "stage"}
  /\ op.at = "archived" /\ op.next = "stage" => op.new \in Ids
  /\ op.at = "stage" => op.id \in Ids
  /\ op.at = "run" => op.id \in Ids \cup {Other}
  /\ op.at = "persist" => IsManifest(op.man) /\ op.man.form = "v2"
  /\ op.cands \subseteq Ids

IsSegments ==
  /\ segments = [n \in 1 .. MaxSegments |-> segments[n]]
  /\ \A n \in 1 .. MaxSegments : segments[n].ids \subseteq Ids

Typed ==
  /\ TypeOK /\ IsManifest(manifest) /\ IsOp /\ IsSegments
  /\ runs \in [Ids -> {0, 1}]

(* The operation the worker is in the middle of will not stage or dispatch  *)
(* an id again; nothing is in memory while it works on a record.            *)
Working ==
  /\ op.at = "archived" => mem = None
  /\ op.at = "archived" /\ op.next = "run" =>
       runs[op.id] = 0 /\ receipts[op.id] = "dispatched"
  /\ op.at = "archived" /\ op.next = "stage" => runs[op.new] = 0 /\ now < MaxStages
  /\ op.at = "stage" => mem = None /\ runs[op.id] = 0 /\ now < MaxStages
  /\ op.at = "run" /\ op.id \in Ids =>
       runs[op.id] = 1 /\ receipts[op.id] = "dispatched" /\ op.id \notin lost
  /\ op.at \in {"persist", "remove"} => \A i \in op.cands : receipts[i] \in Safe

(* An id that was dispatched has its receipt or is retired, and is not      *)
(* pending; what was lost keeps the receipt of its dispatch.                *)
Traced ==
  \A i \in Ids :
    /\ runs[i] = 1 =>
         /\ receipts[i] \in {"dispatched", "completed", "failed"} \/ i \in RetiredIds
         /\ pending = None \/ pending.id # i
    /\ i \in lost => runs[i] = 1 /\ receipts[i] = "dispatched"

(* The confirmation of another action was staged with nothing pending. *)
OtherAlone == Live(mem) /\ ~mem.durable => pending = None

(* The segments a manifest counts are full, disjoint and chained to its     *)
(* head, and hold none of its active ids.                                   *)
IdsUpTo(n) == UNION {segments[k].ids : k \in 1 .. n}
Sealed(m) ==
  /\ \A n \in 1 .. m.count :
       /\ Cardinality(segments[n].ids) = SegmentCapacity
       /\ segments[n].prev = Segment(n - 1)
       /\ \A k \in 1 .. n - 1 : segments[k].ids \cap segments[n].ids = {}
  /\ m.head = Segment(m.count)
  /\ IdsUpTo(m.count) \cap m.active = {}
  /\ Cardinality(IdsUpTo(m.count)) = m.count * SegmentCapacity

(* The manifest in the file is sealed; the one being written is, goes on    *)
(* from it and retires what is to be removed.                               *)
Ledger ==
  /\ Sealed(manifest)
  /\ manifest.form = "v2" => Cardinality(manifest.active) <= SegmentCapacity
  /\ op.at = "persist" =>
       /\ Sealed(op.man) /\ manifest.count <= op.man.count
       /\ IdsUpTo(op.man.count) \cup op.man.active = RetiredIds \cup op.cands
  /\ op.at = "remove" => op.cands \subseteq RetiredIds

Inductive == Typed /\ Working /\ Traced /\ OtherAlone /\ Ledger

-----------------------------------------------------------------------------
(* Finite sets of numbers. *)

(* A set of numbers has a least element. *)
LEMMA LeastExists ==
  ASSUME NEW S \in SUBSET Nat, S # {}
  PROVE  \E x \in S : \A y \in S : x <= y
<1>1. \E x \in S : \A y \in S : <<y, x>> \notin OpToRel(<, Nat)
  BY NatLessThanWellFounded, WFMin
<1>2. PICK x \in S : \A y \in S : <<y, x>> \notin OpToRel(<, Nat)
  BY <1>1
<1>3. ASSUME NEW y \in S, ~(x <= y) PROVE FALSE
  <2>1. <<y, x>> \in Nat \X Nat /\ y < x
    BY <1>3
  <2>2. <<y, x>>[1] = y /\ <<y, x>>[2] = x
    OBVIOUS
  <2>3. <<y, x>> \in {ss \in Nat \X Nat : ss[1] < ss[2]}
    BY <2>1, <2>2
  <2>4. <<y, x>> \in OpToRel(<, Nat)
    BY <2>3, Zenon DEF OpToRel
  <2> QED BY <1>2, <2>4
<1> QED BY <1>2, <1>3

(* Of a larger set, the lowest elements of any number can be taken: the     *)
(* least number for which they could not would have a predecessor.          *)
LEMMA LowestExist ==
  ASSUME NEW S \in SUBSET Nat, IsFiniteSet(S), NEW c \in Nat, c <= Cardinality(S)
  PROVE  \E s \in SUBSET S : Cardinality(s) = c /\ \A i \in s, j \in S \ s : i < j
<1> DEFINE Lowest(s) == s \in SUBSET S /\ \A i \in s, j \in S \ s : i < j
           Sizes == {Cardinality(s) : s \in {t \in SUBSET S : Lowest(t)}}
           Missing == (0 .. Cardinality(S)) \ Sizes
<1>1. Cardinality(S) \in Nat
  BY FS_CardinalityType
<1>2. 0 \in Sizes
  <2>1. Lowest({})
    OBVIOUS
  <2>2. Cardinality({}) = 0
    BY FS_EmptySet
  <2> QED BY <2>1, <2>2
<1>3. ASSUME NEW n \in 0 .. Cardinality(S), n # Cardinality(S), n \in Sizes
      PROVE  n + 1 \in Sizes
  <2>1. PICK s \in SUBSET S : Lowest(s) /\ Cardinality(s) = n
    BY <1>3
  <2>2. IsFiniteSet(s)
    BY FS_Subset
  <2>3. S \ s # {}
    BY <1>3, <2>1
  <2>4. PICK x \in S \ s : \A y \in S \ s : x <= y
    BY <2>3, LeastExists
  <2>5. Lowest(s \cup {x})
    <3> SUFFICES ASSUME NEW i \in s \cup {x}, NEW j \in S \ (s \cup {x}) PROVE i < j
      BY <2>4
    <3>1. CASE i \in s
      BY <2>1, <3>1
    <3>2. CASE i = x
      BY <2>4, <3>2
    <3> QED BY <3>1, <3>2
  <2>6. Cardinality(s \cup {x}) = n + 1
    BY <2>1, <2>2, <2>4, FS_AddElement
  <2> QED BY <2>5, <2>6
<1>4. Missing = {}
  <2> SUFFICES ASSUME Missing # {} PROVE FALSE
    OBVIOUS
  <2>0. Missing \in SUBSET Nat
    BY <1>1
  <2>1. PICK m \in Missing : \A k \in Missing : m <= k
    <3> HIDE DEF Missing
    <3> QED BY <2>0, LeastExists
  <2>2. m # 0 /\ m \in 0 .. Cardinality(S)
    BY <1>2, <2>1
  <2>3. m - 1 \in 0 .. Cardinality(S) /\ m - 1 # Cardinality(S) /\ m - 1 \in Sizes
    BY <1>1, <2>1, <2>2
  <2>4. (m - 1) + 1 \in Sizes
    BY <1>3, <2>3
  <2> QED BY <2>1, <2>2, <2>4
<1>5. c \in Sizes
  BY <1>1, <1>4
<1> QED BY <1>5

(* What Oldest takes. *)
LEMMA OldestFacts ==
  ASSUME NEW active \in SUBSET Ids, Cardinality(active) > SegmentCapacity
  PROVE  Oldest(active) \subseteq active /\ Cardinality(Oldest(active)) = SegmentCapacity
<1>1. active \in SUBSET Nat /\ IsFiniteSet(active)
  BY ConfirmationAssumption, FS_Subset
<1>2. SegmentCapacity \in Nat /\ Cardinality(active) \in Nat
  BY <1>1, ConfirmationAssumption, FS_CardinalityType
<1>3. \E s \in SUBSET active :
        Cardinality(s) = SegmentCapacity /\ \A i \in s, j \in active \ s : i < j
  BY <1>1, <1>2, LowestExist
<1> QED BY <1>3, Zenon DEF Oldest

(* Dividing. *)
LEMMA DivBound ==
  ASSUME NEW x \in Nat, NEW c \in Nat \ {0}, NEW n \in Nat, n * c <= x
  PROVE  n <= x \div c /\ x \div c \in Nat
<1>1. x \div c \in Int /\ x % c \in 0 .. (c - 1) /\ x = c * (x \div c) + (x % c)
  OBVIOUS
<1> DEFINE q == x \div c
           r == x % c
<1> HIDE DEF q, r
<1>2. q \in Int /\ r \in 0 .. (c - 1) /\ x = c * q + r
  BY <1>1 DEF q, r
<1>3. n * c < (q + 1) * c
  BY <1>2
<1>4. n < q + 1
  BY <1>2, <1>3
<1> QED BY <1>2, <1>4 DEF q

(* There is a place for one more segment. *)
LEMMA SegmentFits ==
  ASSUME IsSegments, NEW m, IsManifest(m), Sealed(m), Cardinality(m.active) > SegmentCapacity
  PROVE  m.count + 1 \in 1 .. MaxSegments
<1> DEFINE full == IdsUpTo(m.count)
           act == m.active
           c == SegmentCapacity
<1>1. IsFiniteSet(Ids) /\ Cardinality(Ids) \in Nat /\ c \in Nat \ {0}
  BY ConfirmationAssumption, FS_CardinalityType
<1>2. m.count \in Nat /\ m.count <= MaxSegments /\ MaxSegments \in Int
  <2>1. MaxSegments \in Int
    BY <1>1, DivBound DEF MaxSegments
  <2> QED BY <2>1 DEF IsManifest
<1>3. full \subseteq Ids /\ act \subseteq Ids
  <2>1. \A k \in 1 .. m.count : k \in 1 .. MaxSegments
    BY <1>2
  <2>2. \A k \in 1 .. m.count : segments[k].ids \subseteq Ids
    BY <2>1 DEF IsSegments
  <2> QED BY <2>2 DEF IsManifest, IdsUpTo
<1>4. IsFiniteSet(full) /\ IsFiniteSet(act)
  BY <1>1, <1>3, FS_Subset
<1>5. full \cap act = {} /\ Cardinality(full) = m.count * c
  BY DEF Sealed
<1>6. Cardinality(full) \in Nat /\ Cardinality(act) \in Nat
  BY <1>4, FS_CardinalityType
<1>7. Cardinality(full \cup act) = Cardinality(full) + Cardinality(act)
  <2>1. Cardinality(full \cap act) = 0
    BY <1>5, FS_EmptySet
  <2>2. Cardinality(full \cup act) = Cardinality(full) + Cardinality(act) - Cardinality(full \cap act)
    BY <1>4, FS_Union
  <2> QED BY <1>6, <2>1, <2>2
<1>8. Cardinality(full \cup act) <= Cardinality(Ids)
  <2>1. full \cup act \subseteq Ids
    BY <1>3
  <2> QED BY <1>1, <2>1, FS_Subset
<1>9. (m.count + 1) * c <= Cardinality(Ids)
  <2>1. (m.count + 1) * c = m.count * c + c
    BY <1>1, <1>2
  <2>2. m.count * c \in Nat /\ Cardinality(act) > c
    BY <1>1, <1>2
  <2> HIDE DEF full, act, c
  <2> QED BY <1>1, <1>5, <1>6, <1>7, <1>8, <2>1, <2>2
<1>10. m.count + 1 <= Cardinality(Ids) \div c /\ Cardinality(Ids) \div c \in Nat
  BY <1>1, <1>2, <1>9, DivBound
<1> QED BY <1>2, <1>10 DEF MaxSegments

(* A number of segments is a number, and what it counts is in range. *)
LEMMA SegmentRange ==
  ASSUME NEW n \in 0 .. MaxSegments
  PROVE  n \in Nat /\ MaxSegments \in Nat /\ \A k \in 1 .. n : k \in 1 .. MaxSegments
<1>1. Cardinality(Ids) \in Nat /\ SegmentCapacity \in Nat \ {0}
  BY ConfirmationAssumption, FS_CardinalityType
<1>2. MaxSegments \in Nat
  BY <1>1, DivBound DEF MaxSegments
<1> QED BY <1>2

(* What an operation goes on with once the record is removed. *)
LEMMA RemovePendingCases ==
  ASSUME IsOp, RemovePending
  PROVE  /\ op.at = "archived" /\ op.id \in Ids /\ pending' = None
         /\ UNCHANGED <<now, receipts, stagedAt, manifest, segments, review, lost, breaks>>
         /\ \/ /\ op.next = "run" /\ op' = [Idle EXCEPT !.at = "run", !.id = op.id]
               /\ runs' = [runs EXCEPT ![op.id] = @ + 1] /\ mem' = mem
            \/ op.next = "end" /\ op' = Idle /\ runs' = runs /\ mem' = mem
            \/ /\ op.next = "other" /\ op' = Idle /\ runs' = runs
               /\ mem' = [id |-> Other, durable |-> FALSE, expired |-> FALSE]
            \/ /\ op.next = "stage" /\ op' = [Idle EXCEPT !.at = "stage", !.id = op.new]
               /\ op.new \in Ids /\ runs' = runs /\ mem' = mem
BY DEF RemovePending, IsOp

(* What a decision with no control pending leaves. *)
LEMMA DecideOtherCases ==
  ASSUME NEW i \in Ids \cup {Other}, NEW d \in {"confirm", "deny"}, NEW ok \in BOOLEAN,
         DecideOther(i, d, ok)
  PROVE  /\ pending' = None /\ receipts' = receipts
         /\ \/ op' = op /\ mem' = mem
            \/ op' = Idle /\ mem' = None
            \/ op' = [Idle EXCEPT !.at = "run", !.id = Other] /\ mem' = None
BY DEF DecideOther

-----------------------------------------------------------------------------
(* Types. *)

(* Every step keeps the shape of files and memory. *)
LEMMA TypedStep ==
  ASSUME Typed, Working, Traced, Ledger, Next
  PROVE  Typed'
<1> USE ConfirmationAssumption
    DEF Typed, TypeOK, IsManifest, IsOp, IsSegments, Idle, States, Safe
<1>1. ASSUME NEW i \in Ids, StageControl(i) PROVE Typed'
  <2>1. CASE pending = None /\ WritePending(i) /\ UNCHANGED <<receipts, op>>
    BY <1>1, <2>1 DEF StageControl, WritePending
  <2>2. CASE pending # None /\ ExpireInTheWay("stage", i)
    BY <1>1, <2>2 DEF StageControl, ExpireInTheWay, Archive, Archived
  <2> QED BY <1>1, <2>1, <2>2 DEF StageControl
<1>2. CASE StageOther
  <2>1. CASE Loaded = None /\ UNCHANGED <<receipts, stagedAt, op, now>>
    <3>1. pending' = None /\ mem' = [id |-> Other, durable |-> FALSE, expired |-> FALSE]
      BY <1>2, <2>1 DEF StageOther
    <3> QED BY <1>2, <2>1, <3>1 DEF StageOther
  <2>2. CASE pending # None /\ ExpireInTheWay("other", None)
    BY <1>2, <2>2 DEF StageOther, ExpireInTheWay, Archive, Archived
  <2> QED BY <1>2, <2>1, <2>2 DEF StageOther, Loaded
<1>3. CASE StageRefused
  BY <1>3 DEF StageRefused
<1>4. CASE Expire
  BY <1>4 DEF Expire
<1>5. CASE Status
  BY <1>5 DEF Status, Loaded
<1>6. ASSUME NEW i \in Ids \cup {Other}, NEW d \in {"confirm", "deny"}, NEW ok \in BOOLEAN,
             Decide(i, d, ok)
      PROVE  Typed'
  <2>1. CASE DecideDurable(i, d, ok)
    BY <1>6, <2>1 DEF Decide, DecideDurable, Archive, Archived, Loaded, Verdict
  <2>2. CASE DecideMalformed
    BY <1>6, <2>2 DEF Decide, DecideMalformed
  <2>3. CASE DecideOther(i, d, ok)
    <3>1. op' = op \/ op' = Idle \/ op' = [Idle EXCEPT !.at = "run", !.id = Other]
      BY <2>3 DEF DecideOther
    <3>2. IsOp'
      <4>1. CASE op' = op
        BY <4>1
      <4>2. CASE op' = Idle
        BY <4>2
      <4>3. CASE op' = [Idle EXCEPT !.at = "run", !.id = Other]
        BY <4>3
      <4> QED BY <3>1, <4>1, <4>2, <4>3
    <3>3. mem' = mem \/ mem' = None
      BY <2>3 DEF DecideOther
    <3> QED BY <1>6, <2>3, <3>2, <3>3 DEF Decide, DecideOther
  <2> QED BY <1>6, <2>1, <2>2, <2>3 DEF Decide
<1>7. CASE RemovePending
  <2>0. /\ op.at = "archived" /\ op.id \in Ids
        /\ \/ /\ op.next = "run" /\ op' = [Idle EXCEPT !.at = "run", !.id = op.id]
              /\ runs' = [runs EXCEPT ![op.id] = @ + 1]
           \/ op' = Idle /\ runs' = runs
           \/ /\ op.next = "stage" /\ op' = [Idle EXCEPT !.at = "stage", !.id = op.new]
              /\ op.new \in Ids /\ runs' = runs
    BY <1>7, RemovePendingCases
  <2>1. IsOp'
    <3>1. CASE op.next = "run" /\ op' = [Idle EXCEPT !.at = "run", !.id = op.id]
      BY <2>0, <3>1
    <3>2. CASE op' = Idle
      BY <3>2
    <3>3. CASE op.next = "stage" /\ op' = [Idle EXCEPT !.at = "stage", !.id = op.new]
      BY <2>0, <3>3
    <3> QED BY <2>0, <3>1, <3>2, <3>3
  <2>2. runs' \in [Ids -> {0, 1}]
    <3>1. CASE op.next = "run" /\ runs' = [runs EXCEPT ![op.id] = @ + 1]
      <4>1. runs[op.id] = 0
        BY <2>0, <3>1 DEF Working
      <4> QED BY <2>0, <3>1, <4>1
    <3> QED BY <2>0, <3>1
  <2>3. /\ pending' = None /\ UNCHANGED <<now, receipts, stagedAt, manifest, segments, lost, breaks>>
        /\ mem' = mem \/ mem' = [id |-> Other, durable |-> FALSE, expired |-> FALSE]
    BY <1>7, RemovePendingCases
  <2>4. mem' = None \/ mem' \in [id : Ids \cup {Other}, durable : BOOLEAN, expired : BOOLEAN]
    <3>1. CASE mem' = mem
      BY <3>1
    <3>2. CASE mem' = [id |-> Other, durable |-> FALSE, expired |-> FALSE]
      BY <3>2
    <3> QED BY <2>3, <3>1, <3>2
  <2>5. IsManifest(manifest)' /\ IsSegments'
    BY <2>3
  <2>6. TypeOK'
    BY <2>1, <2>3, <2>4
  <2> HIDE DEF IsOp, IsManifest, IsSegments, TypeOK
  <2> QED BY <2>1, <2>2, <2>5, <2>6
<1>8. CASE StageWrites
  BY <1>8 DEF StageWrites, WritePending, Working
<1>9. ASSUME NEW success \in BOOLEAN, RunReturns(success) PROVE Typed'
  BY <1>9 DEF RunReturns
<1>10. ASSUME NEW retain \in Retains, NEW cutoff \in 0 .. now, Preview(retain, cutoff)
       PROVE  Typed'
  BY <1>10 DEF Preview
<1>11. ASSUME NEW cutoff \in 0 .. now, Apply(cutoff) PROVE Typed'
  BY <1>11 DEF Apply, Candidates, SafeRecords, Migrated
<1>12. CASE PersistSegment
  <2> DEFINE full == [prev |-> op.man.head, ids |-> Oldest(op.man.active)]
  <2>1. full.ids \subseteq op.man.active /\ op.man.count + 1 \in 1 .. MaxSegments
    BY <1>12, OldestFacts, SegmentFits DEF PersistSegment, Ledger
  <2>2. /\ segments' = [segments EXCEPT ![op.man.count + 1] = full]
        /\ op' = [op EXCEPT !.man.active = @ \ full.ids, !.man.count = @ + 1, !.man.head = full]
    BY <1>12 DEF PersistSegment
  <2>3. IsSegments'
    BY <1>12, <2>1, <2>2 DEF PersistSegment
  <2>4. IsOp'
    <3>1. op' = [at |-> op.at, id |-> op.id, next |-> op.next, new |-> op.new,
                 man |-> [form |-> op.man.form, active |-> op.man.active \ full.ids,
                          count |-> op.man.count + 1, head |-> full],
                 cands |-> op.cands]
      BY <1>12, <2>2 DEF PersistSegment
    <3>2. op.at = "persist"
      BY <1>12 DEF PersistSegment
    <3> HIDE DEF full
    <3>3. 1 .. MaxSegments \subseteq 0 .. MaxSegments
      OBVIOUS
    <3> QED BY <2>1, <3>1, <3>2, <3>3
  <2> QED BY <1>12, <2>3, <2>4 DEF PersistSegment
<1>13. CASE PersistManifest
  BY <1>13 DEF PersistManifest
<1>14. CASE RemoveReceipt
  <2>1. PICK i \in op.cands :
          /\ receipts' = [receipts EXCEPT ![i] = "none"]
          /\ op' = IF op.cands = {i} THEN Idle ELSE [op EXCEPT !.cands = @ \ {i}]
    BY <1>14 DEF RemoveReceipt
  <2>2. IsOp'
    BY <1>14, <2>1 DEF RemoveReceipt
  <2>3. receipts' \in [Ids -> States]
    BY <2>1
  <2> QED BY <1>14, <2>2, <2>3 DEF RemoveReceipt
<1>15. CASE BreaksOff
  BY <1>15 DEF BreaksOff, Forgotten
<1>16. CASE Crash
  BY <1>16 DEF Crash, Forgotten
<1> HIDE DEF Typed
<1> QED
  BY <1>1, <1>2, <1>3, <1>4, <1>5, <1>6, <1>7, <1>8, <1>9, <1>10, <1>11, <1>12, <1>13, <1>14,
     <1>15, <1>16 DEF Next

-----------------------------------------------------------------------------
(* The ledger. *)

(* Segments beyond those a manifest counts do not matter to it. *)
LEMMA SealedStays ==
  ASSUME NEW m, IsManifest(m), Sealed(m), NEW n \in Nat, m.count < n, NEW full,
         segments' = [segments EXCEPT ![n] = full], IsSegments, n \in 1 .. MaxSegments
  PROVE  /\ \A k \in 1 .. m.count : segments'[k] = segments[k]
         /\ UNCHANGED IdsUpTo(m.count) /\ Sealed(m)'
<1>1. m.count \in Nat /\ \A k \in 1 .. m.count : k \in 1 .. MaxSegments /\ k # n
  BY SegmentRange DEF IsManifest
<1>2. \A k \in 1 .. m.count : segments'[k] = segments[k]
  BY <1>1 DEF IsSegments
<1>3. UNCHANGED IdsUpTo(m.count)
  BY <1>2 DEF IdsUpTo
<1>4. \A k \in 0 .. m.count : Segment(k)' = Segment(k)
  BY <1>1, <1>2 DEF Segment
<1>5. \A k \in 1 .. m.count : k - 1 \in 0 .. m.count /\ \A j \in 1 .. k - 1 : j \in 1 .. m.count
  BY <1>1
<1>6. m.count \in 0 .. m.count
  BY <1>1
<1> QED BY <1>2, <1>3, <1>4, <1>5, <1>6 DEF Sealed

(* A segment filled from the active ids extends the chain. *)
LEMMA SealedGrows ==
  ASSUME NEW m, IsManifest(m), Sealed(m), IsSegments, Cardinality(m.active) > SegmentCapacity,
         NEW full, full = [prev |-> m.head, ids |-> Oldest(m.active)],
         segments' = [segments EXCEPT ![m.count + 1] = full],
         NEW new, new = [m EXCEPT !.active = @ \ full.ids, !.count = @ + 1, !.head = full]
  PROVE  /\ Sealed(new)'
         /\ IdsUpTo(new.count)' \cup new.active = IdsUpTo(m.count) \cup m.active
<1>1. /\ full.ids \subseteq m.active /\ Cardinality(full.ids) = SegmentCapacity
      /\ full.prev = m.head
  BY OldestFacts DEF IsManifest
<1>2. m.count + 1 \in 1 .. MaxSegments /\ m.count \in Nat
  BY SegmentFits DEF IsManifest
<1>3. new.count = m.count + 1 /\ new.active = m.active \ full.ids /\ new.head = full
  BY DEF IsManifest
<1>4. /\ \A k \in 1 .. m.count : segments'[k] = segments[k]
      /\ UNCHANGED IdsUpTo(m.count) /\ Sealed(m)'
  <2>1. m.count < m.count + 1 /\ m.count + 1 \in Nat
    BY <1>2
  <2> QED BY <1>2, <2>1, SealedStays
<1>5. segments'[m.count + 1] = full
  BY <1>2 DEF IsSegments
<1>6. IdsUpTo(m.count + 1)' = IdsUpTo(m.count) \cup full.ids
  <2>1. 1 .. (m.count + 1) = (1 .. m.count) \cup {m.count + 1}
    BY <1>2
  <2>2. IdsUpTo(m.count + 1)' = IdsUpTo(m.count)' \cup segments'[m.count + 1].ids
    BY <2>1 DEF IdsUpTo
  <2> QED BY <1>4, <1>5, <2>2
<1>7. IdsUpTo(m.count) \cap m.active = {}
  BY DEF Sealed
<1>8. Cardinality(IdsUpTo(m.count + 1)') = (m.count + 1) * SegmentCapacity
  <2> DEFINE old == IdsUpTo(m.count)
  <2>1. IsFiniteSet(old) /\ IsFiniteSet(full.ids)
    <3>1. IsFiniteSet(Ids) /\ m.active \subseteq Ids
      BY ConfirmationAssumption DEF IsManifest
    <3>2. \A k \in 1 .. m.count : segments[k].ids \subseteq Ids
      BY SegmentRange DEF IsSegments, IsManifest
    <3>3. old \subseteq Ids
      BY <3>2 DEF IdsUpTo
    <3>4. full.ids \subseteq Ids
      BY <1>1, <3>1
    <3> QED BY <3>1, <3>3, <3>4, FS_Subset
  <2>2. Cardinality(old \cap full.ids) = 0
    BY <1>1, <1>7, FS_EmptySet
  <2>3. Cardinality(old \cup full.ids) = Cardinality(old) + Cardinality(full.ids) - Cardinality(old \cap full.ids)
    BY <2>1, FS_Union
  <2>4. Cardinality(old) = m.count * SegmentCapacity
    BY DEF Sealed
  <2>5. SegmentCapacity \in Nat
    BY ConfirmationAssumption
  <2> HIDE DEF old
  <2>6. Cardinality(old \cup full.ids) = m.count * SegmentCapacity + SegmentCapacity
    BY <1>1, <1>2, <2>2, <2>3, <2>4, <2>5
  <2>7. m.count * SegmentCapacity + SegmentCapacity = (m.count + 1) * SegmentCapacity
    BY <1>2, <2>5
  <2> QED BY <1>6, <2>6, <2>7 DEF old
<1>9. Segment(m.count + 1)' = full
  BY <1>2, <1>5 DEF Segment
<1>10. Segment(m.count)' = m.head
  BY <1>4 DEF Sealed
<1>11. \A k \in 1 .. m.count : segments'[k].ids \cap full.ids = {}
  BY <1>1, <1>4, <1>7 DEF IdsUpTo
<1>12. ASSUME NEW n \in 1 .. m.count + 1
       PROVE  /\ Cardinality(segments'[n].ids) = SegmentCapacity
              /\ segments'[n].prev = Segment(n - 1)'
              /\ \A k \in 1 .. n - 1 : segments'[k].ids \cap segments'[n].ids = {}
  <2>1. CASE n = m.count + 1
    <3>1. n - 1 = m.count
      BY <1>2, <2>1
    <3> QED BY <1>1, <1>5, <1>10, <1>11, <2>1, <3>1
  <2>2. CASE n # m.count + 1
    <3>1. n \in 1 .. m.count
      BY <1>2, <2>2
    <3> QED BY <1>4, <3>1 DEF Sealed
  <2> QED BY <2>1, <2>2
<1>13. IdsUpTo(new.count)' = IdsUpTo(m.count) \cup full.ids
  BY <1>3, <1>6
<1>14. Sealed(new)'
  BY <1>1, <1>3, <1>7, <1>8, <1>9, <1>12, <1>13 DEF Sealed
<1> QED BY <1>1, <1>3, <1>13, <1>14

(* Every step keeps the ledger, and what is retired. *)
LEMMA LedgerStep ==
  ASSUME Typed, Ledger, Next
  PROVE  Ledger' /\ RetiredIds \subseteq RetiredIds'
<1> DEFINE Goal == Ledger' /\ RetiredIds \subseteq RetiredIds'
<1> SUFFICES Goal
  OBVIOUS
<1>1. ASSUME UNCHANGED <<manifest, segments>>,
             op'.at \notin {"persist", "remove"} \/ op' = op
      PROVE  Goal
  <2>1. RetiredIds' = RetiredIds
    BY <1>1 DEF RetiredIds, SegmentIds
  <2>2. Sealed(manifest)'
    BY <1>1 DEF Ledger, Sealed, IdsUpTo, Segment
  <2>3. op' = op /\ op.at = "persist" => Sealed(op.man)' /\ IdsUpTo(op.man.count)' = IdsUpTo(op.man.count)
    BY <1>1 DEF Ledger, Sealed, IdsUpTo, Segment
  <2> QED BY <1>1, <2>1, <2>2, <2>3 DEF Ledger
<1>2. ASSUME NEW i \in Ids, StageControl(i) PROVE Goal
  <2>1. op' = op \/ op'.at = "archived"
    BY <1>2 DEF StageControl, ExpireInTheWay, Archived, Idle
  <2> QED BY <1>1, <1>2, <2>1 DEF StageControl
<1>3. CASE StageOther
  <2>1. op' = op \/ op'.at = "archived"
    BY <1>3 DEF StageOther, ExpireInTheWay, Archived, Idle
  <2> QED BY <1>1, <1>3, <2>1 DEF StageOther
<1>4. CASE StageRefused
  BY <1>1, <1>4 DEF StageRefused
<1>5. CASE Expire
  BY <1>1, <1>5 DEF Expire
<1>6. CASE Status
  BY <1>1, <1>6 DEF Status
<1>7. ASSUME NEW i \in Ids \cup {Other}, NEW d \in {"confirm", "deny"}, NEW ok \in BOOLEAN,
             Decide(i, d, ok)
      PROVE  Goal
  <2>1. op' = op \/ op'.at \in {"archived", "run", "idle"}
    <3>1. CASE DecideDurable(i, d, ok)
      BY <3>1 DEF DecideDurable, Archived, Idle
    <3>2. CASE DecideMalformed
      BY <3>2 DEF DecideMalformed
    <3>3. CASE DecideOther(i, d, ok)
      <4>1. CASE op' = op
        BY <4>1
      <4>2. CASE op' = Idle
        BY <4>2 DEF Idle
      <4>3. CASE op' = [Idle EXCEPT !.at = "run", !.id = Other]
        BY <4>3 DEF Idle
      <4> QED BY <3>3, <4>1, <4>2, <4>3, DecideOtherCases
    <3> QED BY <1>7, <3>1, <3>2, <3>3 DEF Decide
  <2> QED BY <1>1, <1>7, <2>1 DEF Decide
<1>8. CASE RemovePending
  <2>1. op'.at \in {"run", "idle", "stage"}
    <3>1. CASE op' = [Idle EXCEPT !.at = "run", !.id = op.id]
      BY <3>1 DEF Idle
    <3>2. CASE op' = Idle
      BY <3>2 DEF Idle
    <3>3. CASE op' = [Idle EXCEPT !.at = "stage", !.id = op.new]
      BY <3>3 DEF Idle
    <3> QED BY <1>8, <3>1, <3>2, <3>3, RemovePendingCases DEF Typed
  <2> QED BY <1>1, <1>8, <2>1 DEF RemovePending
<1>9. CASE StageWrites
  BY <1>1, <1>9 DEF StageWrites, Idle
<1>10. ASSUME NEW success \in BOOLEAN, RunReturns(success) PROVE Goal
  BY <1>1, <1>10 DEF RunReturns, Idle
<1>11. ASSUME NEW retain \in Retains, NEW cutoff \in 0 .. now, Preview(retain, cutoff) PROVE Goal
  BY <1>1, <1>11 DEF Preview
<1>12. ASSUME NEW cutoff \in 0 .. now, Apply(cutoff) PROVE Goal
  <2> DEFINE cands == Candidates(review.retain, cutoff)
  <2>1. /\ UNCHANGED <<manifest, segments>> /\ cands \cap RetiredIds = {}
        /\ op'.at = "persist" /\ op'.cands = cands
        /\ op'.man = [manifest EXCEPT !.form = "v2", !.active = @ \cup cands]
    BY <1>12 DEF Apply, Idle, Migrated, Typed, IsManifest
  <2> HIDE DEF cands
  <2>2. RetiredIds' = RetiredIds /\ IdsUpTo(manifest.count)' = IdsUpTo(manifest.count)
    BY <2>1 DEF RetiredIds, SegmentIds, IdsUpTo
  <2>3. /\ op'.man.count = manifest.count /\ op'.man.head = manifest.head
        /\ op'.man.active = manifest.active \cup cands
    BY <2>1 DEF Typed, IsManifest
  <2>4. RetiredIds = IdsUpTo(manifest.count) \cup manifest.active
    BY DEF RetiredIds, SegmentIds, IdsUpTo
  <2>5. Sealed(manifest)'
    BY <2>1 DEF Ledger, Sealed, IdsUpTo, Segment
  <2>6. (IdsUpTo(manifest.count) \cap (manifest.active \cup cands)) = {}
    BY <2>1, <2>4 DEF Ledger, Sealed
  <2>7. Sealed(op.man)'
    BY <2>1, <2>2, <2>3, <2>5, <2>6 DEF Sealed
  <2>8. manifest.count <= op'.man.count
    BY <2>3 DEF Typed, IsManifest
  <2>9. IdsUpTo(op.man.count)' \cup op'.man.active = RetiredIds \cup cands
    <3>1. IdsUpTo(op.man.count)' = IdsUpTo(manifest.count)
      BY <2>1, <2>3 DEF IdsUpTo
    <3> QED BY <2>3, <2>4, <3>1
  <2> QED BY <2>1, <2>2, <2>5, <2>7, <2>8, <2>9 DEF Ledger
<1>13. CASE PersistSegment
  <2> DEFINE full == [prev |-> op.man.head, ids |-> Oldest(op.man.active)]
  <2>1. /\ op.at = "persist" /\ Cardinality(op.man.active) > SegmentCapacity
        /\ UNCHANGED manifest /\ segments' = [segments EXCEPT ![op.man.count + 1] = full]
    BY <1>13 DEF PersistSegment
  <2>2. /\ op'.at = op.at /\ op'.cands = op.cands
        /\ op'.man = [op.man EXCEPT !.active = @ \ full.ids, !.count = @ + 1, !.head = full]
    BY <1>13 DEF PersistSegment, Typed, IsOp
  <2>3. IsManifest(op.man) /\ Sealed(op.man) /\ manifest.count <= op.man.count /\ IsSegments
    BY <2>1 DEF Typed, IsOp, Ledger
  <2>4. Sealed(op.man)' /\ IdsUpTo(op.man.count)' \cup op'.man.active = IdsUpTo(op.man.count) \cup op.man.active
    BY <2>1, <2>2, <2>3, SealedGrows
  <2>5. /\ \A k \in 1 .. manifest.count : segments'[k] = segments[k]
        /\ Sealed(manifest)'
    <3>1. op.man.count + 1 \in 1 .. MaxSegments
      BY <2>1, <2>3, SegmentFits
    <3>2. manifest.count < op.man.count + 1 /\ op.man.count + 1 \in Nat /\ IsManifest(manifest)
      BY <2>3 DEF Typed, IsManifest
    <3> QED BY <2>1, <2>3, <3>1, <3>2, SealedStays DEF Ledger
  <2>6. RetiredIds' = RetiredIds
    BY <2>1, <2>5 DEF RetiredIds, SegmentIds
  <2>7. manifest.count <= op'.man.count
    BY <2>2, <2>3 DEF IsManifest, Typed
  <2> QED BY <2>1, <2>2, <2>4, <2>5, <2>6, <2>7 DEF Ledger
<1>14. CASE PersistManifest
  <2>1. /\ op.at = "persist" /\ Cardinality(op.man.active) <= SegmentCapacity
        /\ manifest' = op.man /\ UNCHANGED segments
        /\ op' = Idle \/ (op'.at = "remove" /\ op'.cands = op.cands)
    BY <1>14 DEF PersistManifest, Typed, IsOp
  <2>2. RetiredIds' = IdsUpTo(op.man.count) \cup op.man.active
    BY <2>1 DEF RetiredIds, SegmentIds, IdsUpTo
  <2>3. Sealed(manifest)'
    BY <2>1 DEF Ledger, Sealed, IdsUpTo, Segment
  <2> QED BY <2>1, <2>2, <2>3 DEF Ledger, Idle
<1>15. CASE RemoveReceipt
  <2>1. UNCHANGED <<manifest, segments>>
    BY <1>15 DEF RemoveReceipt
  <2>2. op' = Idle \/ (op'.at = "remove" /\ op.at = "remove" /\ op'.cands \subseteq op.cands)
    BY <1>15 DEF RemoveReceipt, Typed, IsOp
  <2>3. RetiredIds' = RetiredIds /\ Sealed(manifest)'
    BY <2>1 DEF RetiredIds, SegmentIds, Ledger, Sealed, IdsUpTo, Segment
  <2> QED BY <2>1, <2>2, <2>3 DEF Ledger, Idle
<1>16. CASE BreaksOff
  BY <1>1, <1>16 DEF BreaksOff, Idle
<1>17. CASE Crash
  BY <1>1, <1>17 DEF Crash, Idle
<1> HIDE DEF Goal
<1> QED
  BY <1>2, <1>3, <1>4, <1>5, <1>6, <1>7, <1>8, <1>9, <1>10, <1>11, <1>12, <1>13, <1>14, <1>15,
     <1>16, <1>17 DEF Next

-----------------------------------------------------------------------------
(* Decisions and dispatches. *)

(* Every step keeps what Working, Traced and OtherAlone say. *)
LEMMA DispatchStep ==
  ASSUME Typed, Working, Traced, OtherAlone, Ledger, Next
  PROVE  Working' /\ Traced' /\ OtherAlone'
<1> DEFINE Goal == Working' /\ Traced' /\ OtherAlone'
<1> SUFFICES Goal
  OBVIOUS
<1>0. /\ pending = None \/ pending \in [id : Ids, expired : BOOLEAN, at : 0 .. MaxStages]
      /\ mem = None \/ mem \in [id : Ids \cup {Other}, durable : BOOLEAN, expired : BOOLEAN]
      /\ receipts \in [Ids -> States] /\ runs \in [Ids -> {0, 1}] /\ IsOp
      /\ lost \subseteq Ids /\ RetiredIds \subseteq RetiredIds'
  BY LedgerStep DEF Typed, TypeOK
<1> USE <1>0, ConfirmationAssumption
    DEF Working, Traced, OtherAlone, IsOp, Idle, States, Safe, Live
<1>1. ASSUME NEW i \in Ids, StageControl(i) PROVE Goal
  <2>1. runs[i] = 0
    BY <1>1 DEF StageControl, Unused, HasReceipt
  <2>2. CASE pending = None /\ WritePending(i) /\ UNCHANGED <<receipts, op>>
    BY <1>1, <2>1, <2>2 DEF StageControl, WritePending
  <2>3. CASE pending # None /\ ExpireInTheWay("stage", i)
    BY <1>1, <2>1, <2>3 DEF StageControl, ExpireInTheWay, Archivable, Archive, Archived
  <2> QED BY <1>1, <2>2, <2>3 DEF StageControl
<1>2. CASE StageOther
  <2>1. CASE Loaded = None /\ UNCHANGED <<receipts, stagedAt, op, now>>
    BY <1>2, <2>1 DEF StageOther
  <2>2. CASE pending # None /\ ExpireInTheWay("other", None)
    BY <1>2, <2>2 DEF StageOther, ExpireInTheWay, Archivable, Archive, Archived
  <2> QED BY <1>2, <2>1, <2>2 DEF StageOther, Loaded
<1>3. CASE StageRefused
  BY <1>3 DEF StageRefused
<1>4. CASE Expire
  BY <1>4 DEF Expire
<1>5. CASE Status
  BY <1>5 DEF Status, Loaded
<1>6. ASSUME NEW i \in Ids \cup {Other}, NEW d \in {"confirm", "deny"}, NEW ok \in BOOLEAN,
             Decide(i, d, ok)
      PROVE  Goal
  <2>1. CASE DecideDurable(i, d, ok)
    BY <1>6, <2>1
    DEF Decide, DecideDurable, Archive, Archived, Loaded, Decided, HasReceipt, Verdict
  <2>2. CASE DecideMalformed
    BY <1>6, <2>2 DEF Decide, DecideMalformed
  <2>3. CASE DecideOther(i, d, ok)
    <3>1. /\ pending' = None /\ receipts' = receipts
          /\ UNCHANGED <<manifest, segments, now, runs, lost>>
      BY <1>6, <2>3, DecideOtherCases DEF Decide
    <3>2. CASE op' = op /\ mem' = mem
      BY <3>1, <3>2
    <3>3. CASE op' = Idle /\ mem' = None
      BY <3>1, <3>3
    <3>4. CASE op' = [Idle EXCEPT !.at = "run", !.id = Other] /\ mem' = None
      BY <3>1, <3>4
    <3> QED BY <2>3, <3>2, <3>3, <3>4, DecideOtherCases
  <2> QED BY <1>6, <2>1, <2>2, <2>3 DEF Decide
<1>7. CASE RemovePending
  <2>1. /\ op.at = "archived" /\ op.id \in Ids /\ pending' = None
        /\ UNCHANGED <<now, receipts, manifest, segments, lost>>
    BY <1>7, RemovePendingCases
  <2>2. CASE /\ op.next = "run" /\ op' = [Idle EXCEPT !.at = "run", !.id = op.id]
             /\ runs' = [runs EXCEPT ![op.id] = @ + 1] /\ mem' = mem
    BY <2>1, <2>2
  <2>3. CASE op' = Idle /\ runs' = runs /\ mem' = mem
    BY <2>1, <2>3
  <2>4. CASE /\ op' = Idle /\ runs' = runs
             /\ mem' = [id |-> Other, durable |-> FALSE, expired |-> FALSE]
    BY <2>1, <2>4
  <2>5. CASE /\ op.next = "stage" /\ op' = [Idle EXCEPT !.at = "stage", !.id = op.new]
             /\ op.new \in Ids /\ runs' = runs /\ mem' = mem
    BY <2>1, <2>5
  <2> QED BY <1>7, <2>2, <2>3, <2>4, <2>5, RemovePendingCases
<1>8. CASE StageWrites
  BY <1>8 DEF StageWrites, WritePending
<1>9. ASSUME NEW success \in BOOLEAN, RunReturns(success) PROVE Goal
  BY <1>9 DEF RunReturns
<1>10. ASSUME NEW retain \in Retains, NEW cutoff \in 0 .. now, Preview(retain, cutoff)
       PROVE  Goal
  BY <1>10 DEF Preview
<1>11. ASSUME NEW cutoff \in 0 .. now, Apply(cutoff) PROVE Goal
  BY <1>11 DEF Apply, Candidates, SafeRecords, HasReceipt, Indeterminate
<1>12. CASE PersistSegment
  BY <1>12 DEF PersistSegment
<1>13. CASE PersistManifest
  BY <1>13 DEF PersistManifest
<1>14. CASE RemoveReceipt
  BY <1>14 DEF RemoveReceipt, Ledger
<1>15. CASE BreaksOff
  BY <1>15 DEF BreaksOff, Forgotten
<1>16. CASE Crash
  BY <1>16 DEF Crash, Forgotten
<1> HIDE <1>0, ConfirmationAssumption
    DEF Goal, Working, Traced, OtherAlone, IsOp, Idle, States, Safe, Live
<1> QED
  BY <1>1, <1>2, <1>3, <1>4, <1>5, <1>6, <1>7, <1>8, <1>9, <1>10, <1>11, <1>12, <1>13, <1>14,
     <1>15, <1>16 DEF Next

-----------------------------------------------------------------------------
(* The theorems. *)

(* A session starts with nothing decided and the ledger it finds. *)
LEMMA InductiveInit == Init => Inductive
<1> SUFFICES ASSUME Init PROVE Inductive
  OBVIOUS
<1> USE ConfirmationAssumption DEF Init
<1>1. 0 \in 0 .. MaxSegments
  <2>1. Cardinality(Ids) \in Nat /\ SegmentCapacity \in Nat \ {0}
    BY FS_CardinalityType
  <2> QED BY <2>1, DivBound DEF MaxSegments
<1>2. Typed
  BY <1>1 DEF Typed, TypeOK, IsManifest, IsOp, IsSegments, Idle, States, Safe, NoSegment
<1>3. Working /\ Traced /\ OtherAlone
  BY DEF Working, Traced, OtherAlone, Idle, Live
<1>4. Ledger
  <2>1. manifest.count = 0 /\ manifest.head = NoSegment /\ manifest.form # "v2"
    OBVIOUS
  <2>2. 1 .. 0 = {}
    OBVIOUS
  <2>3. IdsUpTo(0) = {} /\ Cardinality(IdsUpTo(0)) = 0
    BY <2>2, FS_EmptySet DEF IdsUpTo
  <2>4. Sealed(manifest)
    BY <2>1, <2>2, <2>3 DEF Sealed, Segment
  <2> QED BY <2>1, <2>4 DEF Ledger, Idle
<1> QED BY <1>2, <1>3, <1>4 DEF Inductive

(* Stuttering keeps what the state says. *)
LEMMA InductiveStep ==
  ASSUME Inductive, [Next]_vars
  PROVE  Inductive' /\ RetiredIds \subseteq RetiredIds'
<1>1. CASE Next
  BY <1>1, TypedStep, DispatchStep, LedgerStep DEF Inductive
<1>2. CASE UNCHANGED vars
  <2>1. Typed'
    BY <1>2 DEF vars, Inductive, Typed, TypeOK, IsManifest, IsOp, IsSegments
  <2>2. RetiredIds' = RetiredIds
    BY <1>2 DEF vars, RetiredIds, SegmentIds
  <2>3. Working' /\ Traced' /\ OtherAlone'
    BY <1>2, <2>2 DEF vars, Inductive, Working, Traced, OtherAlone, Live
  <2>4. Sealed(manifest)'
    BY <1>2 DEF vars, Inductive, Ledger, Sealed, IdsUpTo, Segment
  <2>5. op.at = "persist" => Sealed(op.man)' /\ IdsUpTo(op.man.count)' = IdsUpTo(op.man.count)
    BY <1>2 DEF vars, Inductive, Ledger, Sealed, IdsUpTo, Segment
  <2>6. Ledger'
    BY <1>2, <2>2, <2>4, <2>5 DEF vars, Inductive, Ledger
  <2> QED BY <2>1, <2>2, <2>3, <2>6 DEF Inductive
<1> QED BY <1>1, <1>2

(* The invariant holds in every reachable state. *)
THEOREM InductiveInvariant == Spec => []Inductive
<1>1. Inductive /\ [Next]_vars => Inductive'
  BY InductiveStep
<1> QED BY InductiveInit, <1>1, PTL DEF Spec

(* One decision, one dispatch: whatever restarts, retries and cleanups come *)
(* in between, the command of a control runs once at most, keeps its        *)
(* receipt when its result is lost, and is never run for the decision of    *)
(* another action (handle_confirm, finalize_task_authority_confirmation).   *)
THEOREM DispatchIsSound == Spec => []DispatchSound
<1>1. Inductive => DispatchSound
  <2> SUFFICES ASSUME Inductive PROVE DispatchSound
    OBVIOUS
  <2>1. TypeOK /\ runs \in [Ids -> {0, 1}]
    BY DEF Inductive, Typed
  <2>2. DispatchedOnce
    BY <2>1 DEF DispatchedOnce
  <2>3. LostStaysVisible
    BY <2>1 DEF LostStaysVisible, Inductive, Traced, TypeOK
  <2>4. OneLivePending
    BY DEF OneLivePending, Inductive, OtherAlone, Loaded, Decided
  <2> QED BY <2>1, <2>2, <2>3, <2>4 DEF DispatchSound
<1> QED BY InductiveInvariant, <1>1, PTL

(* The ledger of retired ids passes load_confirmation_tombstones whenever   *)
(* the worker reads it, also when a persist broke off half way.             *)
THEOREM LedgerAlwaysVerifies == Spec => []LedgerVerifies
<1>1. Inductive => LedgerVerifies
  <2> SUFFICES ASSUME Inductive, manifest.form = "v2" PROVE Verifies
    BY DEF LedgerVerifies, Verifies
  <2>1. Sealed(manifest) /\ Cardinality(manifest.active) <= SegmentCapacity
    BY DEF Inductive, Ledger
  <2>2. ASSUME NEW n \in 1 .. manifest.count PROVE Chained(n)
    <3>1. Cardinality(segments[n].ids) = SegmentCapacity /\ segments[n].prev = Segment(n - 1)
      BY <2>1, <2>2 DEF Sealed
    <3>2. SegmentCapacity \in Nat \ {0}
      BY ConfirmationAssumption
    <3>3. segments[n].ids # {}
      BY <3>1, <3>2, FS_EmptySet
    <3> QED BY <3>1, <3>2, <3>3 DEF Chained
  <2>3. SegmentIds \cap manifest.active = {}
    BY <2>1 DEF Sealed, SegmentIds, IdsUpTo
  <2> QED BY <2>1, <2>2, <2>3 DEF Sealed, Verifies
<1> QED BY InductiveInvariant, <1>1, PTL

(* What DecisionFinal says of one step. *)
FinalStep ==
  /\ \A i \in Ids :
       receipts[i] # "none" =>
         \/ receipts'[i] = receipts[i]
         \/ receipts[i] = "dispatched" /\ receipts'[i] \in {"completed", "failed"}
         \/ receipts'[i] = "none" /\ i \in RetiredIds
  /\ RetiredIds \subseteq RetiredIds'

(* Receipts are written by archive_confirmation, which refuses to replace   *)
(* one, by the result of a dispatched command, and by the removal of a      *)
(* retired id's receipt.                                                    *)
LEMMA StepsAreFinal ==
  ASSUME Inductive, Next
  PROVE  FinalStep
<1> SUFFICES ASSUME NEW k \in Ids, receipts[k] # "none"
             PROVE  \/ receipts'[k] = receipts[k]
                    \/ receipts[k] = "dispatched" /\ receipts'[k] \in {"completed", "failed"}
                    \/ receipts'[k] = "none" /\ k \in RetiredIds
  BY InductiveStep DEF FinalStep
<1> DEFINE Goal == \/ receipts'[k] = receipts[k]
                   \/ receipts[k] = "dispatched" /\ receipts'[k] \in {"completed", "failed"}
                   \/ receipts'[k] = "none" /\ k \in RetiredIds
<1> SUFFICES Goal
  OBVIOUS
<1>0. /\ receipts \in [Ids -> States] /\ IsOp
      /\ pending = None \/ pending \in [id : Ids, expired : BOOLEAN, at : 0 .. MaxStages]
  BY DEF Inductive, Typed, TypeOK
<1>1. ASSUME NEW i \in Ids, StageControl(i) PROVE Goal
  BY <1>0, <1>1 DEF StageControl, ExpireInTheWay, Archivable, Archive
<1>2. CASE StageOther
  BY <1>0, <1>2 DEF StageOther, ExpireInTheWay, Archivable, Archive
<1>3. CASE StageRefused \/ Expire \/ Status \/ StageWrites
  BY <1>3 DEF StageRefused, Expire, Status, StageWrites
<1>4. ASSUME NEW i \in Ids \cup {Other}, NEW d \in {"confirm", "deny"}, NEW ok \in BOOLEAN,
             Decide(i, d, ok)
      PROVE  Goal
  <2>1. CASE DecideDurable(i, d, ok)
    <3>1. pending # None /\ receipts[pending.id] = "none"
      BY <2>1 DEF DecideDurable, Loaded, Decided, HasReceipt
    <3>2. PICK state : receipts' = [receipts EXCEPT ![pending.id] = state]
      BY <2>1 DEF DecideDurable, Archive
    <3> QED BY <1>0, <3>1, <3>2
  <2>2. CASE DecideMalformed \/ DecideOther(i, d, ok)
    BY <2>2 DEF DecideMalformed, DecideOther
  <2> QED BY <1>4, <2>1, <2>2 DEF Decide
<1>5. CASE RemovePending
  BY <1>5 DEF RemovePending
<1>6. ASSUME NEW success \in BOOLEAN, RunReturns(success) PROVE Goal
  BY <1>0, <1>6 DEF RunReturns
<1>7. ASSUME NEW retain \in Retains, NEW cutoff \in 0 .. now, Preview(retain, cutoff)
      PROVE  Goal
  BY <1>7 DEF Preview
<1>8. ASSUME NEW cutoff \in 0 .. now, Apply(cutoff) PROVE Goal
  BY <1>8 DEF Apply
<1>9. CASE PersistSegment \/ PersistManifest
  BY <1>9 DEF PersistSegment, PersistManifest
<1>10. CASE RemoveReceipt
  <2>1. op.at = "remove" /\ op.cands \subseteq RetiredIds
    BY <1>10 DEF RemoveReceipt, Inductive, Ledger
  <2>2. PICK i \in op.cands : receipts' = [receipts EXCEPT ![i] = "none"]
    BY <1>10 DEF RemoveReceipt
  <2> QED BY <1>0, <2>1, <2>2
<1>11. CASE BreaksOff \/ Crash
  BY <1>11 DEF BreaksOff, Crash
<1> HIDE DEF Goal
<1> QED
  BY <1>1, <1>2, <1>3, <1>4, <1>5, <1>6, <1>7, <1>8, <1>9, <1>10, <1>11 DEF Next

(* Decisions are final: a receipt changes only from dispatched to its       *)
(* result, it goes only when its id is retired, and an id that is retired   *)
(* stays so (archive_confirmation, persist_confirmation_tombstones).        *)
THEOREM DecisionsAreFinal == Spec => DecisionFinal
<1>1. Inductive /\ [Next]_vars => [FinalStep]_vars
  BY StepsAreFinal
<1> QED BY InductiveInvariant, <1>1, PTL DEF Spec, DecisionFinal, FinalStep
=============================================================================
