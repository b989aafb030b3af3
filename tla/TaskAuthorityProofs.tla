------------------------- MODULE TaskAuthorityProofs -------------------------
(***************************************************************************)
(* Proofs about TaskAuthority: no step of a plan is dispatched twice       *)
(* (StepsRunOnce), replacements form lineages that can be traced           *)
(* (LineagesAreSound), and a step above the ceiling ran on a confirmation  *)
(* of its own (ConfirmationsAreFresh).                                     *)
(***************************************************************************)
EXTENDS TaskAuthority, FiniteSetTheorems, SequenceTheorems, TLAPS

Names == Seq(Fresh \cup Requests)
Outcomes == {"none", "completed", "failed"}
Pages == UNION {s.targets : s \in Scenarios}
Receipt == [step : Nat, cmd : Cmds, outcome : Outcomes, moved : BOOLEAN, at : Pages,
            how : {"direct", "confirmed", "broker"}, asked : Pages \cup {None}]
Reconciliation == [req : Requests, state : {"pending", "completed"}, step : Nat]
Issuance == [target : Targets, revoked : BOOLEAN, recon : Reconciliation \cup {None}]

(* Files: each authority has its issuance and its ledger, and the receipts  *)
(* of a ledger are those of the first steps of the plan.                    *)
Filed ==
  /\ scenario \in Scenarios
  /\ issued \in [Issued -> Issuance] /\ ledger \in [Issued -> Seq(Receipt)]
  /\ \A a \in Issued : a \in Names /\ Len(a) >= 1
  /\ \A a \in Issued : \A k \in DOMAIN ledger[a] : k \in DOMAIN Plan /\ ledger[a][k].step = k

(* Memory and worker.  A step that runs is of an authority not revoked; a   *)
(* reconciliation under way is the one its predecessor records.             *)
Held ==
  /\ active \in Targets
  /\ confirmed # None => confirmed \in Issued
  /\ memo # None =>
       /\ memo.auth \in Issued /\ memo.n \in DOMAIN Plan /\ memo.cmd \in Cmds
       /\ memo.target = issued[memo.auth].target
  /\ work.at \in {"idle", "step", "broker", "replace", "complete"}
  /\ work.at \in {"step", "broker"} =>
       /\ work.auth \in Issued /\ ~issued[work.auth].revoked
       /\ work.confirmed # None => work.confirmed \in Issued
  /\ work.at \in {"replace", "complete"} =>
       /\ work = [at |-> work.at, auth |-> work.auth, req |-> work.req]
       /\ work.auth \in Issued /\ work.req \in Requests
       /\ issued[work.auth].revoked /\ issued[work.auth].recon # None
       /\ issued[work.auth].recon.req = work.req

(* Every dispatched step is one of the ledger's receipts. *)
Receipted ==
  /\ ~repeated
  /\ \A r \in ran : \E a \in Issued : \E k \in DOMAIN ledger[a] :
       r = <<a, ledger[a][k].step, ledger[a][k].cmd>>

(* A reconciled authority is revoked, at its one step without outcome. *)
Reconciled ==
  \A a \in Issued :
    issued[a].recon # None => issued[a].revoked /\ Stranded(a) = {issued[a].recon.step}

(* An authority counts as confirmed, and the policy is off, outside a       *)
(* confirmed command only where a confirmed command was abandoned.          *)
Excused(c, p) ==
  /\ c # None => AbandonedSteps(c) # {}
  /\ ~p => \E b \in Issued : AbandonedSteps(b) # {}

(* What a running command put aside is excused, and what it set is its own  *)
(* confirmation; its receipt is the last one, without an outcome.           *)
Scoped ==
  /\ drops \in Nat
  /\ work.at \notin {"step", "broker"} => Excused(confirmed, policy)
  /\ work.at \in {"step", "broker"} =>
       /\ work.n \in DOMAIN ledger[work.auth] /\ work.n = Len(ledger[work.auth])
       /\ ledger[work.auth][work.n].outcome = "none"
       /\ Excused(work.confirmed, work.policy)
       /\ \/ confirmed = work.confirmed /\ policy = work.policy
          \/ /\ work.at = "step" /\ confirmed = work.auth
             /\ ledger[work.auth][work.n].how = "confirmed"

Inductive ==
  /\ Filed /\ Held /\ Receipted
  /\ Reconciled /\ ReplacementHasCause /\ ReconciliationIdBound
  /\ Scoped /\ FreshConfirmation

-----------------------------------------------------------------------------
(* What the steps do to the files. *)

(* The receipt a dispatch adds. *)
Added(n, c, t, how, asked) ==
  [step |-> n, cmd |-> c, outcome |-> "none", moved |-> FALSE, at |-> t, how |-> how, asked |-> asked]

(* A dispatch appends the receipt of the next step. *)
LEMMA ReserveAdds ==
  ASSUME Filed, UNCHANGED <<issued, scenario>>,
         NEW a \in Issued, NEW n, NEW c \in Cmds, NEW how \in {"direct", "confirmed", "broker"},
         NEW t, NEW asked \in Pages \cup {None}, Admissible(a, n, c, t),
         Reserve(a, n, c, t, how, asked)
  PROVE  /\ Filed' /\ DOMAIN ledger' = Issued
         /\ \A x \in Issued : x # a => ledger'[x] = ledger[x]
         /\ n = Len(ledger[a]) + 1 /\ n \in Nat
         /\ DOMAIN ledger'[a] = DOMAIN ledger[a] \cup {n} /\ n \notin DOMAIN ledger[a]
         /\ \A k \in DOMAIN ledger[a] : ledger'[a][k] = ledger[a][k]
         /\ ledger'[a][n] = Added(n, c, t, how, asked)
<1> DEFINE r == Added(n, c, t, how, asked)
           s == ledger[a]
<1>1. s \in Seq(Receipt) /\ ledger \in [Issued -> Seq(Receipt)]
  BY DEF Filed
<1>2. n = Len(s) + 1 /\ Len(s) \in Nat /\ n \in Nat /\ DOMAIN s = 1 .. Len(s)
  BY <1>1 DEF Admissible
<1>3. r \in Receipt
  <2>1. t \in Pages
    BY DEF Admissible, Filed, Issuance, Targets, Pages
  <2> QED BY <1>2, <2>1 DEF Added, Receipt, Outcomes
<1>4. ledger' = [ledger EXCEPT ![a] = Append(s, r)]
  BY DEF Reserve, Added
<1>5. ledger'[a] = Append(s, r) /\ DOMAIN ledger' = Issued
      /\ \A x \in Issued : x # a => ledger'[x] = ledger[x]
  BY <1>1, <1>4
<1> HIDE DEF r
<1>6. /\ Append(s, r) \in Seq(Receipt) /\ DOMAIN Append(s, r) = 1 .. n
      /\ Append(s, r)[n] = r
      /\ \A k \in 1 .. Len(s) : Append(s, r)[k] = s[k]
  BY <1>1, <1>2, <1>3, AppendProperties
<1>7. 1 .. n = (1 .. Len(s)) \cup {n} /\ n \notin 1 .. Len(s)
  BY <1>2
<1>8. /\ DOMAIN ledger'[a] = DOMAIN ledger[a] \cup {n} /\ n \notin DOMAIN ledger[a]
      /\ \A k \in DOMAIN ledger[a] : ledger'[a][k] = ledger[a][k]
      /\ ledger'[a][n] = r
  BY <1>2, <1>5, <1>6, <1>7
<1>9. Filed'
  <2>1. Issued' = Issued /\ Plan' = Plan /\ Names' = Names /\ Issuance' = Issuance
    BY DEF Issued, Plan, Names, Issuance, Reconciliation, Requests, Targets
  <2>2. issued' \in [Issued' -> Issuance'] /\ scenario' \in Scenarios
        /\ \A x \in Issued' : x \in Names' /\ Len(x) >= 1
    BY <2>1 DEF Filed
  <2>3. ledger' \in [Issued -> Seq(Receipt)]
    BY <1>1, <1>4, <1>6
  <2>4. ASSUME NEW x \in Issued, NEW k \in DOMAIN ledger'[x]
        PROVE  k \in DOMAIN Plan /\ ledger'[x][k].step = k
    <3>1. CASE x # a
      BY <1>5, <2>4, <3>1 DEF Filed
    <3>2. CASE x = a /\ k = n
      <4>1. n \in DOMAIN Plan
        BY DEF Admissible
      <4> QED BY <1>8, <3>2, <4>1 DEF r, Added
    <3>3. CASE x = a /\ k \in DOMAIN ledger[a]
      BY <1>8, <3>3 DEF Filed
    <3> QED BY <1>8, <2>4, <3>1, <3>2, <3>3
  <2> QED BY <2>1, <2>2, <2>3, <2>4 DEF Filed
<1> QED BY <1>2, <1>5, <1>8, <1>9 DEF r

(* Finishing a step changes outcomes and nothing else of a ledger. *)
LEMMA FinishKeeps ==
  ASSUME Filed, Held, UNCHANGED scenario, NEW success \in BOOLEAN, NEW t \in Targets, Finish(success, t)
  PROVE  /\ Filed' /\ Issued' = Issued /\ DOMAIN ledger' = Issued
         /\ work.auth \in Issued
         /\ \A x \in Issued : x # work.auth => ledger'[x] = ledger[x]
         /\ \A x \in Issued : DOMAIN ledger'[x] = DOMAIN ledger[x]
         /\ \A x \in Issued : \A k \in DOMAIN ledger[x] :
              /\ ledger'[x][k].step = ledger[x][k].step
              /\ ledger'[x][k].cmd = ledger[x][k].cmd
              /\ ledger'[x][k].how = ledger[x][k].how
              /\ ledger'[x][k].at = ledger[x][k].at /\ ledger'[x][k].asked = ledger[x][k].asked
              /\ ledger'[x][k].outcome = ledger[x][k].outcome \/ (x = work.auth /\ ledger[x][k].step = work.n)
<1> DEFINE a == work.auth
           s == ledger[a]
           new(k) == [s[k] EXCEPT !.outcome = Outcome(success),
                                  !.moved = ~work.pinned /\ t # issued[a].target]
           f == [k \in DOMAIN s |-> IF s[k].step = work.n /\ s[k].cmd = work.cmd THEN new(k) ELSE s[k]]
<1>1. a \in Issued /\ s \in Seq(Receipt) /\ ledger \in [Issued -> Seq(Receipt)]
  BY DEF Finish, Held, Filed
<1>2. ledger' = [ledger EXCEPT ![a] = f] /\ issued' = issued
  BY DEF Finish
<1>3. Len(s) \in Nat /\ DOMAIN s = 1 .. Len(s) /\ \A k \in 1 .. Len(s) : s[k] \in Receipt
  BY <1>1
<1>4. ASSUME NEW k \in 1 .. Len(s)
      PROVE  /\ f[k] \in Receipt /\ f[k].step = s[k].step /\ f[k].cmd = s[k].cmd
             /\ f[k].how = s[k].how /\ f[k].at = s[k].at /\ f[k].asked = s[k].asked
             /\ f[k].outcome = s[k].outcome \/ s[k].step = work.n
  <2>1. /\ new(k) \in Receipt /\ new(k).step = s[k].step /\ new(k).cmd = s[k].cmd
        /\ new(k).how = s[k].how /\ new(k).at = s[k].at /\ new(k).asked = s[k].asked
    <3>1. s[k] \in Receipt
      BY <1>3, <1>4
    <3>2. Outcome(success) \in Outcomes
      BY DEF Outcome, Outcomes
    <3>3. (~work.pinned /\ t # issued[a].target) \in BOOLEAN
      OBVIOUS
    <3> HIDE DEF s, a
    <3> QED BY <3>1, <3>2, <3>3 DEF Receipt
  <2> HIDE DEF new
  <2> QED BY <1>3, <1>4, <2>1
<1> HIDE DEF new
<1>5. f \in Seq(Receipt) /\ DOMAIN f = DOMAIN s
  <2>1. f \in [1 .. Len(s) -> Receipt]
    BY <1>3, <1>4
  <2> HIDE DEF f
  <2> QED BY <1>3, <2>1
<1> HIDE DEF f
<1>6. /\ DOMAIN ledger' = Issued /\ ledger'[a] = f
      /\ \A x \in Issued : x # a => ledger'[x] = ledger[x]
  BY <1>1, <1>2
<1>7. Issued' = Issued /\ Plan' = Plan /\ Names' = Names /\ Issuance' = Issuance
  BY <1>2 DEF Issued, Plan, Names, Issuance, Reconciliation, Requests, Targets
<1>8. \A x \in Issued : DOMAIN ledger'[x] = DOMAIN ledger[x]
  BY <1>5, <1>6
<1>9. \A x \in Issued : \A k \in DOMAIN ledger[x] :
        /\ ledger'[x][k].step = ledger[x][k].step
        /\ ledger'[x][k].cmd = ledger[x][k].cmd
        /\ ledger'[x][k].how = ledger[x][k].how
        /\ ledger'[x][k].at = ledger[x][k].at /\ ledger'[x][k].asked = ledger[x][k].asked
        /\ ledger'[x][k].outcome = ledger[x][k].outcome \/ (x = work.auth /\ ledger[x][k].step = work.n)
  BY <1>3, <1>4, <1>6
<1>10. ledger' \in [Issued -> Seq(Receipt)]
  BY <1>1, <1>2, <1>5
<1>11. Filed'
  BY <1>2, <1>7, <1>8, <1>9, <1>10 DEF Filed
<1> QED BY <1>1, <1>6, <1>7, <1>8, <1>9, <1>11

(* A new file beside the others. *)
LEMMA PutAdds ==
  ASSUME Filed, UNCHANGED scenario, NEW a \in Names, Len(a) >= 1, a \notin Issued,
         NEW t \in Targets, issued' = Put(issued, a, Record(t)), ledger' = Put(ledger, a, <<>>)
  PROVE  /\ Filed' /\ Issued' = Issued \cup {a}
         /\ \A x \in Issued : issued'[x] = issued[x] /\ ledger'[x] = ledger[x]
         /\ issued'[a] = Record(t) /\ DOMAIN ledger'[a] = {}
<1>1. issued \in [Issued -> Issuance] /\ ledger \in [Issued -> Seq(Receipt)]
  BY DEF Filed
<1>2. Record(t) \in Issuance /\ <<>> \in Seq(Receipt)
  BY DEF Record, Issuance
<1>3. /\ issued' = [x \in Issued \cup {a} |-> IF x = a THEN Record(t) ELSE issued[x]]
      /\ ledger' = [x \in Issued \cup {a} |-> IF x = a THEN <<>> ELSE ledger[x]]
  BY <1>1 DEF Put, Issued
<1>4. Issued' = Issued \cup {a}
  BY <1>3 DEF Issued
<1> HIDE DEF Record
<1>5. /\ issued' \in [Issued \cup {a} -> Issuance] /\ ledger' \in [Issued \cup {a} -> Seq(Receipt)]
      /\ \A x \in Issued : issued'[x] = issued[x] /\ ledger'[x] = ledger[x]
      /\ issued'[a] = Record(t) /\ ledger'[a] = <<>>
  BY <1>1, <1>2, <1>3
<1>6. DOMAIN ledger'[a] = {}
  BY <1>5
<1>7. Plan' = Plan /\ Names' = Names /\ Issuance' = Issuance
  BY DEF Plan, Names, Issuance, Reconciliation, Requests, Targets
<1>8. Filed'
  BY <1>4, <1>5, <1>6, <1>7 DEF Filed
<1> QED BY <1>4, <1>5, <1>6, <1>8

(* One issuance is written again. *)
LEMMA IssuanceChanges ==
  ASSUME Filed, UNCHANGED <<scenario, ledger>>, NEW a \in Issued, NEW v \in Issuance,
         issued' = [issued EXCEPT ![a] = v]
  PROVE  /\ Filed' /\ Issued' = Issued /\ issued'[a] = v
         /\ \A x \in Issued : x # a => issued'[x] = issued[x]
         /\ \A x \in Issued : Stranded(x)' = Stranded(x)
<1>1. issued \in [Issued -> Issuance]
  BY DEF Filed
<1>2. Issued' = Issued
  BY <1>1 DEF Issued
<1>3. /\ issued' \in [Issued -> Issuance] /\ issued'[a] = v
      /\ \A x \in Issued : x # a => issued'[x] = issued[x]
  BY <1>1
<1>4. Plan' = Plan /\ Names' = Names /\ Issuance' = Issuance
  BY DEF Plan, Names, Issuance, Reconciliation, Requests, Targets
<1>5. Filed'
  BY <1>2, <1>3, <1>4 DEF Filed
<1> QED BY <1>2, <1>3, <1>5 DEF Stranded

(* What is said of the files holds as long as nothing is written. *)
Files ==
  /\ Filed /\ Receipted /\ Reconciled /\ ReplacementHasCause /\ ReconciliationIdBound
LEMMA FilesStay ==
  ASSUME Files, UNCHANGED <<scenario, issued, ledger, ran, repeated>>
  PROVE  Files' /\ Issued' = Issued
<1>1. Issued' = Issued /\ Plan' = Plan /\ Names' = Names /\ Issuance' = Issuance
  BY DEF Issued, Plan, Names, Issuance, Reconciliation, Requests, Targets
<1>2. Filed' /\ Receipted'
  BY <1>1 DEF Files, Filed, Receipted
<1>3. Reconciled' /\ ReplacementHasCause' /\ ReconciliationIdBound'
  BY <1>1
  DEF Files, Reconciled, Stranded, ReplacementHasCause, ReconciliationIdBound, Predecessor
<1> QED BY <1>1, <1>2, <1>3 DEF Files

(* A dispatch: the step is new, as no receipt has its number or its command;*)
(* the authority is not revoked, so it is none that was reconciled.         *)
LEMMA ReserveKeeps ==
  ASSUME Files, UNCHANGED <<issued, scenario>>,
         NEW a \in Issued, NEW n, NEW c \in Cmds, NEW how \in {"direct", "confirmed", "broker"},
         NEW t, NEW asked \in Pages \cup {None}, Admissible(a, n, c, t),
         Reserve(a, n, c, t, how, asked)
  PROVE  Files'
<1>1. /\ Filed' /\ DOMAIN ledger' = Issued
      /\ \A x \in Issued : x # a => ledger'[x] = ledger[x]
      /\ n = Len(ledger[a]) + 1 /\ n \in Nat
      /\ DOMAIN ledger'[a] = DOMAIN ledger[a] \cup {n} /\ n \notin DOMAIN ledger[a]
      /\ \A k \in DOMAIN ledger[a] : ledger'[a][k] = ledger[a][k]
      /\ ledger'[a][n] = Added(n, c, t, how, asked)
  BY ReserveAdds DEF Files
<1>2. Issued' = Issued /\ Plan' = Plan
  BY DEF Issued, Plan
<1>3. /\ Added(n, c, t, how, asked).step = n /\ Added(n, c, t, how, asked).cmd = c
      /\ Added(n, c, t, how, asked).how = how
  BY DEF Added
<1> HIDE DEF Added
<1>4. \A x \in Issued : \A k \in DOMAIN ledger[x] :
        k \in DOMAIN ledger'[x] /\ ledger'[x][k] = ledger[x][k]
  BY <1>1
<1>5. Receipted'
  <2>1. ~repeated'
    <3> SUFFICES ASSUME NEW r \in ran, r[1] = a, r[2] = n \/ r[3] = c PROVE FALSE
      BY DEF Reserve, Files, Receipted
    <3>0. PICK x \in Issued : \E k \in DOMAIN ledger[x] :
            r = <<x, ledger[x][k].step, ledger[x][k].cmd>>
      BY DEF Files, Receipted
    <3>1. PICK k \in DOMAIN ledger[x] : r = <<x, ledger[x][k].step, ledger[x][k].cmd>>
      BY <3>0
    <3>2. x = a /\ ledger[a][k].step = r[2] /\ ledger[a][k].cmd = r[3]
      BY <3>1
    <3>3. ledger[a][k].step = k
      BY <3>1, <3>2 DEF Files, Filed
    <3>4. ledger[a][k].cmd # c
      BY <3>1, <3>2 DEF Admissible
    <3> QED BY <1>1, <3>1, <3>2, <3>3, <3>4
  <2>2. ASSUME NEW r \in ran'
        PROVE  \E x \in Issued : \E k \in DOMAIN ledger'[x] :
                 r = <<x, ledger'[x][k].step, ledger'[x][k].cmd>>
    <3>1. CASE r \in ran
      <4>0. PICK x \in Issued : \E k \in DOMAIN ledger[x] :
              r = <<x, ledger[x][k].step, ledger[x][k].cmd>>
        BY <3>1 DEF Files, Receipted
      <4>1. PICK k \in DOMAIN ledger[x] : r = <<x, ledger[x][k].step, ledger[x][k].cmd>>
        BY <4>0
      <4> QED BY <1>4, <4>1
    <3>2. CASE r = <<a, n, c>>
      BY <1>1, <1>3, <3>2
    <3> QED BY <2>2, <3>1, <3>2 DEF Reserve
  <2> QED BY <1>2, <2>1, <2>2 DEF Receipted
<1>6. Reconciled'
  <2> SUFFICES ASSUME NEW x \in Issued, issued[x].recon # None
               PROVE  issued[x].revoked /\ Stranded(x)' = {issued[x].recon.step}
    BY <1>2 DEF Reconciled
  <2>1. issued[x].revoked /\ Stranded(x) = {issued[x].recon.step}
    BY DEF Files, Reconciled
  <2>2. x # a
    BY <2>1 DEF Admissible
  <2>3. Stranded(x)' = Stranded(x)
    BY <1>1, <2>2 DEF Stranded
  <2> QED BY <2>1, <2>3
<1>7. ReplacementHasCause' /\ ReconciliationIdBound'
  BY <1>2 DEF Files, ReplacementHasCause, ReconciliationIdBound, Predecessor
<1> QED BY <1>1, <1>5, <1>6, <1>7 DEF Files

(* A step that ends: its authority is not revoked. *)
LEMMA FinishKeepsFiles ==
  ASSUME Files, Held, UNCHANGED scenario, NEW success \in BOOLEAN, NEW t \in Targets, Finish(success, t)
  PROVE  Files' /\ Issued' = Issued
<1>1. /\ Filed' /\ Issued' = Issued /\ DOMAIN ledger' = Issued
      /\ work.auth \in Issued
      /\ \A x \in Issued : x # work.auth => ledger'[x] = ledger[x]
      /\ \A x \in Issued : DOMAIN ledger'[x] = DOMAIN ledger[x]
      /\ \A x \in Issued : \A k \in DOMAIN ledger[x] :
           /\ ledger'[x][k].step = ledger[x][k].step
           /\ ledger'[x][k].cmd = ledger[x][k].cmd
           /\ ledger'[x][k].how = ledger[x][k].how
  BY FinishKeeps DEF Files
<1>2. UNCHANGED <<issued, ran, repeated, drops>> /\ ~issued[work.auth].revoked
  BY DEF Finish, Held
<1>3. Receipted'
  BY <1>1, <1>2 DEF Files, Receipted
<1>4. Reconciled'
  <2> SUFFICES ASSUME NEW x \in Issued, issued[x].recon # None
               PROVE  issued[x].revoked /\ Stranded(x)' = {issued[x].recon.step}
    BY <1>1, <1>2 DEF Reconciled
  <2>1. issued[x].revoked /\ Stranded(x) = {issued[x].recon.step}
    BY DEF Files, Reconciled
  <2>2. x # work.auth
    BY <1>2, <2>1
  <2>3. Stranded(x)' = Stranded(x)
    BY <1>1, <2>2 DEF Stranded
  <2> QED BY <2>1, <2>3
<1>5. ReplacementHasCause' /\ ReconciliationIdBound'
  BY <1>1, <1>2 DEF Files, ReplacementHasCause, ReconciliationIdBound, Predecessor
<1> QED BY <1>1, <1>3, <1>4, <1>5 DEF Files

(* A request and a predecessor make a name, and are told from it. *)
LEMMA NameParts ==
  ASSUME NEW a \in Names, Len(a) >= 1, NEW q \in Requests
  PROVE  /\ Append(a, q) \in Names /\ Len(Append(a, q)) > 1
         /\ Predecessor(Append(a, q)) = a /\ Append(a, q)[Len(Append(a, q))] = q
<1> DEFINE S == Fresh \cup Requests
           x == Append(a, q)
<1>1. a \in Seq(S) /\ q \in S /\ Len(a) \in Nat
  BY DEF Names
<1>2. x \in Seq(S) /\ Len(x) = Len(a) + 1 /\ x[Len(a) + 1] = q
      /\ \A k \in 1 .. Len(a) : x[k] = a[k]
  BY <1>1, AppendProperties
<1> HIDE DEF x, S
<1>3. SubSeq(x, 1, Len(a)) \in Seq(S) /\ Len(SubSeq(x, 1, Len(a))) = Len(a)
      /\ \A k \in 1 .. Len(a) : SubSeq(x, 1, Len(a))[k] = x[k]
  BY <1>1, <1>2
<1>4. SubSeq(x, 1, Len(a)) = a
  BY <1>1, <1>2, <1>3, SeqEqual
<1>5. Len(x) - 1 = Len(a)
  BY <1>1, <1>2
<1>6. Predecessor(x) = a
  BY <1>4, <1>5 DEF Predecessor
<1> QED BY <1>1, <1>2, <1>6 DEF Names, S, x

(* A new authority has no reconciliation, and is a fresh one or the         *)
(* replacement its predecessor's reconciliation names.                      *)
LEMMA PutKeepsFiles ==
  ASSUME Files, UNCHANGED <<scenario, ran, repeated>>,
         NEW a \in Names, Len(a) >= 1, a \notin Issued,
         NEW t \in Targets, issued' = Put(issued, a, Record(t)), ledger' = Put(ledger, a, <<>>),
         \/ Len(a) = 1
         \/ /\ Predecessor(a) \in Issued /\ issued[Predecessor(a)].revoked
            /\ issued[Predecessor(a)].recon # None
            /\ issued[Predecessor(a)].recon.req = a[Len(a)]
  PROVE  /\ Files' /\ Issued' = Issued \cup {a}
         /\ \A x \in Issued : issued'[x] = issued[x] /\ ledger'[x] = ledger[x]
         /\ DOMAIN ledger'[a] = {}
<1>1. /\ Filed' /\ Issued' = Issued \cup {a}
      /\ \A x \in Issued : issued'[x] = issued[x] /\ ledger'[x] = ledger[x]
      /\ issued'[a] = Record(t) /\ DOMAIN ledger'[a] = {}
  BY PutAdds DEF Files
<1>2. Record(t).recon = None
  BY DEF Record
<1> HIDE DEF Record, Put
<1>3. Receipted'
  BY <1>1 DEF Files, Receipted
<1>4. Reconciled'
  BY <1>1, <1>2 DEF Files, Reconciled, Stranded
<1>5. ReplacementHasCause'
  <2> SUFFICES ASSUME NEW x \in Issued \cup {a}, Len(x) > 1
               PROVE  /\ Predecessor(x) \in Issued' /\ issued'[Predecessor(x)].revoked
                      /\ issued'[Predecessor(x)].recon # None
                      /\ issued'[Predecessor(x)].recon.req = x[Len(x)]
    BY <1>1 DEF ReplacementHasCause, Predecessor
  <2>1. /\ Predecessor(x) \in Issued /\ issued[Predecessor(x)].revoked
        /\ issued[Predecessor(x)].recon # None
        /\ issued[Predecessor(x)].recon.req = x[Len(x)]
    <3>1. CASE x \in Issued
      BY <3>1 DEF Files, ReplacementHasCause
    <3>2. CASE x = a
      BY <3>2
    <3> QED BY <3>1, <3>2
  <2> QED BY <1>1, <2>1
<1>6. ReconciliationIdBound'
  BY <1>1, <1>2 DEF Files, ReconciliationIdBound
<1> QED BY <1>1, <1>3, <1>4, <1>5, <1>6 DEF Files

(* A revocation without a reconciliation. *)
LEMMA RevokeKeepsFiles ==
  ASSUME Files, UNCHANGED scenario, NEW a \in Issued, Revoke(a)
  PROVE  Files' /\ Issued' = Issued /\ \A x \in Issued : issued'[x].target = issued[x].target
<1> DEFINE v == [issued[a] EXCEPT !.revoked = TRUE]
<1>1. issued[a] \in Issuance
  BY DEF Files, Filed
<1>2. v \in Issuance /\ v.revoked = TRUE /\ v.recon = issued[a].recon /\ v.target = issued[a].target
  BY <1>1 DEF Issuance
<1>3. issued' = [issued EXCEPT ![a] = v] /\ UNCHANGED <<ledger, ran, repeated, drops>>
  BY DEF Revoke
<1> HIDE DEF v
<1>4. /\ Filed' /\ Issued' = Issued /\ issued'[a] = v
      /\ \A x \in Issued : x # a => issued'[x] = issued[x]
      /\ \A x \in Issued : Stranded(x)' = Stranded(x)
  BY <1>2, <1>3, IssuanceChanges DEF Files
<1>5. \A x \in Issued : issued'[x].recon = issued[x].recon /\ (issued[x].revoked => issued'[x].revoked)
  BY <1>2, <1>4
<1>6. Receipted'
  BY <1>3, <1>4 DEF Files, Receipted
<1>7. Reconciled' /\ ReconciliationIdBound'
  BY <1>4, <1>5 DEF Files, Reconciled, ReconciliationIdBound
<1>8. ReplacementHasCause'
  BY <1>4, <1>5 DEF Files, ReplacementHasCause, Predecessor
<1> QED BY <1>2, <1>4, <1>6, <1>7, <1>8 DEF Files

(* A reconciliation begins: the one stranded step is the one it records,    *)
(* its id is not bound elsewhere, and no replacement exists yet.            *)
LEMMA RevokingKeepsFiles ==
  ASSUME Files, UNCHANGED scenario, NEW a \in Issued, NEW q \in Requests, NEW pinned,
         ReconcileRevokes(a, q, pinned)
  PROVE  /\ Files' /\ Issued' = Issued
         /\ issued'[a].revoked /\ issued'[a].recon # None /\ issued'[a].recon.req = q
         /\ \A x \in Issued : issued'[x].target = issued[x].target
<1> DEFINE step == CHOOSE k \in Stranded(a) : TRUE
           rc == [req |-> q, state |-> "pending", step |-> step]
           v == [issued[a] EXCEPT !.revoked = TRUE, !.recon = rc]
<1>1. issued[a] \in Issuance /\ ledger[a] \in Seq(Receipt)
  BY DEF Files, Filed
<1>2. step \in Nat /\ Stranded(a) = {step}
  <2>1. Stranded(a) \subseteq 1 .. Len(ledger[a]) /\ Len(ledger[a]) \in Nat
    BY <1>1 DEF Stranded
  <2>2. IsFiniteSet(Stranded(a))
    <3>1. IsFiniteSet(1 .. Len(ledger[a]))
      BY <2>1, FS_Interval
    <3> QED BY <2>1, <3>1, FS_Subset
  <2>3. Cardinality(Stranded(a)) = 1
    BY DEF ReconcileRevokes, Reconcilable, OneStranded
  <2>4. \E k : Stranded(a) = {k}
    BY <2>2, <2>3, FS_Singleton
  <2>5. Stranded(a) = {step}
    BY <2>4, Zenon
  <2>6. step \in Stranded(a)
    BY <2>5
  <2> HIDE DEF step
  <2> QED BY <2>1, <2>5, <2>6
<1> HIDE DEF step
<1>3. /\ rc \in Reconciliation /\ rc # None /\ rc.req = q /\ rc.step = step
  <2>1. rc \in Reconciliation
    BY <1>2 DEF Reconciliation
  <2>2. None \notin Reconciliation
    BY AuthorityAssumption DEF Reconciliation, Requests, Files, Filed
  <2> QED BY <2>1, <2>2
<1> HIDE DEF rc
<1>4. v \in Issuance /\ v.revoked = TRUE /\ v.recon = rc /\ v.target = issued[a].target
  BY <1>1, <1>3 DEF Issuance
<1>5. issued' = [issued EXCEPT ![a] = v] /\ UNCHANGED <<ledger, ran, repeated, drops>>
  BY DEF ReconcileRevokes, Revoking, rc, step
<1> HIDE DEF v
<1>6. /\ Filed' /\ Issued' = Issued /\ issued'[a] = v
      /\ \A x \in Issued : x # a => issued'[x] = issued[x]
      /\ \A x \in Issued : Stranded(x)' = Stranded(x)
  BY <1>4, <1>5, IssuanceChanges DEF Files
<1>7. Receipted'
  BY <1>5, <1>6 DEF Files, Receipted
<1>8. Reconciled'
  BY <1>2, <1>3, <1>4, <1>6 DEF Files, Reconciled
<1>9. ReplacementHasCause'
  <2> SUFFICES ASSUME NEW x \in Issued, Len(x) > 1
               PROVE  /\ Predecessor(x) \in Issued /\ issued'[Predecessor(x)].revoked
                      /\ issued'[Predecessor(x)].recon # None
                      /\ issued'[Predecessor(x)].recon.req = x[Len(x)]
    BY <1>6 DEF ReplacementHasCause, Predecessor
  <2>1. /\ Predecessor(x) \in Issued /\ issued[Predecessor(x)].revoked
        /\ issued[Predecessor(x)].recon # None
        /\ issued[Predecessor(x)].recon.req = x[Len(x)]
    BY DEF Files, ReplacementHasCause
  <2>2. Predecessor(x) # a
    BY <2>1 DEF ReconcileRevokes
  <2> QED BY <1>6, <2>1, <2>2
<1>10. ReconciliationIdBound'
  <2>1. \A x \in Issued : x # a /\ issued[x].recon # None => issued[x].recon.req.rid # q.rid
    BY DEF ReconcileRevokes, Reconcilable, BoundElsewhere
  <2>2. issued'[a].recon = rc
    BY <1>4, <1>6
  <2> SUFFICES ASSUME NEW x \in Issued, NEW y \in Issued, issued'[x].recon # None, issued'[y].recon # None,
                      issued'[x].recon.req.rid = issued'[y].recon.req.rid
               PROVE  x = y
    BY <1>6 DEF ReconciliationIdBound
  <2>3. CASE x # a /\ y # a
    BY <1>6, <2>3 DEF Files, ReconciliationIdBound
  <2>4. CASE x = a /\ y # a
    BY <1>3, <1>6, <2>1, <2>2, <2>4
  <2>5. CASE x # a /\ y = a
    BY <1>3, <1>6, <2>1, <2>2, <2>5
  <2> QED BY <2>3, <2>4, <2>5
<1> QED BY <1>3, <1>4, <1>6, <1>7, <1>8, <1>9, <1>10 DEF Files

(* A reconciliation ends: only its state changes. *)
LEMMA CompletingKeepsFiles ==
  ASSUME Files, Held, UNCHANGED scenario, ReconcileCompletes
  PROVE  Files' /\ Issued' = Issued /\ \A x \in Issued : issued'[x].target = issued[x].target
<1> DEFINE a == work.auth
           rc == [issued[a].recon EXCEPT !.state = "completed"]
           v == [issued[a] EXCEPT !.recon = rc]
<1>1. a \in Issued /\ issued[a].recon # None
  BY DEF ReconcileCompletes, Held
<1>2. issued[a] \in Issuance /\ issued[a].recon \in Reconciliation
  BY <1>1 DEF Files, Filed, Issuance
<1>3. /\ rc \in Reconciliation /\ rc # None
      /\ rc.req = issued[a].recon.req /\ rc.step = issued[a].recon.step
  <2>1. rc \in Reconciliation /\ rc.req = issued[a].recon.req /\ rc.step = issued[a].recon.step
    BY <1>2 DEF Reconciliation
  <2>2. None \notin Reconciliation
    BY AuthorityAssumption DEF Reconciliation, Requests, Files, Filed
  <2> QED BY <2>1, <2>2
<1>4. /\ v \in Issuance /\ v.revoked = issued[a].revoked /\ v.recon = rc
      /\ v.target = issued[a].target
  <2> HIDE DEF rc
  <2> QED BY <1>2, <1>3 DEF Issuance
<1>5. issued' = [issued EXCEPT ![a] = v] /\ UNCHANGED <<ledger, ran, repeated, drops>>
  BY DEF ReconcileCompletes
<1> HIDE DEF v, rc, a
<1>6. /\ Filed' /\ Issued' = Issued /\ issued'[a] = v
      /\ \A x \in Issued : x # a => issued'[x] = issued[x]
      /\ \A x \in Issued : Stranded(x)' = Stranded(x)
  BY <1>1, <1>4, <1>5, IssuanceChanges DEF Files
<1>7. \A x \in Issued :
        /\ issued'[x].revoked = issued[x].revoked
        /\ issued'[x].recon = None <=> issued[x].recon = None
        /\ issued[x].recon # None =>
             /\ issued'[x].recon.req = issued[x].recon.req
             /\ issued'[x].recon.step = issued[x].recon.step
  BY <1>1, <1>3, <1>4, <1>6
<1>8. Receipted'
  BY <1>5, <1>6 DEF Files, Receipted
<1>9. Reconciled' /\ ReconciliationIdBound'
  BY <1>6, <1>7 DEF Files, Reconciled, ReconciliationIdBound
<1>10. ReplacementHasCause'
  BY <1>6, <1>7 DEF Files, ReplacementHasCause, Predecessor
<1> QED BY <1>4, <1>6, <1>8, <1>9, <1>10 DEF Files

-----------------------------------------------------------------------------
(* Every step. *)

(* Nothing is an authority. *)
LEMMA NoneNotIssued ==
  ASSUME Filed PROVE None \notin Issued
<1>1. Fresh \cup Requests \subseteq Fresh \cup UNION {s.requests : s \in Scenarios}
  BY DEF Filed, Requests
<1>2. \A a \in Issued : a \in Seq(Fresh \cup UNION {s.requests : s \in Scenarios})
  BY <1>1, SeqMonotonic DEF Filed, Names
<1> QED BY <1>2, AuthorityAssumption

(* What runs, what was abandoned and what is excused, in the next state. *)
RunsNext(a, k) == work'.at \in {"step", "broker"} /\ work'.auth = a /\ work'.n = k
AbandonedNext(a) ==
  {k \in DOMAIN ledger'[a] :
     /\ drops' > 0 /\ ~RunsNext(a, k)
     /\ ledger'[a][k].how = "confirmed" /\ ledger'[a][k].outcome = "none"}
ExcusedNext(c, p) ==
  /\ c # None => AbandonedNext(c) # {}
  /\ ~p => \E b \in Issued' : AbandonedNext(b) # {}

(* A step keeps the receipts, but for the outcome of the one that runs, and *)
(* starts none of them again.                                               *)
Kept(x, k) ==
  /\ k \in DOMAIN ledger'[x]
  /\ ledger'[x][k].how = ledger[x][k].how /\ ledger'[x][k].at = ledger[x][k].at
  /\ ledger'[x][k].asked = ledger[x][k].asked
  /\ ledger'[x][k].outcome = ledger[x][k].outcome \/ Runs(x, k)
  /\ RunsNext(x, k) => Runs(x, k)
Keeps ==
  /\ Filed /\ UNCHANGED scenario /\ Issued \subseteq Issued'
  /\ drops \in Nat /\ drops' \in Nat /\ drops <= drops'
  /\ \A x \in Issued : issued'[x].target = issued[x].target
  /\ \A x \in Issued : \A k \in DOMAIN ledger[x] : Kept(x, k)

(* An abandoned command stays one. *)
LEMMA AbandonedStay ==
  ASSUME Keeps
  PROVE  /\ \A x \in Issued : AbandonedSteps(x) \subseteq AbandonedNext(x)
         /\ \A c, p : Excused(c, p) /\ (c # None => c \in Issued) => ExcusedNext(c, p)
<1>1. ASSUME NEW x \in Issued, NEW k \in AbandonedSteps(x)
      PROVE  k \in AbandonedNext(x)
  <2>1. /\ k \in DOMAIN ledger[x] /\ drops > 0 /\ ~Runs(x, k)
        /\ ledger[x][k].how = "confirmed" /\ ledger[x][k].outcome = "none"
    BY <1>1 DEF AbandonedSteps
  <2>2. Kept(x, k) /\ drops' > 0
    BY <2>1 DEF Keeps
  <2> QED BY <2>1, <2>2 DEF Kept, AbandonedNext
<1>2. ASSUME NEW c, NEW p, Excused(c, p), c # None => c \in Issued
      PROVE  ExcusedNext(c, p)
  <2>1. Issued \subseteq Issued'
    BY DEF Keeps
  <2> QED BY <1>1, <1>2, <2>1 DEF Excused, ExcusedNext
<1> QED BY <1>1, <1>2

(* A receipt's confirmation, in the next state. *)
FreshNext(x, k) ==
  /\ Plan[k] \notin Allowed =>
       ledger'[x][k].how = "confirmed" \/ \E m \in AbandonedNext(x) : m < k
  /\ Plan[k] \in Policed =>
       ledger'[x][k].how # "direct" \/ \E b \in Issued' : AbandonedNext(b) # {}
  /\ ledger'[x][k].at = issued'[x].target
  /\ ledger'[x][k].how = "confirmed" => ledger'[x][k].asked = ledger'[x][k].at

(* The receipts of the next state are old ones, or are confirmed as they    *)
(* should be.                                                               *)
LEMMA FreshStays ==
  ASSUME Keeps, FreshConfirmation,
         \A x \in Issued' : \A k \in DOMAIN ledger'[x] :
           (x \in Issued /\ k \in DOMAIN ledger[x]) \/ FreshNext(x, k)
  PROVE  FreshConfirmation'
<1>1. ASSUME NEW x \in Issued, NEW k \in DOMAIN ledger[x]
      PROVE  FreshNext(x, k)
  <2>1. /\ Plan[k] \notin Allowed =>
             ledger[x][k].how = "confirmed" \/ \E m \in AbandonedSteps(x) : m < k
        /\ Plan[k] \in Policed =>
             ledger[x][k].how # "direct" \/ \E b \in Issued : AbandonedSteps(b) # {}
        /\ ledger[x][k].at = issued[x].target
        /\ ledger[x][k].how = "confirmed" => ledger[x][k].asked = ledger[x][k].at
    BY <1>1 DEF FreshConfirmation, AboveCeiling
  <2>2. Kept(x, k) /\ issued'[x].target = issued[x].target /\ Issued \subseteq Issued'
    BY <1>1 DEF Keeps
  <2>3. \A y \in Issued : AbandonedSteps(y) \subseteq AbandonedNext(y)
    BY AbandonedStay
  <2> QED BY <2>1, <2>2, <2>3 DEF Kept, FreshNext
<1>2. \A x \in Issued' : \A k \in DOMAIN ledger'[x] : FreshNext(x, k)
  BY <1>1
<1>3. Plan' = Plan /\ Allowed' = Allowed /\ Policed' = Policed
  BY DEF Keeps, Plan, Allowed, Policed
<1>4. \A x \in Issued' : \A k \in DOMAIN ledger'[x] :
        /\ Plan'[k] \notin Allowed' =>
             ledger'[x][k].how = "confirmed" \/ \E m \in AbandonedNext(x) : m < k
        /\ Plan'[k] \in Policed' =>
             ledger'[x][k].how # "direct" \/ \E b \in Issued' : AbandonedNext(b) # {}
        /\ ledger'[x][k].at = issued'[x].target
        /\ ledger'[x][k].how = "confirmed" => ledger'[x][k].asked = ledger'[x][k].at
  BY <1>2, <1>3 DEF FreshNext
<1> QED BY <1>4 DEF FreshConfirmation, AboveCeiling, AbandonedSteps, AbandonedNext, Runs, RunsNext

(* Afterwards no command runs. *)
LEMMA ScopedAtRest ==
  ASSUME Keeps, work'.at \notin {"step", "broker"}, ExcusedNext(confirmed', policy')
  PROVE  Scoped'
<1>1. Excused(confirmed, policy)'
  BY DEF Excused, ExcusedNext, AbandonedSteps, AbandonedNext, Runs, RunsNext
<1> QED BY <1>1 DEF Scoped, Keeps

(* Old receipts only, and no command runs afterwards. *)
LEMMA RestStep ==
  ASSUME Inductive, Keeps, Files', Held', work'.at \notin {"step", "broker"},
         ExcusedNext(confirmed', policy'),
         \A x \in Issued' : \A k \in DOMAIN ledger'[x] : x \in Issued /\ k \in DOMAIN ledger[x]
  PROVE  Inductive'
BY ScopedAtRest, FreshStays DEF Inductive, Files

(* A dispatch, and the memory it leaves. *)
LEMMA DispatchKeeps ==
  ASSUME Inductive, UNCHANGED <<issued, scenario, active, drops>>, memo' \in {memo, None},
         NEW a \in Issued, NEW n, NEW c \in Cmds, NEW how \in {"direct", "confirmed", "broker"},
         NEW t, NEW asked \in Pages \cup {None}, Admissible(a, n, c, t),
         Reserve(a, n, c, t, how, asked), how = "confirmed" => asked = t,
         AboveCeiling(n) => how = "confirmed" \/ confirmed = a,
         Plan[n] \in Policed => how # "direct" \/ ~policy,
         work.at = "idle", NEW at \in {"step", "broker"}, NEW pinned,
         work' = Running(at, a, n, c, pinned),
         \/ confirmed' = confirmed /\ policy' = policy
         \/ at = "step" /\ how = "confirmed" /\ confirmed' = a
  PROVE  Inductive'
<1>1. Files'
  BY ReserveKeeps DEF Inductive, Files
<1>2. Issued' = Issued /\ Plan' = Plan /\ Targets' = Targets
  BY DEF Issued, Plan, Targets
<1>3. /\ work'.at = at /\ work'.auth = a /\ work'.n = n
      /\ work'.confirmed = confirmed /\ work'.policy = policy
  BY DEF Running
<1>4. ~issued[a].revoked /\ t = issued[a].target
  BY DEF Admissible
<1>5. Held'
  BY <1>2, <1>3, <1>4 DEF Inductive, Held
<1>6. /\ Filed' /\ DOMAIN ledger' = Issued
      /\ \A x \in Issued : x # a => ledger'[x] = ledger[x]
      /\ n = Len(ledger[a]) + 1 /\ n \in Nat
      /\ DOMAIN ledger'[a] = DOMAIN ledger[a] \cup {n} /\ n \notin DOMAIN ledger[a]
      /\ \A k \in DOMAIN ledger[a] : ledger'[a][k] = ledger[a][k]
      /\ ledger'[a][n] = Added(n, c, t, how, asked)
  <2>1. Filed /\ UNCHANGED <<issued, scenario>>
    BY DEF Inductive
  <2> QED BY <2>1, ReserveAdds
<1>7. Len(ledger'[a]) = n /\ \A k \in DOMAIN ledger[a] : k < n
  <2>0. ledger'[a] \in Seq(Receipt) /\ ledger[a] \in Seq(Receipt)
    BY <1>1, <1>2 DEF Inductive, Files, Filed
  <2>1. DOMAIN ledger'[a] = 1 .. Len(ledger'[a]) /\ Len(ledger'[a]) \in Nat
        /\ DOMAIN ledger[a] = 1 .. Len(ledger[a]) /\ Len(ledger[a]) \in Nat
    BY <2>0
  <2>2. 1 .. Len(ledger'[a]) = (1 .. Len(ledger[a])) \cup {Len(ledger[a]) + 1}
    BY <1>6, <2>1
  <2>3. Len(ledger'[a]) = Len(ledger[a]) + 1
    <3>1. /\ Len(ledger[a]) + 1 \in 1 .. Len(ledger'[a])
          /\ Len(ledger'[a]) + 1 \notin 1 .. Len(ledger'[a])
      BY <2>1, <2>2
    <3>2. CASE Len(ledger'[a]) = 0
      BY <2>1, <3>1, <3>2
    <3>3. CASE Len(ledger'[a]) # 0
      <4>1. Len(ledger'[a]) \in 1 .. Len(ledger'[a])
        BY <2>1, <3>3
      <4>2. Len(ledger'[a]) \in (1 .. Len(ledger[a])) \cup {Len(ledger[a]) + 1}
        BY <2>2, <4>1
      <4> QED BY <2>1, <3>1, <4>2
    <3> QED BY <3>2, <3>3
  <2> QED BY <1>6, <2>1, <2>3
<1>8. /\ ledger'[a][n].outcome = "none" /\ ledger'[a][n].how = how /\ ledger'[a][n].at = t
      /\ ledger'[a][n].asked = asked
  BY <1>6 DEF Added
<1>9. Keeps
  <2>1. ASSUME NEW x \in Issued, NEW k \in DOMAIN ledger[x] PROVE Kept(x, k)
    <3>1. k \in DOMAIN ledger'[x] /\ ledger'[x][k] = ledger[x][k]
      BY <1>6, <2>1
    <3>2. ~RunsNext(x, k)
      BY <1>3, <1>6, <2>1 DEF RunsNext
    <3> QED BY <3>1, <3>2 DEF Kept
  <2>2. drops' = drops /\ drops \in Nat
    BY DEF Inductive, Scoped
  <2> QED BY <1>2, <2>1, <2>2 DEF Keeps, Inductive
<1>10. Excused(confirmed, policy) /\ (confirmed # None => confirmed \in Issued)
  BY DEF Inductive, Scoped, Held
<1>11. ExcusedNext(confirmed, policy)
  BY <1>9, <1>10, AbandonedStay
<1>12. Scoped'
  <2>1. Excused(work.confirmed, work.policy)'
    BY <1>3, <1>11 DEF Excused, ExcusedNext, AbandonedSteps, AbandonedNext, Runs, RunsNext
  <2> QED BY <1>3, <1>6, <1>7, <1>8, <1>9, <2>1 DEF Scoped, Keeps
<1>13. FreshNext(a, n)
  <2>1. Plan[n] \notin Allowed => how = "confirmed" \/ \E m \in AbandonedNext(a) : m < n
    <3> SUFFICES ASSUME confirmed = a PROVE \E m \in AbandonedNext(a) : m < n
      BY DEF AboveCeiling
    <3>1. AbandonedSteps(a) # {} /\ AbandonedSteps(a) \subseteq AbandonedNext(a)
      BY <1>9, <1>10, AbandonedStay, NoneNotIssued DEF Excused, Inductive
    <3>2. AbandonedSteps(a) \subseteq DOMAIN ledger[a]
      BY DEF AbandonedSteps
    <3> QED BY <1>7, <3>1, <3>2
  <2>2. Plan[n] \in Policed => how # "direct" \/ \E b \in Issued' : AbandonedNext(b) # {}
    BY <1>11 DEF ExcusedNext
  <2> QED BY <1>4, <1>8, <2>1, <2>2 DEF FreshNext
<1>14. FreshConfirmation'
  <2>1. \A x \in Issued' : \A k \in DOMAIN ledger'[x] :
          (x \in Issued /\ k \in DOMAIN ledger[x]) \/ FreshNext(x, k)
    BY <1>2, <1>6, <1>13
  <2> QED BY <1>9, <2>1, FreshStays DEF Inductive
<1> QED BY <1>1, <1>5, <1>12, <1>14 DEF Files, Inductive

(* A step that writes no file and leaves the worker and what is confirmed   *)
(* alone.                                                                   *)
LEMMA MemoryStep ==
  ASSUME Inductive, UNCHANGED <<scenario, issued, ledger, ran, repeated, work, confirmed, policy, drops>>,
         Held'
  PROVE  Inductive'
<1>1. Files' /\ Issued' = Issued
  BY FilesStay DEF Files, Inductive
<1>2. Scoped'
  BY <1>1 DEF Inductive, Scoped, Excused, AbandonedSteps, Runs
<1>3. Plan' = Plan /\ Allowed' = Allowed /\ Policed' = Policed
  BY DEF Plan, Allowed, Policed
<1>4. FreshConfirmation'
  BY <1>1, <1>3 DEF Inductive, FreshConfirmation, AboveCeiling, AbandonedSteps, Runs
<1> QED BY <1>1, <1>2, <1>4, Held' DEF Files, Inductive

(* A step that writes no receipt, after which no command runs. *)
LEMMA QuietStep ==
  ASSUME Inductive, UNCHANGED <<scenario, issued, ledger, ran, repeated>>,
         drops' = drops \/ drops' = drops + 1, work'.at \notin {"step", "broker"}, Held',
         \/ work.at \notin {"step", "broker"} /\ confirmed' = confirmed /\ policy' = policy
         \/ work.at \in {"step", "broker"} /\ confirmed' = work.confirmed /\ policy' = work.policy
         \/ confirmed' = None /\ policy'
         \/ work.at \in {"step", "broker"} /\ drops' = drops + 1 /\ UNCHANGED <<confirmed, policy>>
         \/ work.at = "broker" /\ UNCHANGED <<confirmed, policy>>
  PROVE  Inductive'
<1>1. Files' /\ Issued' = Issued
  BY FilesStay DEF Files, Inductive
<1>2. Keeps
  <2>1. \A x \in Issued : \A k \in DOMAIN ledger[x] : Kept(x, k)
    BY DEF Kept, RunsNext
  <2>2. drops \in Nat /\ drops' \in Nat /\ drops <= drops'
    BY DEF Inductive, Scoped
  <2> QED BY <1>1, <2>1, <2>2 DEF Keeps, Inductive
<1>3. /\ confirmed # None => confirmed \in Issued
      /\ work.at \in {"step", "broker"} => (work.confirmed # None => work.confirmed \in Issued)
  BY DEF Inductive, Held
<1>4. ExcusedNext(confirmed', policy')
  <2>1. CASE work.at \notin {"step", "broker"} /\ confirmed' = confirmed /\ policy' = policy
    BY <1>2, <1>3, <2>1, AbandonedStay DEF Inductive, Scoped
  <2>2. CASE work.at \in {"step", "broker"} /\ confirmed' = work.confirmed /\ policy' = work.policy
    BY <1>2, <1>3, <2>2, AbandonedStay DEF Inductive, Scoped
  <2>3. CASE confirmed' = None /\ policy'
    BY <2>3 DEF ExcusedNext
  <2>4. CASE /\ work.at = "step" /\ drops' = drops + 1 /\ UNCHANGED <<confirmed, policy>>
             /\ confirmed = work.auth /\ ledger[work.auth][work.n].how = "confirmed"
    <3> DEFINE a == work.auth
               n == work.n
    <3>1. /\ a \in Issued /\ n \in DOMAIN ledger[a] /\ ledger[a][n].outcome = "none"
          /\ drops' > 0 /\ ~RunsNext(a, n)
      BY <2>4 DEF Inductive, Held, Scoped, RunsNext
    <3>2. n \in AbandonedNext(a)
      BY <2>4, <3>1 DEF AbandonedNext
    <3> QED BY <1>1, <2>4, <3>1, <3>2 DEF ExcusedNext
  <2> QED BY <2>1, <2>2, <2>3, <2>4 DEF Inductive, Scoped
<1> QED BY <1>1, <1>2, <1>4, RestStep

(* An issuance is written while no command runs; receipts stay. *)
LEMMA FileStep ==
  ASSUME Inductive, UNCHANGED <<scenario, confirmed, policy, drops>>, Files', Held',
         work.at \notin {"step", "broker"}, work'.at \notin {"step", "broker"},
         Issued \subseteq Issued',
         \A x \in Issued : issued'[x].target = issued[x].target /\ ledger'[x] = ledger[x],
         \A x \in Issued' \ Issued : DOMAIN ledger'[x] = {}
  PROVE  Inductive'
<1>1. \A x \in Issued : \A k \in DOMAIN ledger[x] : Kept(x, k)
  BY DEF Kept, RunsNext
<1>2. Keeps
  BY <1>1 DEF Keeps, Inductive, Scoped
<1>3. ExcusedNext(confirmed', policy')
  BY <1>2, AbandonedStay DEF Inductive, Scoped, Held
<1> QED BY <1>2, <1>3, RestStep

(* Every step keeps the invariant. *)
LEMMA InductiveStep ==
  ASSUME Inductive, Next
  PROVE  Inductive'
<1>0. /\ Step /\ UNCHANGED scenario /\ Files /\ Held /\ Scoped
      /\ Plan' = Plan /\ Targets' = Targets /\ Requests' = Requests
  BY DEF Next, Inductive, Files, Plan, Targets, Requests
<1>1. ASSUME NEW a \in Issued, NEW n \in DOMAIN Plan, NEW c \in Cmds, NEW pinned \in BOOLEAN,
             Submit(a, n, c, pinned)
      PROVE  Inductive'
  <2>1. work = Idle /\ work.at = "idle" /\ Admissible(a, n, c, Binding(a, pinned))
        /\ UNCHANGED <<issued, active, confirmed, policy, drops>>
    BY <1>1 DEF Submit, Idle
  <2>2. CASE AsksFirst(a, n)
    <3>1. /\ memo' = [auth |-> a, n |-> n, cmd |-> c, pinned |-> pinned,
                      target |-> Binding(a, pinned), expired |-> FALSE]
          /\ UNCHANGED <<ledger, work, ran, repeated>>
      BY <1>1, <2>2 DEF Submit
    <3>2. memo'.auth = a /\ memo'.n = n /\ memo'.cmd = c /\ memo'.target = issued[a].target
      BY <2>1, <3>1 DEF Admissible
    <3>3. Issued' = Issued
      BY <2>1 DEF Issued
    <3>4. Held'
      BY <1>0, <2>1, <3>1, <3>2, <3>3 DEF Held
    <3> QED BY <1>0, <2>1, <3>1, <3>4, MemoryStep
  <2>3. CASE ~AsksFirst(a, n)
    <3>1. /\ Reserve(a, n, c, Binding(a, pinned), "direct", None)
          /\ work' = Running("step", a, n, c, pinned) /\ memo' = memo
      BY <1>1, <2>3 DEF Submit
    <3>2. (AboveCeiling(n) => confirmed = a) /\ (Plan[n] \in Policed => ~policy)
      BY <2>3 DEF AsksFirst
    <3> QED BY <1>0, <2>1, <3>1, <3>2, DispatchKeeps
  <2> QED BY <2>2, <2>3
<1>2. ASSUME NEW a \in Issued, NEW n \in DOMAIN Plan, NEW c \in Cmds, BrokerCommand(a, n, c)
      PROVE  Inductive'
  <2>1. /\ work.at = "idle" /\ Admissible(a, n, c, issued[a].target)
        /\ AboveCeiling(n) => confirmed = a
        /\ Reserve(a, n, c, issued[a].target, "broker", None)
        /\ work' = Running("broker", a, n, c, TRUE)
        /\ UNCHANGED <<issued, active, memo, confirmed, policy, drops>>
    BY <1>2 DEF BrokerCommand, Idle
  <2> QED BY <1>0, <2>1, DispatchKeeps
<1>3. CASE MemoExpires \/ Deny
  <2>1. /\ UNCHANGED <<issued, ledger, active, confirmed, policy, work, ran, repeated, drops>>
        /\ memo' # None =>
             /\ memo # None /\ memo'.auth = memo.auth /\ memo'.n = memo.n /\ memo'.cmd = memo.cmd
             /\ memo'.target = memo.target
    <3>1. CASE Deny
      BY <3>1 DEF Deny
    <3>2. CASE MemoExpires
      <4>1. memo # None /\ memo' = [memo EXCEPT !.expired = TRUE]
        BY <3>2 DEF MemoExpires, Awaited
      <4> QED BY <3>2, <4>1 DEF MemoExpires
    <3> QED BY <1>3, <3>1, <3>2
  <2>2. Issued' = Issued
    BY <2>1 DEF Issued
  <2>3. Held'
    BY <1>0, <2>1, <2>2 DEF Held
  <2> QED BY <1>0, <2>1, <2>3, MemoryStep
<1>4. CASE Confirm
  <2>1. /\ work = Idle /\ work.at = "idle" /\ memo # None /\ memo' = None
        /\ memo.auth \in Issued /\ memo.n \in DOMAIN Plan /\ memo.cmd \in Cmds
        /\ memo.target = issued[memo.auth].target
        /\ UNCHANGED <<issued, active, drops>>
    BY <1>0, <1>4 DEF Confirm, Held, Idle
  <2>2. CASE UNCHANGED <<ledger, ran, repeated, work, policy, confirmed>>
    <3>1. Issued' = Issued
      BY <2>1 DEF Issued
    <3>2. Held'
      BY <1>0, <2>1, <2>2, <3>1 DEF Held
    <3> QED BY <1>0, <2>1, <2>2, <3>2, MemoryStep
  <2>3. CASE /\ Admissible(memo.auth, memo.n, memo.cmd, memo.target)
             /\ Reserve(memo.auth, memo.n, memo.cmd, memo.target, "confirmed", memo.target)
             /\ work' = Running("step", memo.auth, memo.n, memo.cmd, memo.pinned)
             /\ confirmed' = memo.auth
    <3>1. memo.target \in Pages \cup {None}
      BY <1>0, <2>1 DEF Files, Filed, Issuance, Targets, Pages
    <3> QED BY <1>0, <2>1, <2>3, <3>1, DispatchKeeps
  <2> QED BY <1>4, <2>2, <2>3 DEF Confirm
<1>5. CASE BrokerGone
  <2>1. /\ work.at = "broker" /\ work'.at = "idle"
        /\ UNCHANGED <<issued, ledger, active, memo, confirmed, policy, ran, repeated, drops>>
    BY <1>5 DEF BrokerGone, Idle
  <2>2. Issued' = Issued
    BY <2>1 DEF Issued
  <2>3. Held'
    BY <1>0, <2>1, <2>2 DEF Held
  <2> QED BY <1>0, <2>1, <2>3, QuietStep
<1>6. ASSUME NEW success \in BOOLEAN, NEW t \in Targets, Finish(success, t)
      PROVE  Inductive'
  <2>1. Files' /\ Issued' = Issued
    BY <1>0, <1>6, FinishKeepsFiles
  <2>2. /\ work.at \in {"step", "broker"} /\ work'.at = "idle"
        /\ confirmed' = work.confirmed /\ policy' = work.policy
        /\ active' = t /\ UNCHANGED <<issued, memo, drops>>
    BY <1>6 DEF Finish, Idle, Restored
  <2>3. Held'
    BY <1>0, <2>1, <2>2 DEF Held
  <2>4. /\ \A x \in Issued : DOMAIN ledger'[x] = DOMAIN ledger[x]
        /\ \A x \in Issued : \A k \in DOMAIN ledger[x] : Kept(x, k)
    <3>1. /\ \A x \in Issued : DOMAIN ledger'[x] = DOMAIN ledger[x]
          /\ \A x \in Issued : \A k \in DOMAIN ledger[x] :
               /\ ledger'[x][k].how = ledger[x][k].how
               /\ ledger'[x][k].at = ledger[x][k].at /\ ledger'[x][k].asked = ledger[x][k].asked
               /\ ledger'[x][k].outcome = ledger[x][k].outcome
                    \/ (x = work.auth /\ ledger[x][k].step = work.n)
      BY <1>0, <1>6, FinishKeeps DEF Files
    <3>2. \A x \in Issued : \A k \in DOMAIN ledger[x] : ledger[x][k].step = k
      BY <1>0 DEF Files, Filed
    <3> QED BY <2>2, <3>1, <3>2 DEF Kept, Runs, RunsNext
  <2>5. Keeps
    BY <1>0, <2>1, <2>2, <2>4 DEF Keeps, Files, Scoped
  <2>6. ExcusedNext(confirmed', policy')
    BY <1>0, <2>2, <2>5, AbandonedStay DEF Scoped, Held
  <2> QED BY <2>1, <2>2, <2>3, <2>4, <2>5, <2>6, RestStep
<1>7. CASE FinishUnwritten
  <2>1. /\ work.at \in {"step", "broker"} /\ work'.at = "idle"
        /\ confirmed' = work.confirmed /\ policy' = work.policy
        /\ UNCHANGED <<issued, ledger, active, memo, ran, repeated, drops>>
    BY <1>7 DEF FinishUnwritten, Idle, Restored
  <2>2. Issued' = Issued
    BY <2>1 DEF Issued
  <2>3. Held'
    BY <1>0, <2>1, <2>2 DEF Held
  <2> QED BY <1>0, <2>1, <2>3, QuietStep
<1>8. CASE Drop
  <2>1. /\ drops' = drops + 1 /\ drops \in Nat /\ work'.at = "idle"
        /\ work.at \in {"step", "broker"}
        /\ UNCHANGED <<issued, ledger, active, memo, confirmed, policy, ran, repeated>>
    BY <1>0, <1>8 DEF Drop, Idle, Inductive, Scoped
  <2>2. Issued' = Issued
    BY <2>1 DEF Issued
  <2>3. Held'
    BY <1>0, <2>1, <2>2 DEF Held
  <2> QED BY <1>0, <2>1, <2>3, QuietStep
<1>9. CASE Crash
  <2>1. /\ memo' = None /\ confirmed' = None /\ policy' /\ work'.at = "idle"
        /\ UNCHANGED <<issued, ledger, active, ran, repeated, drops>>
    BY <1>9 DEF Crash, Idle
  <2>2. Issued' = Issued
    BY <2>1 DEF Issued
  <2>3. Held'
    BY <1>0, <2>1, <2>2 DEF Held
  <2> QED BY <1>0, <2>1, <2>3, QuietStep
<1>10. ASSUME NEW f \in scenario.fresh, NEW t \in Targets, Issue(f, t) PROVE Inductive'
  <2>1. <<f>> \in Names /\ Len(<<f>>) = 1
    <3>1. f \in Fresh
      BY <1>0, AuthorityAssumption DEF Files, Filed
    <3> QED BY <1>0, <3>1 DEF Names
  <2>2. /\ <<f>> \notin Issued /\ work.at = "idle"
        /\ issued' = Put(issued, <<f>>, Record(t)) /\ ledger' = Put(ledger, <<f>>, <<>>)
        /\ UNCHANGED <<active, memo, confirmed, policy, work, ran, repeated, drops>>
    BY <1>10 DEF Issue, Idle
  <2>3. /\ Files' /\ Issued' = Issued \cup {<<f>>} /\ DOMAIN ledger'[<<f>>] = {}
        /\ \A x \in Issued : issued'[x] = issued[x] /\ ledger'[x] = ledger[x]
    BY <1>0, <2>1, <2>2, PutKeepsFiles
  <2>4. Held'
    BY <1>0, <2>2, <2>3 DEF Held
  <2>5. \A x \in Issued' \ Issued : DOMAIN ledger'[x] = {}
    BY <2>3
  <2> QED BY <1>0, <2>2, <2>3, <2>4, <2>5, FileStep
<1>11. ASSUME NEW a \in Issued, Revoke(a) PROVE Inductive'
  <2>1. Files' /\ Issued' = Issued /\ \A x \in Issued : issued'[x].target = issued[x].target
    BY <1>0, <1>11, RevokeKeepsFiles
  <2>2. work.at = "idle" /\ UNCHANGED <<ledger, active, memo, confirmed, policy, work, drops>>
    BY <1>11 DEF Revoke, Idle
  <2>3. Held'
    BY <1>0, <2>1, <2>2 DEF Held
  <2> QED BY <1>0, <2>1, <2>2, <2>3, FileStep
<1>12. ASSUME NEW a \in Issued, NEW q \in Requests, NEW pinned \in BOOLEAN,
              ReconcileRevokes(a, q, pinned)
       PROVE  Inductive'
  <2>1. /\ Files' /\ Issued' = Issued
        /\ issued'[a].revoked /\ issued'[a].recon # None /\ issued'[a].recon.req = q
        /\ \A x \in Issued : issued'[x].target = issued[x].target
    BY <1>0, <1>12, RevokingKeepsFiles
  <2>2. /\ work.at = "idle" /\ work' = [at |-> "replace", auth |-> a, req |-> q]
        /\ UNCHANGED <<ledger, active, memo, confirmed, policy, drops>>
    BY <1>12 DEF ReconcileRevokes, Idle, Reconciling
  <2>3. Held'
    BY <1>0, <2>1, <2>2 DEF Held
  <2> QED BY <1>0, <2>1, <2>2, <2>3, FileStep
<1>13. ASSUME NEW a \in Issued, NEW q \in Requests, NEW pinned \in BOOLEAN,
              ReconcileResumes(a, q, pinned)
       PROVE  Inductive'
  <2>1. /\ work.at = "idle" /\ work' = [at |-> "replace", auth |-> a, req |-> q]
        /\ issued[a].recon # None /\ issued[a].recon.req = q
        /\ UNCHANGED <<issued, ledger, active, memo, confirmed, policy, ran, repeated, drops>>
    BY <1>13 DEF ReconcileResumes, Idle, Reconciling, SameEvidence
  <2>2. Issued' = Issued /\ issued[a].revoked
    BY <1>0, <2>1 DEF Issued, Files, Reconciled
  <2>3. Held'
    BY <1>0, <2>1, <2>2 DEF Held
  <2> QED BY <1>0, <2>1, <2>3, QuietStep
<1>14. CASE ReconcileReplaces
  <2> DEFINE a == work.auth
             new == Append(a, work.req)
  <2>1. /\ work.at = "replace" /\ work = [at |-> "replace", auth |-> a, req |-> work.req]
        /\ a \in Issued /\ work.req \in Requests /\ issued[a].revoked
        /\ issued[a].recon # None /\ issued[a].recon.req = work.req
    BY <1>0, <1>14 DEF ReconcileReplaces, Held
  <2>2. UNCHANGED <<active, memo, confirmed, policy, ran, repeated, drops>>
    BY <1>14 DEF ReconcileReplaces
  <2>3. CASE new \in Issued
    <3>1. /\ UNCHANGED <<issued, ledger>>
          /\ work' = [at |-> "complete", auth |-> a, req |-> work.req] \/ work' = Idle
      BY <1>14, <2>1, <2>3 DEF ReconcileReplaces
    <3>2. Issued' = Issued
      BY <3>1 DEF Issued
    <3>3. Held'
      BY <1>0, <2>1, <2>2, <3>1, <3>2 DEF Held, Idle
    <3>4. work'.at \notin {"step", "broker"}
      BY <3>1 DEF Idle
    <3> QED BY <1>0, <2>1, <2>2, <3>1, <3>3, <3>4, QuietStep
  <2>4. CASE new \notin Issued
    <3>1. a \in Names /\ Len(a) >= 1 /\ issued[a].target \in Targets
      BY <1>0, <2>1 DEF Files, Filed, Issuance
    <3>2. new \in Names /\ Len(new) > 1 /\ Predecessor(new) = a /\ new[Len(new)] = work.req
      BY <2>1, <3>1, NameParts
    <3>3. /\ issued' = Put(issued, new, Record(issued[a].target))
          /\ ledger' = Put(ledger, new, <<>>)
          /\ work' = [at |-> "complete", auth |-> a, req |-> work.req]
      BY <1>14, <2>1, <2>4 DEF ReconcileReplaces
    <3>4. Len(new) >= 1
      BY <3>2 DEF Names
    <3> HIDE DEF new
    <3>5. /\ Files' /\ Issued' = Issued \cup {new} /\ DOMAIN ledger'[new] = {}
          /\ \A x \in Issued : issued'[x] = issued[x] /\ ledger'[x] = ledger[x]
      BY <1>0, <2>1, <2>2, <2>4, <3>1, <3>2, <3>3, <3>4, PutKeepsFiles
    <3>6. Held'
      BY <1>0, <2>1, <2>2, <3>3, <3>5 DEF Held
    <3>7. /\ work.at \notin {"step", "broker"} /\ work'.at \notin {"step", "broker"}
          /\ \A x \in Issued' \ Issued : DOMAIN ledger'[x] = {}
      BY <2>1, <3>3, <3>5
    <3> QED BY <1>0, <2>2, <3>5, <3>6, <3>7, FileStep
  <2> QED BY <2>3, <2>4
<1>15. CASE ReconcileCompletes
  <2>1. Files' /\ Issued' = Issued /\ \A x \in Issued : issued'[x].target = issued[x].target
    BY <1>0, <1>15, CompletingKeepsFiles
  <2>2. /\ work.at = "complete" /\ work'.at = "idle"
        /\ UNCHANGED <<ledger, active, memo, confirmed, policy, drops>>
    BY <1>15 DEF ReconcileCompletes, Idle
  <2>3. Held'
    BY <1>0, <2>1, <2>2 DEF Held
  <2> QED BY <1>0, <2>1, <2>2, <2>3, FileStep
<1>16. ASSUME NEW t \in Targets, Drift(t) PROVE Inductive'
  <2>1. /\ active' = t
        /\ UNCHANGED <<issued, ledger, memo, confirmed, policy, work, ran, repeated, drops>>
    BY <1>16 DEF Drift
  <2>2. Issued' = Issued
    BY <2>1 DEF Issued
  <2>3. Held'
    BY <1>0, <2>1, <2>2 DEF Held
  <2> QED BY <1>0, <2>1, <2>3, MemoryStep
<1> QED
  BY <1>0, <1>1, <1>2, <1>3, <1>4, <1>5, <1>6, <1>7, <1>8, <1>9, <1>10, <1>11, <1>12, <1>13,
     <1>14, <1>15, <1>16 DEF Step

-----------------------------------------------------------------------------
(* The theorems. *)

(* A session starts without authorities. *)
LEMMA InductiveInit == Init => Inductive
<1> SUFFICES ASSUME Init PROVE Inductive
  OBVIOUS
<1>1. Issued = {}
  BY DEF Init, Issued
<1>2. Filed
  BY <1>1 DEF Init, Filed
<1>3. Held /\ Scoped
  BY DEF Init, Held, Scoped, Excused, Idle
<1>4. Receipted
  BY DEF Init, Receipted
<1>5. Reconciled /\ ReplacementHasCause /\ ReconciliationIdBound /\ FreshConfirmation
  BY <1>1 DEF Reconciled, ReplacementHasCause, ReconciliationIdBound, FreshConfirmation
<1> QED BY <1>2, <1>3, <1>4, <1>5 DEF Inductive

(* The invariant holds in every reachable state. *)
THEOREM InductiveInvariant == Spec => []Inductive
<1>1. ASSUME Inductive, UNCHANGED vars PROVE Inductive'
  <2>1. Files' /\ Issued' = Issued
    BY <1>1, FilesStay DEF vars, Files, Inductive
  <2>2. Held'
    BY <1>1, <2>1 DEF vars, Inductive, Held, Plan, Targets, Requests
  <2> QED BY <1>1, <2>2, MemoryStep DEF vars
<1>2. Inductive /\ [Next]_vars => Inductive'
  BY <1>1, InductiveStep
<1> QED BY InductiveInit, <1>2, PTL DEF Spec

(* No step of a plan and no command id is dispatched twice under one        *)
(* authority: the receipt is on disk before the command is dispatched       *)
(* (admit_task_authority), whatever crashes and retries follow.             *)
THEOREM StepsRunOnce == Spec => []StepOnce
<1>1. Inductive => StepOnce
  BY DEF Inductive, Receipted, StepOnce
<1> QED BY InductiveInvariant, <1>1, PTL

(* A replacement has one revoked predecessor, reconciled by the request     *)
(* that names it at its one step without an outcome, under an id no other   *)
(* reconciliation has (reconcile_task_authority).                           *)
THEOREM LineagesAreSound == Spec => []LineageSound
<1>1. Inductive => LineageSound
  <2> SUFFICES ASSUME Inductive PROVE LineageSound
    OBVIOUS
  <2>1. TypeOK
    <3>1. /\ issued \in [Issued -> Issuance] /\ ledger \in [Issued -> Seq(Receipt)]
          /\ Plan \in Seq(Kinds)
      BY AuthorityAssumption DEF Inductive, Filed, Plan
    <3>2. ASSUME NEW a \in Issued
          PROVE  /\ issued[a].target \in Targets /\ issued[a].revoked \in BOOLEAN
                 /\ Len(ledger[a]) <= Len(Plan)
                 /\ \A k \in DOMAIN ledger[a] :
                      ledger[a][k].outcome \in {"none", "completed", "failed"}
      <4>1. issued[a] \in Issuance /\ ledger[a] \in Seq(Receipt)
        BY <3>1
      <4>2. Len(ledger[a]) \in Nat /\ DOMAIN ledger[a] = 1 .. Len(ledger[a])
            /\ Len(Plan) \in Nat /\ DOMAIN Plan = 1 .. Len(Plan)
        BY <3>1, <4>1
      <4>3. Len(ledger[a]) <= Len(Plan)
        <5>1. CASE Len(ledger[a]) = 0
          BY <4>2, <5>1
        <5>2. CASE Len(ledger[a]) # 0
          <6>1. Len(ledger[a]) \in DOMAIN ledger[a]
            BY <4>2, <5>2
          <6>2. Len(ledger[a]) \in DOMAIN Plan
            BY <6>1 DEF Inductive, Filed
          <6> QED BY <4>2, <6>2
        <5> QED BY <5>1, <5>2
      <4>4. \A k \in DOMAIN ledger[a] : ledger[a][k] \in Receipt
        BY <4>1
      <4> QED BY <4>1, <4>3, <4>4 DEF Issuance, Receipt, Outcomes
    <3>3. DOMAIN ledger = Issued
      BY <3>1
    <3> QED BY <3>2, <3>3 DEF TypeOK, Inductive, Held
  <2>2. LineageTrue
    BY DEF Inductive, Reconciled, LineageTrue
  <2> QED BY <2>1, <2>2 DEF Inductive, LineageSound
<1> QED BY InductiveInvariant, <1>1, PTL

(* A step above the ceiling ran on a confirmation of that very command, at  *)
(* the target it was asked for, and a policed step was not run on its       *)
(* caller's word (execute_command, handle_confirm, the broker's commands),  *)
(* unless a confirmed command was abandoned before.                         *)
THEOREM ConfirmationsAreFresh == Spec => []FreshConfirmation
<1>1. Inductive => FreshConfirmation
  BY DEF Inductive
<1> QED BY InductiveInvariant, <1>1, PTL
=============================================================================
