-------------------------- MODULE Statistics_proofs --------------------------
(***************************************************************************)
(* Proofs about Statistics, for any finite set of batches and items and    *)
(* whatever the analyst reports.                                           *)
(***************************************************************************)
EXTENDS Statistics, ReviewExport_proofs, FiniteSetTheorems, FunctionTheorems

-----------------------------------------------------------------------------
(* A finite set counted part by part is counted right: its elements are    *)
(* numbered by their part and their number within it.                      *)
LEMMA PartsAddUp ==
    ASSUME NEW U, IsFiniteSet(U), NEW K, NEW P,
           \A k \in K : P[k] \subseteq U,
           \A k, l \in K : k # l => P[k] \cap P[l] = {},
           \A x \in U : \E k \in K : x \in P[k],
           NEW f, f = [k \in K |-> Cardinality(P[k])]
    PROVE  Sum(f) = Cardinality(U)
<1> DEFINE Numbers == UNION {{k} \X (1..f[k]) : k \in DOMAIN f}
           numbering == [k \in K |-> CHOOSE h : h \in Bijection(P[k], 1..f[k])]
           part(x) == CHOOSE k \in K : x \in P[k]
           H == [x \in U |-> <<part(x), numbering[part(x)][x]>>]
<1>1. DOMAIN f = K /\ \A k \in K : f[k] = Cardinality(P[k])
  OBVIOUS
<1>2. ASSUME NEW k \in K PROVE numbering[k] \in Bijection(P[k], 1..f[k])
  <2>1. IsFiniteSet(P[k])
    BY FS_Subset
  <2>2. ExistsBijection(P[k], 1..f[k])
    BY <1>1, <2>1, FS_CardinalityType, Fun_ExistsBijSymmetric
  <2>3. \E h : h \in Bijection(P[k], 1..f[k])
    BY <2>2 DEF ExistsBijection
  <2> QED BY <2>3
<1> HIDE DEF numbering
<1>3. ASSUME NEW k \in K, NEW x \in P[k] PROVE part(x) = k
  BY <1>3
<1>4. ASSUME NEW x \in U PROVE part(x) \in K /\ x \in P[part(x)]
  OBVIOUS
<1> HIDE DEF part
<1>5. H \in Injection(U, Numbers)
  <2>1. ASSUME NEW x \in U PROVE H[x] \in Numbers
    <3>1. numbering[part(x)][x] \in 1..f[part(x)]
      BY <1>2, <1>4 DEF Bijection, Injection
    <3> QED BY <1>1, <1>4, <3>1
  <2>2. ASSUME NEW x \in U, NEW y \in U, H[x] = H[y] PROVE x = y
    <3>1. part(x) = part(y) /\ numbering[part(x)][x] = numbering[part(x)][y]
      BY <2>2
    <3> QED BY <1>2, <1>4, <3>1 DEF Bijection, Injection, IsInjective
  <2> HIDE DEF H, Numbers
  <2>3. H \in [U -> Numbers]
    BY <2>1 DEF H
  <2> QED BY <2>2, <2>3 DEF Injection, IsInjective
<1>6. H \in Surjection(U, Numbers)
  <2>1. ASSUME NEW d \in Numbers PROVE \E x \in U : H[x] = d
    <3>1. PICK k \in K : d \in {k} \X (1..f[k])
      BY <1>1
    <3>2. PICK n \in 1..f[k] : d = <<k, n>>
      BY <3>1
    <3>3. PICK x \in P[k] : numbering[k][x] = n
      BY <1>2 DEF Bijection, Surjection
    <3> QED BY <1>3, <3>2, <3>3
  <2> HIDE DEF H, Numbers
  <2> QED BY <1>5, <2>1 DEF Injection, Surjection
<1>7. ExistsBijection(U, Numbers)
  BY <1>5, <1>6 DEF ExistsBijection, Bijection
<1>8. Cardinality(Numbers) = Cardinality(U)
  BY <1>7, FS_Bijection
<1> QED BY <1>8 DEF Sum

LEMMA Finite ==
    /\ \A S \in SUBSET Items : IsFiniteSet(S) /\ Cardinality(S) \in Nat
    /\ \A b \in Batches : ItemsOf(b) \in SUBSET Items
<1>1. \A S \in SUBSET Items : IsFiniteSet(S)
  BY FiniteAssumption, FS_Subset
<1> QED BY <1>1, FS_CardinalityType DEF ItemsOf

-----------------------------------------------------------------------------
(* The figures of a batch.                                                 *)

(* The figures share no state, and with TypeOK have all those written.     *)
LEMMA FiguresPartition ==
    /\ \A f, g \in DOMAIN Figures : f # g => Figures[f] \cap Figures[g] = {}
    /\ \A s \in WrittenState : \E f \in DOMAIN Figures : s \in Figures[f]
BY DEF Figures, Running, WrittenState, ItemState

(* Every item is in exactly one of the figures of its batch                *)
(* (FiguresAddUp).                                                         *)
THEOREM FiguresComplete == Spec => []FiguresAddUp
<1>1. ASSUME TypeOK, NEW b \in Batches PROVE Sum(batch_out(b)) = Total(b)
  <2> DEFINE P == [f \in DOMAIN Figures |-> {i \in ItemsOf(b) : row[i].state \in Figures[f]}]
  <2>1. batch_out(b) = [f \in DOMAIN Figures |-> Cardinality(P[f])]
    BY DEF batch_out, InState
  <2>2. \A i \in ItemsOf(b) : row[i].state \in WrittenState
    BY <1>1 DEF TypeOK, Row, ItemsOf
  <2>3. \A i \in ItemsOf(b) : \E f \in DOMAIN Figures : i \in P[f]
    BY <2>2, FiguresPartition
  <2>4. \A f \in DOMAIN Figures : P[f] \subseteq ItemsOf(b)
    OBVIOUS
  <2>5. \A f, g \in DOMAIN Figures : f # g => P[f] \cap P[g] = {}
    BY FiguresPartition
  <2>6. IsFiniteSet(ItemsOf(b))
    BY Finite
  <2> HIDE DEF P
  <2>7. Sum(batch_out(b)) = Cardinality(ItemsOf(b))
    BY <2>1, <2>3, <2>4, <2>5, <2>6, PartsAddUp
  <2> QED BY <2>7 DEF Total
<1>2. TypeOK => FiguresAddUp
  BY <1>1 DEF FiguresAddUp
<1> QED BY <1>2, TypeCorrect, PTL

(* The percentage is rounded down: it is 100 only when nothing is missing. *)
LEMMA FullPercentage ==
    ASSUME NEW t \in Nat \ {0}, NEW n \in 0..t
    PROVE  (n * 100) \div t = 100 <=> n = t
<1>1. (t * 100) \div t = 100
  OBVIOUS
<1>2. ASSUME n < t PROVE (n * 100) \div t < 100
  <2> DEFINE q == (n * 100) \div t
  <2>1. q \in Int /\ t * q <= n * 100
    OBVIOUS
  <2>2. n * 100 < t * 100
    BY <1>2
  <2> HIDE DEF q
  <2>3. ASSUME q >= 100 PROVE t * q >= t * 100
    <3>1. q - 100 \in Nat /\ t * (q - 100) \in Nat
      BY <2>1, <2>3
    <3>2. t * (q - 100) = t * q - t * 100
      BY <2>1
    <3> QED BY <2>1, <3>1, <3>2
  <2>4. q < 100
    BY <2>1, <2>2, <2>3
  <2> QED BY <2>4 DEF q
<1> QED BY <1>1, <1>2

LEMMA WrittenPending ==
    \A s \in WrittenState :
        s \notin PENDING_EXPORT_STATES <=> s \in Finished /\ s # "AWAITING_REVIEW"
BY DEF WrittenState, ItemState, PENDING_EXPORT_STATES, Finished

(* A batch shows 100 per cent and nothing awaiting review exactly when it  *)
(* can be exported (CardTellsExportable).                                  *)
THEOREM CardTells == Spec => []CardTellsExportable
<1>1. ASSUME TypeOK, NEW b \in Batches, Total(b) > 0
      PROVE  (progress_pct(b) = 100 /\ batch_out(b).awaiting_review = 0)
                <=> Pending(b) = {}
  <2> DEFINE done == {i \in ItemsOf(b) : row[i].state \in Finished}
             waiting == {i \in ItemsOf(b) : row[i].state \in {"AWAITING_REVIEW"}}
  <2>1. /\ IsFiniteSet(ItemsOf(b)) /\ done \in SUBSET ItemsOf(b) /\ waiting \in SUBSET Items
        /\ Total(b) \in Nat /\ Cardinality(done) \in Nat
    BY Finite DEF Total
  <2>2. Cardinality(done) \in 0..Total(b) /\ (Cardinality(done) = Total(b) => done = ItemsOf(b))
    BY <2>1, FS_Subset DEF Total
  <2>3. progress_pct(b) = (Cardinality(done) * 100) \div Total(b)
    BY <1>1, <2>1 DEF progress_pct, InState
  <2>4. progress_pct(b) = 100 <=> Cardinality(done) = Total(b)
    BY <1>1, <2>1, <2>2, <2>3, FullPercentage
  <2>5. progress_pct(b) = 100 <=> done = ItemsOf(b)
    BY <2>2, <2>4 DEF Total
  <2>6. batch_out(b).awaiting_review = Cardinality(waiting)
    BY DEF batch_out, InState, Figures
  <2>7. batch_out(b).awaiting_review = 0 <=> waiting = {}
    BY <2>1, <2>6, Finite, FS_EmptySet
  <2>8. \A i \in ItemsOf(b) : row[i].state \in WrittenState
    BY <1>1 DEF TypeOK, Row, ItemsOf
  <2> QED BY <2>5, <2>7, <2>8, WrittenPending DEF Pending
<1>2. TypeOK => CardTellsExportable
  BY <1>1 DEF CardTellsExportable
<1> QED BY <1>2, TypeCorrect, PTL

-----------------------------------------------------------------------------
(* The card of a project, in whatever states its batches are.              *)
LEMMA ShownStates ==
    /\ \A s : batch_status_category(s) = "review" <=> s = "AWAITING_REVIEW"
    /\ \A s : batch_status_category(s) = "error" <=> s = "ERROR"
BY DEF batch_status_category, ACTIVE_STATES

(* The card of a project asks for the user exactly when one of its batches *)
(* does (ProjectCardAgrees), in every state of the batches.                *)
THEOREM ProjectCard == ProjectCardAgrees
<1> DEFINE some(S) == \E b \in Batches : bstate[b] \in S
           shown == {batch_status_category(bstate[b]) : b \in Batches}
<1>1. ("review" \in shown <=> some({"AWAITING_REVIEW"})) /\ ("error" \in shown <=> some({"ERROR"}))
  BY ShownStates
<1>2. CASE some({"ERROR"})
  <2>1. project_status_category = "error"
    BY <1>2 DEF project_status_category
  <2> QED BY <1>1, <1>2, <2>1 DEF ProjectCardAgrees
<1>3. CASE ~some({"ERROR"}) /\ some({"AWAITING_REVIEW"})
  <2>1. project_status_category = "review"
    BY <1>3 DEF project_status_category
  <2> QED BY <1>1, <1>3, <2>1 DEF ProjectCardAgrees
<1>4. CASE ~some({"ERROR"}) /\ ~some({"AWAITING_REVIEW"})
  <2>1. project_status_category \in {"active", "idle"}
    BY <1>4 DEF project_status_category
  <2>2. project_status_category = "active" => some(ACTIVE_STATES)
    BY <1>4 DEF project_status_category
  <2>3. ASSUME NEW S PROVE BatchesIn(S) \in Nat /\ (BatchesIn(S) = 0 <=> ~some(S))
    <3>1. IsFiniteSet({b \in Batches : bstate[b] \in S})
      BY FiniteAssumption, FS_Subset
    <3> QED BY <3>1, FS_CardinalityType, FS_EmptySet DEF BatchesIn
  <2>4. project_status_category = "active" =>
          BatchesIn(ACTIVE_STATES) > 0 /\ BatchesIn({"AWAITING_REVIEW"}) = 0
    BY <1>4, <2>2, <2>3
  <2> QED BY <1>1, <1>4, <2>1, <2>4 DEF ProjectCardAgrees, project_out
<1> QED BY <1>2, <1>3, <1>4

-----------------------------------------------------------------------------
(* The statistics of the data set.                                         *)

LEMMA DistributionAddsUp ==
    ASSUME NEW key, NEW S, IsFiniteSet(S)
    PROVE  Sum(distribution(key, S)) = Cardinality(S)
<1> DEFINE K == {key[i] : i \in S}
           P == [k \in K |-> {i \in S : key[i] = k}]
<1>1. distribution(key, S) = [k \in K |-> Cardinality(P[k])]
  BY DEF distribution
<1>2. /\ \A k \in K : P[k] \subseteq S
      /\ \A k, l \in K : k # l => P[k] \cap P[l] = {}
      /\ \A i \in S : \E k \in K : i \in P[k]
  OBVIOUS
<1> HIDE DEF K, P
<1> QED BY <1>1, <1>2, PartsAddUp

(* The statistics count each image once in every field and batch, and no   *)
(* exported caption is that of an item left out (DatasetAddsUp).           *)
THEOREM DatasetComplete == DatasetAddsUp
<1>1. AllItems \in SUBSET Items /\ \A b \in Batches : Included(b) \subseteq Items
  BY DEF AllItems, PerBatch, Included, ItemsOf
<1>2. IsFiniteSet(AllItems)
  BY <1>1, Finite
<1>3. project_stats.total = Cardinality(AllItems)
  BY DEF project_stats
<1>4. Sum(project_stats.fields) = project_stats.total
        /\ Sum(project_stats.clothing) = project_stats.total
  BY <1>2, <1>3, DistributionAddsUp DEF project_stats
<1>5. Sum(project_stats.per_batch) = project_stats.total
  <2> DEFINE P == [b \in PerBatch |-> Included(b)]
  <2>1. project_stats.per_batch = [b \in PerBatch |-> Cardinality(P[b])]
    BY DEF project_stats
  <2>2. /\ \A b \in PerBatch : P[b] \subseteq AllItems
        /\ \A a, b \in PerBatch : a # b => P[a] \cap P[b] = {}
        /\ \A i \in AllItems : \E b \in PerBatch : i \in P[b]
    BY DEF AllItems, Included, ItemsOf
  <2> HIDE DEF P
  <2> QED BY <1>2, <1>3, <2>1, <2>2, PartsAddUp
<1>6. project_stats.approved >= Cardinality(UNION {Exportable(b) : b \in Batches})
  <2> DEFINE A == {i \in AllItems : row[i].state = "APPROVED"}
  <2>1. project_stats.approved = Cardinality(A)
    BY DEF project_stats
  <2>2. ASSUME NEW b \in Batches PROVE Exportable(b) \subseteq A
    BY DEF Exportable, AllItems, PerBatch, Included, INCLUDE_STATES
  <2>3. UNION {Exportable(b) : b \in Batches} \in SUBSET A
    BY <2>2
  <2>4. IsFiniteSet(A) /\ Cardinality(A) \in Nat
    BY <1>1, Finite
  <2>5. Cardinality(UNION {Exportable(b) : b \in Batches}) <= Cardinality(A)
    BY <2>3, <2>4, FS_Subset
  <2>6. UNION {Exportable(b) : b \in Batches} \in SUBSET Items
    BY <2>3, <1>1
  <2> QED BY <2>1, <2>4, <2>5, <2>6, Finite
<1> QED BY <1>4, <1>5, <1>6 DEF DatasetAddsUp

=============================================================================
