------------------------ MODULE ReviewExport_proofs ------------------------
(***************************************************************************)
(* Proofs about ReviewExport, for any batches, items, files and texts and  *)
(* any number of requests.                                                 *)
(***************************************************************************)
EXTENDS ReviewExport, TLAPS

-----------------------------------------------------------------------------
(* What the lane may make of a row: the caption to be exported is none of  *)
(* its business, and it approves nothing.                                  *)
Processed(i, r) ==
    /\ r \in Row /\ r.final = row[i].final
    /\ r.state = "APPROVED" => row[i].state = "APPROVED"

(* The parts of TypeOK that are about the lane.                            *)
LaneOK ==
    /\ pc \in {"idle"} \cup BatchSteps \cup ItemSteps
    /\ pc # "idle" => cur \in Batches
    /\ move \in Moves \cup {NoMove}
    /\ pc \in ItemSteps \/ move # NoMove => at \in Items
    /\ move # NoMove => pc \in ItemSteps \cup {"items"}
    /\ todo \subseteq Items

(* A step of the lane that writes a row.                                   *)
Writes == \E i \in Items, r \in Row : Processed(i, r) /\ Write(i, r)

LEMMA WritesRow ==
    ASSUME NEW i \in Items, NEW r, Processed(i, r), Write(i, r)
    PROVE  Writes
BY DEF Writes, Processed

LEMMA MoveWrites ==
    ASSUME TypeOK, WriteMove
    PROVE  Writes
<1>1. at \in Items /\ row[at] \in Row /\ move \in WrittenState \ {"APPROVED"}
  BY DEF WriteMove, TypeOK, Moves, WrittenState, ItemState
<1>2. Processed(at, [row[at] EXCEPT !.state = move])
  BY <1>1 DEF Processed, Row
<1> QED BY <1>1, <1>2, WritesRow DEF WriteMove

LEMMA AnalyseWrites ==
    ASSUME TypeOK, Analyse
    PROVE  Writes
<1>1. at \in Items /\ row[at] \in Row
  BY DEF Analyse, At, TypeOK, ItemSteps
<1>2. Processed(at, [row[at] EXCEPT !.analysed = TRUE])
  BY <1>1 DEF Processed, Row
<1> QED BY <1>1, <1>2, WritesRow DEF Analyse

LEMMA NormalizeWrites ==
    ASSUME TypeOK, Normalize
    PROVE  Writes
<1>1. at \in Items /\ row[at] \in Row
  BY DEF Normalize, At, TypeOK, ItemSteps
<1>2. PICK t \in Drafts : Write(at, [row[at] EXCEPT !.normalized = t])
  BY DEF Normalize
<1>3. Processed(at, [row[at] EXCEPT !.normalized = t])
  BY <1>1 DEF Processed, Row, Text, Captions
<1> QED BY <1>1, <1>2, <1>3, WritesRow

(* A step of the lane that reads the item's row for its next move.         *)
Reads == \E i \in Items, s \in Moves : Valid(i, s)

LEMMA EnterStepReads ==
    ASSUME TypeOK, NEW from \in ItemSteps, NEW to, NEW s \in Moves, EnterStep(from, to, s)
    PROVE  Reads
<1>1. at \in Items
  BY DEF EnterStep, At, TypeOK
<1> QED BY <1>1 DEF EnterStep, Reads

LEMMA RunItemStep ==
    ASSUME TypeOK, RunItem
    PROVE  Reads \/ Writes
<1>1. /\ {"context", "analyst", "analysed", "normalizer", "normalized", "check"} \subseteq ItemSteps
      /\ {"READING_CONTEXT", "ANALYZING", "NORMALIZING", "RULE_CHECK", "AWAITING_REVIEW",
          "ERROR", "QUEUED"} \subseteq Moves
  BY DEF ItemSteps, Moves
<1>2. CASE \E i \in Items : StartItem(i)
  BY <1>1, <1>2 DEF StartItem, Reads
<1>3. CASE \/ EnterStep("context", "analyst", "ANALYZING")
           \/ EnterStep("analysed", "normalizer", "NORMALIZING")
           \/ EnterStep("normalized", "check", "RULE_CHECK")
           \/ CheckItem
  BY <1>1, <1>3, EnterStepReads DEF CheckItem
<1>4. CASE ItemFails
  <2>1. PICK step \in {"context", "analyst", "normalizer", "check"}, s \in {"ERROR", "QUEUED"} :
            EnterStep(step, "items", s)
    BY <1>4 DEF ItemFails
  <2> QED BY <1>1, <2>1, EnterStepReads
<1> QED BY <1>2, <1>3, <1>4, MoveWrites, AnalyseWrites, NormalizeWrites DEF RunItem

(* What Lane does to the variables the properties are about.               *)
LEMMA LaneStep ==
    ASSUME TypeOK, Lane
    PROVE  /\ UNCHANGED <<file, req, accepted, locked, raced, issued>>
           /\ \/ Writes /\ UNCHANGED <<bstate, entries>>
              \/ /\ UNCHANGED <<row, touched>>
                 /\ entries' \in [Batches -> Nat]
                 /\ \/ UNCHANGED bstate
                    \/ \E s \in {"SCANNING", "PROCESSING", "AWAITING_REVIEW"} :
                          bstate' = [bstate EXCEPT ![cur] = s]
<1>1. CASE Writes
  BY <1>1 DEF Writes, Write
<1>2. CASE Reads
  BY <1>2 DEF Reads, Valid, history, TypeOK
<1>3. CASE \E b \in Batches : Dequeue(b)
  BY <1>3 DEF Dequeue, history, TypeOK
<1>4. CASE Scan \/ Enter
  BY <1>4 DEF Scan, Enter, ReadBatch, WriteBatch, history, TypeOK
<1>5. CASE SelectItems
  BY <1>5 DEF SelectItems, history, TypeOK
<1>6. CASE Leave
  BY <1>6 DEF Leave, ReadBatch, history, TypeOK
<1> QED
  BY <1>1, <1>2, <1>3, <1>4, <1>5, <1>6, RunItemStep DEF Lane

(* Where the lane stands.                                                  *)
LEMMA LaneStaysOK ==
    ASSUME TypeOK, Lane
    PROVE  LaneOK'
<1>1. LaneOK
  BY DEF TypeOK, LaneOK
<1>2. ASSUME NEW from \in ItemSteps \cup BatchSteps, NEW to \in {"items"} \cup ItemSteps,
             NEW s \in Moves, EnterStep(from, to, s), at \in Items
      PROVE  LaneOK'
  BY <1>1, <1>2 DEF EnterStep, At, Valid, LaneOK, ItemSteps, BatchSteps
<1>3. \A from \in ItemSteps : At(from) => at \in Items
  BY DEF TypeOK, At
<1>4. /\ {"context", "analyst", "analysed", "normalizer", "normalized", "check"} \subseteq ItemSteps
      /\ {"READING_CONTEXT", "ANALYZING", "NORMALIZING", "RULE_CHECK", "AWAITING_REVIEW",
          "ERROR", "QUEUED"} \subseteq Moves
  BY DEF ItemSteps, Moves
<1>5. ASSUME NEW from \in ItemSteps, NEW to \in {"items"} \cup ItemSteps, NEW s \in Moves,
             EnterStep(from, to, s)
      PROVE  LaneOK'
  BY <1>2, <1>3, <1>5 DEF EnterStep
<1>6. CASE \E b \in Batches : Dequeue(b)
  BY <1>1, <1>6 DEF Dequeue, LaneOK, BatchSteps, ItemSteps
<1>7. CASE Scan \/ Enter
  BY <1>1, <1>7 DEF Scan, Enter, ReadBatch, WriteBatch, EndRun, At, LaneOK, BatchSteps, ItemSteps
<1>8. CASE SelectItems
  BY <1>1, <1>8 DEF SelectItems, LaneOK, ItemsOf, BatchSteps, ItemSteps
<1>9. CASE Leave
  <2>1. pc \in {"items", "leaving"} /\ UNCHANGED move /\ (pc' = "leaving" \/ pc' = "idle")
    BY <1>9 DEF Leave, ReadBatch, EndRun, At
  <2>2. CASE pc = "items"
    BY <1>1, <1>9, <2>2 DEF Leave, ReadBatch, EndRun, At, LaneOK, BatchSteps, ItemSteps
  <2>3. CASE pc = "leaving"
    BY <1>1, <1>9, <2>3 DEF Leave, ReadBatch, EndRun, At, LaneOK, BatchSteps, ItemSteps
  <2> QED BY <2>1, <2>2, <2>3
<1>10. CASE \E i \in Items : StartItem(i)
  BY <1>1, <1>4, <1>10 DEF StartItem, Valid, At, LaneOK, BatchSteps, ItemSteps
<1>11. CASE \/ EnterStep("context", "analyst", "ANALYZING")
            \/ EnterStep("analysed", "normalizer", "NORMALIZING")
            \/ EnterStep("normalized", "check", "RULE_CHECK")
            \/ CheckItem
  BY <1>4, <1>5, <1>11 DEF CheckItem
<1>12. CASE ItemFails
  <2>1. PICK step \in {"context", "analyst", "normalizer", "check"}, s \in {"ERROR", "QUEUED"} :
            EnterStep(step, "items", s)
    BY <1>12 DEF ItemFails
  <2> QED BY <1>4, <1>5, <2>1
<1>13. CASE Analyse \/ Normalize
  BY <1>1, <1>13 DEF Analyse, Normalize, Write, At, LaneOK, ItemSteps
<1>14. CASE WriteMove
  BY <1>1, <1>14 DEF WriteMove, Write, LaneOK
<1> QED
  BY <1>6, <1>7, <1>8, <1>9, <1>10, <1>11, <1>12, <1>13, <1>14 DEF Lane, RunItem

-----------------------------------------------------------------------------
(* Requests.                                                               *)

\* What a request is going to write: only an ACCEPT sets a caption for the
\* export or approves an item, and only a REGENERATE clears one.
Sound(r) ==
    r.op = "review" => \A i \in r.items :
        /\ r.accept => r.new[i].final = r.text[i]
        /\ ~r.accept =>
              /\ r.new[i].state = "APPROVED" => r.read[i].state = "APPROVED"
              /\ \/ r.new[i].final = r.read[i].final
                 \/ r.new[i].final = None /\ r.new[i].state = "QUEUED"

\* A request that arrives is put in flight, and nothing else is written but
\* the queue.
Sent(c, r) == IsRequest(r) /\ Sound(r) /\ Begin(c, r) /\ entries' \in [Batches -> Nat]

LEMMA DecidedRow ==
    ASSUME NEW r \in Row, NEW d \in DOMAIN DecisionToState, NEW t \in Text
    PROVE  /\ Decided(r, d, t) \in Row
           /\ d = "ACCEPT" => Decided(r, d, t).final = t
           /\ d # "ACCEPT" => /\ Decided(r, d, t).state # "APPROVED"
                              /\ \/ Decided(r, d, t).final = r.final
                                 \/ /\ Decided(r, d, t).final = None
                                    /\ Decided(r, d, t).state = "QUEUED"
<1>1. d \in {"ACCEPT", "DROP", "SKIP", "REGENERATE"} /\ DecisionToState[d] \in WrittenState
  BY DEF DecisionToState, WrittenState, ItemState
<1>2. DecisionToState["REGENERATE"] = "QUEUED" /\ (d # "ACCEPT" => DecisionToState[d] # "APPROVED")
  BY <1>1 DEF DecisionToState
<1>3. None \in Text
  BY DEF Text
<1> HIDE DEF DecisionToState
<1>4. CASE d = "ACCEPT"
  BY <1>1, <1>4 DEF Decided, Row
<1>5. CASE d = "REGENERATE"
  BY <1>1, <1>2, <1>3, <1>5 DEF Decided, Row
<1>6. CASE d \in {"DROP", "SKIP"}
  BY <1>1, <1>2, <1>6 DEF Decided, Row
<1> QED BY <1>1, <1>4, <1>5, <1>6

LEMMA ReviewSent ==
    ASSUME TypeOK, NEW c \in Clients, NEW b \in Batches, NEW S \in SUBSET Items,
           NEW d \in DOMAIN DecisionToState, NEW t \in [S -> Text],
           BeginReview(c, b, S, d, t)
    PROVE  \E r : Sent(c, r)
<1> DEFINE new == [i \in S |-> Decided(row[i], d, t[i])]
           read == [i \in S |-> row[i]]
           r == [op |-> "review", batch |-> b, requeue |-> Requeues(b, d),
                 items |-> S, read |-> read, new |-> new,
                 accept |-> d = "ACCEPT", text |-> t]
<1>1. \A i \in S : row[i] \in Row /\ t[i] \in Text
  BY DEF TypeOK
<1>2. read \in [S -> Row] /\ new \in [S -> Row]
  BY <1>1, DecidedRow
<1>3. Requeues(b, d) \in BOOLEAN /\ (d = "ACCEPT") \in BOOLEAN
  BY DEF Requeues
<1>4. IsRequest(r)
  <2> HIDE DEF new, read
  <2>1. /\ r.op = "review" /\ r.batch = b /\ r.items = S /\ r.read = read
        /\ r.new = new /\ r.text = t
    OBVIOUS
  <2>2. r.requeue \in BOOLEAN /\ r.accept \in BOOLEAN
    BY <1>3
  <2> HIDE DEF r
  <2> QED BY <1>2, <2>1, <2>2 DEF IsRequest
<1>5. Sound(r)
  <2>1. \A i \in S : new[i] = Decided(row[i], d, t[i]) /\ read[i] = row[i]
    OBVIOUS
  <2>2. /\ r.op = "review" /\ r.items = S /\ r.read = read
        /\ r.new = new /\ r.text = t /\ (r.accept <=> d = "ACCEPT")
    OBVIOUS
  <2> HIDE DEF r, new, read
  <2>3. ASSUME NEW i \in S
        PROVE  /\ d = "ACCEPT" => new[i].final = t[i]
               /\ d # "ACCEPT" =>
                    /\ new[i].state = "APPROVED" => read[i].state = "APPROVED"
                    /\ \/ new[i].final = read[i].final
                       \/ new[i].final = None /\ new[i].state = "QUEUED"
    BY <1>1, <2>1, DecidedRow
  <2> QED BY <2>2, <2>3 DEF Sound
<1>6. Begin(c, r) /\ entries' \in [Batches -> Nat]
  BY DEF BeginReview, TypeOK
<1> QED
  <2> HIDE DEF r
  <2> QED BY <1>4, <1>5, <1>6 DEF Sent

LEMMA SaveSent ==
    ASSUME TypeOK, NEW c \in Clients, NEW i \in Items, NEW t \in Edits, SaveCaption(c, i, t)
    PROVE  \E r : Sent(c, r)
<1> DEFINE read == [j \in {i} |-> row[i]]
           new == [j \in {i} |-> [row[i] EXCEPT !.normalized = t]]
           text == [j \in {i} |-> None]
           r == [op |-> "review", batch |-> Owner[i], requeue |-> FALSE,
                 items |-> {i}, read |-> read, new |-> new, accept |-> FALSE, text |-> text]
<1>1. read \in [{i} -> Row] /\ new \in [{i} -> Row] /\ text \in [{i} -> Text]
  BY DEF TypeOK, Row, Text, Captions
<1>2. new[i].final = read[i].final /\ new[i].state = read[i].state
  BY DEF TypeOK, Row
<1>3. Begin(c, r) /\ entries' \in [Batches -> Nat]
  BY DEF SaveCaption, TypeOK
<1> HIDE DEF read, new, text
<1>4. IsRequest(r) /\ Sound(r)
  BY <1>1, <1>2, OwnerAssumption DEF IsRequest, Sound
<1> QED
  <2> HIDE DEF r
  <2> QED BY <1>3, <1>4 DEF Sent

LEMMA ExportSent ==
    ASSUME TypeOK, NEW c \in Clients, NEW b \in Batches, BeginExport(c, b)
    PROVE  \E r : Sent(c, r)
<1> DEFINE r == [op |-> "export", batch |-> b]
<1>1. IsRequest(r) /\ Sound(r)
  BY DEF IsRequest, Sound
<1>2. Begin(c, r) /\ entries' \in [Batches -> Nat]
  BY DEF BeginExport, TypeOK
<1> QED
  <2> HIDE DEF r
  <2> QED BY <1>1, <1>2 DEF Sent

LEMMA ArrivesSends ==
    ASSUME TypeOK, NEW c \in Clients, Arrives(c)
    PROVE  \E r : Sent(c, r)
<1>1. ASSUME NEW i \in Items, NEW d \in DOMAIN DecisionToState, DecideItem(c, i, d)
      PROVE  \E r : Sent(c, r)
  <2> DEFINE texts == IF d = "ACCEPT" THEN Edits \cup {row[i].normalized} ELSE {None}
  <2>0. texts \subseteq Text
    BY DEF TypeOK, Row, Text, Captions
  <2>1. PICK t \in texts : BeginReview(c, Owner[i], {i}, d, [j \in {i} |-> t])
    BY <1>1 DEF DecideItem
  <2>2. [j \in {i} |-> t] \in [{i} -> Text] /\ Owner[i] \in Batches /\ {i} \in SUBSET Items
    BY <2>0, OwnerAssumption
  <2> QED BY <2>1, <2>2, ReviewSent
<1>2. ASSUME NEW b \in Batches, NEW d \in DOMAIN DecisionToState, MassDecide(c, b, d)
      PROVE  \E r : Sent(c, r)
  <2>1. \A S \in Selections(b) : S \subseteq Items
    BY DEF Selections, ItemsOf
  <2> DEFINE texts(S) == [i \in S |-> IF d = "ACCEPT" THEN row[i].normalized ELSE None]
  <2>2. PICK S \in Selections(b) : \E taken \in (IF d = "ACCEPT" THEN SUBSET S ELSE {S}) :
            BeginReview(c, b, taken, d, texts(taken))
    BY <1>2 DEF MassDecide
  <2>3. PICK taken \in SUBSET S : BeginReview(c, b, taken, d, texts(taken))
    BY <2>2
  <2>4. taken \in SUBSET Items
    BY <2>1
  <2>5. texts(taken) \in [taken -> Text]
    BY <2>4 DEF TypeOK, Row, Text
  <2> QED
    <3> HIDE DEF texts
    <3> QED BY <2>3, <2>4, <2>5, ReviewSent
<1> QED
  BY <1>1, <1>2, SaveSent, ExportSent DEF Arrives

-----------------------------------------------------------------------------
(* Type correctness.                                                       *)

LEMMA TypeInit == Init => TypeOK
<1> SUFFICES ASSUME Init PROVE TypeOK
  OBVIOUS
<1>1. NewRow \in Row /\ None \in Text
  BY DEF NewRow, Row, Text, WrittenState, ItemState
<1>2. req = [c \in Clients |-> req[c]] /\ \A c \in Clients : req[c] = NoReq
  BY DEF Init
<1>3. /\ bstate \in [Batches -> {"QUEUED", "SCANNING", "PROCESSING", "AWAITING_REVIEW", "DONE"}]
      /\ row \in [Items -> Row] /\ file \in [Paths -> Text \cup {Torn}]
      /\ entries \in [Batches -> Nat]
      /\ accepted \in [Items -> SUBSET Text] /\ locked \in [Items -> Text]
  BY <1>1 DEF Init
<1> QED BY <1>2, <1>3 DEF Init, TypeOK, ItemSteps

(* The requests in flight after one has come or gone.                      *)
LEMMA ReqTyped ==
    ASSUME TypeOK, NEW c \in Clients, NEW r, r = NoReq \/ IsRequest(r),
           req' = [req EXCEPT ![c] = r]
    PROVE  /\ req' = [d \in Clients |-> req'[d]]
           /\ \A d \in Clients : req'[d] = NoReq \/ IsRequest(req'[d])
BY DEF TypeOK

LEMMA MergeRow ==
    ASSUME NEW now \in Row, NEW read \in Row, NEW new \in Row
    PROVE  /\ Merge(now, read, new) \in Row
           /\ Merge(now, read, new).final =
                 IF new.final = read.final THEN now.final ELSE new.final
           /\ Merge(now, read, new).state =
                 IF new.state = read.state THEN now.state ELSE new.state
BY DEF Merge, Row

LEMMA ReviewRequest ==
    ASSUME TypeOK, NEW c \in Clients, req[c].op = "review"
    PROVE  /\ IsRequest(req[c]) /\ req[c].items \subseteq Items /\ req[c].batch \in Batches
           /\ \A i \in req[c].items :
                 /\ req[c].read[i] \in Row /\ req[c].new[i] \in Row /\ req[c].text[i] \in Text
<1>1. NoReq.op # "review"
  BY DEF NoReq
<1>2. IsRequest(req[c])
  BY <1>1 DEF TypeOK
<1> QED BY <1>2 DEF IsRequest

LEMMA ExportRequest ==
    ASSUME TypeOK, NEW c \in Clients, req[c].op = "export"
    PROVE  req[c].batch \in Batches
<1>1. NoReq.op # "export"
  BY DEF NoReq
<1> QED BY <1>1 DEF TypeOK, IsRequest

LEMMA TypeStep == TypeOK /\ [Next]_vars => TypeOK'
<1> SUFFICES ASSUME TypeOK, [Next]_vars PROVE TypeOK'
  OBVIOUS
<1>1. CASE Lane
  <2>1. LaneOK'
    BY <1>1, LaneStaysOK
  <2>2. CASE Writes /\ UNCHANGED <<bstate, entries>>
    <3>1. PICK i \in Items, r \in Row : Processed(i, r) /\ Write(i, r)
      BY <2>2 DEF Writes
    <3>2. row' \in [Items -> Row] /\ touched' \subseteq Items
      BY <3>1 DEF Processed, Write, TypeOK
    <3> QED BY <1>1, <2>1, <2>2, <3>2, LaneStep DEF TypeOK, LaneOK
  <2>3. CASE /\ UNCHANGED <<row, touched>>
             /\ entries' \in [Batches -> Nat]
             /\ \/ UNCHANGED bstate
                \/ \E s \in {"SCANNING", "PROCESSING", "AWAITING_REVIEW"} :
                      bstate' = [bstate EXCEPT ![cur] = s]
    <3>1. bstate' \in [Batches -> {"QUEUED", "SCANNING", "PROCESSING", "AWAITING_REVIEW", "DONE"}]
      BY <2>3 DEF TypeOK
    <3> QED BY <1>1, <2>1, <2>3, <3>1, LaneStep DEF TypeOK, LaneOK
  <2> QED BY <1>1, <2>2, <2>3, LaneStep
<1>2. ASSUME NEW c \in Clients, Arrives(c)
      PROVE  TypeOK'
  <2>1. PICK r : Sent(c, r)
    BY <1>2, ArrivesSends
  <2>2. /\ req' = [d \in Clients |-> req'[d]]
        /\ \A d \in Clients : req'[d] = NoReq \/ IsRequest(req'[d])
    BY <2>1, ReqTyped DEF Sent, Begin
  <2> QED BY <2>1, <2>2 DEF Sent, Begin, lane, TypeOK
<1>3. ASSUME NEW c \in Clients, CommitReview(c)
      PROVE  TypeOK'
  <2> DEFINE r == req[c]
  <2>1. /\ r.items \subseteq Items /\ r.batch \in Batches
        /\ \A i \in r.items : r.read[i] \in Row /\ r.new[i] \in Row /\ r.text[i] \in Text
    BY <1>3, ReviewRequest DEF CommitReview
  <2>2. /\ req' = [d \in Clients |-> req'[d]]
        /\ \A d \in Clients : req'[d] = NoReq \/ IsRequest(req'[d])
    BY <1>3, ReqTyped DEF CommitReview
  <2>3. row' \in [Items -> Row]
    BY <1>3, <2>1, MergeRow DEF CommitReview, TypeOK
  <2>4. accepted' \in [Items -> SUBSET Text] /\ locked' \in [Items -> Text]
    BY <1>3, <2>1 DEF CommitReview, TypeOK
  <2>5. bstate' \in [Batches -> {"QUEUED", "SCANNING", "PROCESSING", "AWAITING_REVIEW", "DONE"}]
    BY <1>3, <2>1 DEF CommitReview, TypeOK
  <2>6. raced' \subseteq Items /\ touched' \subseteq Items
    BY <1>3, <2>1 DEF CommitReview, TypeOK
  <2> QED BY <1>3, <2>2, <2>3, <2>4, <2>5, <2>6 DEF CommitReview, lane, TypeOK
<1>4. ASSUME NEW c \in Clients, Export(c)
      PROVE  TypeOK'
  <2>1. req[c].batch \in Batches
    BY <1>4, ExportRequest DEF Export
  <2>2. /\ req' = [d \in Clients |-> req'[d]]
        /\ \A d \in Clients : req'[d] = NoReq \/ IsRequest(req'[d])
    BY <1>4, ReqTyped DEF Export
  <2>3. file' \in [Paths -> Text \cup {Torn}]
    BY <1>4 DEF Export, Contents
  <2>4. bstate' \in [Batches -> {"QUEUED", "SCANNING", "PROCESSING", "AWAITING_REVIEW", "DONE"}]
    BY <1>4, <2>1 DEF Export, TypeOK
  <2>5. touched' \subseteq Items
    BY <1>4 DEF Export, ItemsOf, TypeOK
  <2> QED BY <1>4, <2>2, <2>3, <2>4, <2>5 DEF Export, lane, TypeOK
<1>5. ASSUME NEW c \in Clients, ExportFails(c)
      PROVE  TypeOK'
  <2>1. /\ req' = [d \in Clients |-> req'[d]]
        /\ \A d \in Clients : req'[d] = NoReq \/ IsRequest(req'[d])
    BY <1>5, ReqTyped DEF ExportFails
  <2>2. file' \in [Paths -> Text \cup {Torn}]
    BY <1>5 DEF ExportFails, Contents
  <2> QED BY <1>5, <2>1, <2>2 DEF ExportFails, lane, history, TypeOK
<1>6. ASSUME NEW c \in Clients, RollBack(c)
      PROVE  TypeOK'
  <2>1. /\ req' = [d \in Clients |-> req'[d]]
        /\ \A d \in Clients : req'[d] = NoReq \/ IsRequest(req'[d])
    BY <1>6, ReqTyped DEF RollBack
  <2> QED BY <1>6, <2>1 DEF RollBack, lane, history, TypeOK
<1>7. CASE UNCHANGED vars
  BY <1>7 DEF vars, lane, history, TypeOK
<1> QED BY <1>1, <1>2, <1>3, <1>4, <1>5, <1>6, <1>7 DEF Next, Handler

(* Rows, requests and the bookkeeping about them keep their types, and the *)
(* lane is where its step says (TypeOK).                                   *)
THEOREM TypeCorrect == Spec => []TypeOK
BY TypeInit, TypeStep, PTL DEF Spec

-----------------------------------------------------------------------------
(* The requests in flight are sound, and a step is one of five kinds.      *)
Requests == \A c \in Clients : Sound(req[c])

StaysDone == \A b \in Batches : bstate'[b] = "DONE" => bstate[b] = "DONE"

\* Nothing the properties are about is written.
Quiet == UNCHANGED <<row, file, accepted, locked, raced, touched>> /\ StaysDone

\* The lane writes a row.
LaneWrites == Writes /\ UNCHANGED <<bstate, file, accepted, locked, raced>>

LEMMA Kinds ==
    ASSUME TypeOK, [Next]_vars
    PROVE  \/ Quiet \/ LaneWrites
           \/ \E c \in Clients : CommitReview(c) \/ Export(c) \/ ExportFails(c)
<1>1. CASE Lane
  <2>1. ASSUME \E s \in {"SCANNING", "PROCESSING", "AWAITING_REVIEW"} : bstate' = [bstate EXCEPT ![cur] = s]
        PROVE  StaysDone
    BY <2>1 DEF StaysDone, TypeOK
  <2> QED BY <1>1, <2>1, LaneStep DEF Quiet, StaysDone, LaneWrites
<1>2. ASSUME NEW c \in Clients, Arrives(c)
      PROVE  Quiet
  <2>1. PICK r : Sent(c, r)
    BY <1>2, ArrivesSends
  <2> QED BY <2>1 DEF Sent, Begin, Quiet, StaysDone
<1>3. CASE \E c \in Clients : RollBack(c)
  BY <1>3 DEF RollBack, history, Quiet, StaysDone
<1>4. CASE UNCHANGED vars
  BY <1>4 DEF vars, history, Quiet, StaysDone
<1> QED BY <1>1, <1>2, <1>3, <1>4 DEF Next, Handler

LEMMA NoReqSound == Sound(NoReq)
BY DEF Sound, NoReq

LEMMA RequestsStep == TypeOK /\ Requests /\ [Next]_vars => Requests'
<1> SUFFICES ASSUME TypeOK, Requests, [Next]_vars PROVE Requests'
  OBVIOUS
<1>1. ASSUME NEW c \in Clients, NEW r, Sound(r), req' = [req EXCEPT ![c] = r]
      PROVE  Requests'
  BY <1>1 DEF Requests, TypeOK
<1>2. ASSUME NEW c \in Clients, Arrives(c)
      PROVE  Requests'
  <2>1. PICK r : Sent(c, r)
    BY <1>2, ArrivesSends
  <2> QED BY <1>1, <2>1 DEF Sent, Begin
<1>3. ASSUME NEW c \in Clients, CommitReview(c) \/ Export(c) \/ ExportFails(c) \/ RollBack(c)
      PROVE  Requests'
  BY <1>1, <1>3, NoReqSound DEF CommitReview, Export, ExportFails, RollBack
<1>4. CASE Lane \/ UNCHANGED vars
  <2>1. UNCHANGED req
    BY <1>4, LaneStep DEF vars
  <2> QED BY <2>1 DEF Requests
<1> QED BY <1>2, <1>3, <1>4 DEF Next, Handler

-----------------------------------------------------------------------------
(* Nothing reaches a file that was not accepted.                           *)

\* The caption an item would be exported with was accepted for it.
FinalAccepted ==
    \A i \in Items : row[i].final # None => row[i].final \in accepted[i]

LEMMA FinalAcceptedStep ==
    TypeOK /\ Requests /\ FinalAccepted /\ [Next]_vars => FinalAccepted'
<1> SUFFICES ASSUME TypeOK, Requests, FinalAccepted, [Next]_vars PROVE FinalAccepted'
  OBVIOUS
<1>1. CASE Quiet
  BY <1>1 DEF Quiet, FinalAccepted
<1>2. CASE LaneWrites
  BY <1>2 DEF LaneWrites, Writes, Write, Processed, FinalAccepted, TypeOK
<1>3. ASSUME NEW c \in Clients, CommitReview(c)
      PROVE  FinalAccepted'
  <2> DEFINE r == req[c]
  <2>1. \A i \in r.items : r.read[i] \in Row /\ r.new[i] \in Row
    BY <1>3, ReviewRequest DEF CommitReview
  <2>2. ASSUME NEW i \in r.items, i \in Items, row'[i].final # None
        PROVE  row'[i].final \in accepted'[i]
    <3>1. row'[i].final = IF r.new[i].final = r.read[i].final THEN row[i].final
                                                            ELSE r.new[i].final
      BY <1>3, <2>1, <2>2, MergeRow DEF CommitReview, TypeOK
    <3>2. /\ r.accept => accepted'[i] = accepted[i] \cup {r.text[i]}
          /\ ~r.accept => accepted'[i] = accepted[i]
      BY <1>3, <2>2 DEF CommitReview
    <3>3. /\ r.accept => r.new[i].final = r.text[i]
          /\ ~r.accept => r.new[i].final \in {r.read[i].final, None}
      BY <1>3, <2>2 DEF CommitReview, Requests, Sound
    <3> QED BY <2>2, <3>1, <3>2, <3>3 DEF FinalAccepted
  <2>3. ASSUME NEW i \in Items \ r.items
        PROVE  row'[i] = row[i] /\ accepted'[i] = accepted[i]
    BY <1>3 DEF CommitReview
  <2> QED BY <2>2, <2>3 DEF FinalAccepted
<1>4. CASE \E c \in Clients : Export(c) \/ ExportFails(c)
  BY <1>4 DEF Export, ExportFails, history, FinalAccepted
<1> QED BY <1>1, <1>2, <1>3, <1>4, Kinds

\* What export_batch has written is what was there or was accepted.
LEMMA WrittenAccepted ==
    ASSUME FinalAccepted, ExportedWasAccepted, NEW b, NEW S \in SUBSET Exportable(b),
           NEW f, Written(S, f), NEW p \in Paths, f[p] \in Captions
    PROVE  \E i \in Items : Path[i] = p /\ f[p] \in accepted[i]
<1>1. S \subseteq Items /\ \A i \in S : row[i].final # None
  BY DEF Exportable, ItemsOf
<1>2. f[p] = file[p] \/ \E i \in S : Path[i] = p /\ f[p] = row[i].final
  BY DEF Written, ExportText
<1> QED BY <1>1, <1>2 DEF FinalAccepted, ExportedWasAccepted

LEMMA ExportedStep ==
    TypeOK /\ Requests /\ FinalAccepted /\ ExportedWasAccepted /\ [Next]_vars
        => ExportedWasAccepted'
<1> SUFFICES ASSUME TypeOK, Requests, FinalAccepted, ExportedWasAccepted, [Next]_vars
             PROVE  ExportedWasAccepted'
  OBVIOUS
<1>1. CASE Quiet \/ LaneWrites
  BY <1>1 DEF Quiet, LaneWrites, ExportedWasAccepted
<1>2. ASSUME NEW c \in Clients, CommitReview(c)
      PROVE  ExportedWasAccepted'
  <2>1. UNCHANGED file /\ \A i \in Items : accepted[i] \subseteq accepted'[i]
    BY <1>2 DEF CommitReview
  <2> QED BY <2>1 DEF ExportedWasAccepted
<1>3. ASSUME NEW c \in Clients, Export(c)
      PROVE  ExportedWasAccepted'
  <2>1. PICK f \in Contents : Written(Exportable(req[c].batch), f) /\ file' = f
    BY <1>3 DEF Export
  <2>2. UNCHANGED accepted
    BY <1>3 DEF Export
  <2> QED BY <2>1, <2>2, WrittenAccepted DEF ExportedWasAccepted
<1>4. ASSUME NEW c \in Clients, ExportFails(c)
      PROVE  ExportedWasAccepted'
  <2> DEFINE b == req[c].batch
  <2>1. PICK S \in SUBSET Exportable(b), f \in Contents :
            /\ Written(S, f)
            /\ file' = f \/ \E i \in Exportable(b) : file' = [f EXCEPT ![Path[i]] = Torn]
    BY <1>4 DEF ExportFails
  <2>2. UNCHANGED accepted
    BY <1>4 DEF ExportFails, history
  <2>3. \A p \in Paths : file'[p] \in Captions => file'[p] = f[p]
    BY <2>1, TextAssumption DEF Contents, Captions
  <2> QED BY <2>1, <2>2, <2>3, WrittenAccepted DEF ExportedWasAccepted
<1> QED BY <1>1, <1>2, <1>3, <1>4, Kinds

-----------------------------------------------------------------------------
(* The files of a finished batch are those of its rows.                    *)

LEMMA Untouched ==
    ASSUME TypeOK, LaneWrites \/ (\E c \in Clients : CommitReview(c)),
           NEW i \in Items, i \notin touched'
    PROVE  i \notin touched /\ row'[i] = row[i]
<1>1. CASE LaneWrites
  BY <1>1 DEF LaneWrites, Writes, Write, TypeOK
<1>2. CASE \E c \in Clients : CommitReview(c)
  BY <1>2 DEF CommitReview
<1> QED BY <1>1, <1>2

LEMMA ReviewStaysDone ==
    ASSUME NEW c \in Clients, CommitReview(c), TypeOK
    PROVE  StaysDone
BY ReviewRequest DEF CommitReview, StaysDone, TypeOK

LEMMA FilesStep == TypeOK /\ DoneFilesCurrent /\ [Next]_vars => DoneFilesCurrent'
<1> SUFFICES ASSUME TypeOK, DoneFilesCurrent, [Next]_vars,
                    NEW i \in Items, bstate'[Owner[i]] = "DONE", i \notin touched',
                    row'[i].state = "APPROVED", row'[i].final # None,
                    \A j \in Items : Path[j] = Path[i] => j = i
             PROVE  file'[Path[i]] \in {row'[i].final, Torn}
  BY DEF DoneFilesCurrent
<1>1. Path[i] \in Paths /\ Owner[i] \in Batches
  BY OwnerAssumption DEF Paths
<1>2. CASE Quiet
  BY <1>1, <1>2 DEF Quiet, StaysDone, DoneFilesCurrent
<1>3. CASE LaneWrites
  BY <1>1, <1>3, Untouched DEF LaneWrites, DoneFilesCurrent
<1>4. ASSUME NEW c \in Clients, CommitReview(c)
      PROVE  file'[Path[i]] \in {row'[i].final, Torn}
  <2>1. i \notin touched /\ row'[i] = row[i] /\ bstate[Owner[i]] = "DONE"
    BY <1>1, <1>4, Untouched, ReviewStaysDone DEF StaysDone
  <2>2. UNCHANGED file
    BY <1>4 DEF CommitReview
  <2> QED BY <2>1, <2>2 DEF DoneFilesCurrent
\* The item is the only one whose caption can be in its file.
<1>5. ASSUME NEW b, NEW S \in SUBSET Exportable(b), NEW f, Written(S, f)
      PROVE  f[Path[i]] = IF i \in S THEN row[i].final ELSE file[Path[i]]
  <2>1. S \subseteq Items
    BY DEF Exportable, ItemsOf
  <2>2. {j \in S : Path[j] = Path[i]} = IF i \in S THEN {i} ELSE {}
    BY <2>1
  <2> QED BY <1>1, <1>5, <2>2 DEF Written, ExportText
<1>6. ASSUME NEW c \in Clients, Export(c)
      PROVE  file'[Path[i]] \in {row'[i].final, Torn}
  <2> DEFINE b == req[c].batch
  <2>1. PICK f \in Contents : Written(Exportable(b), f) /\ file' = f
    BY <1>6 DEF Export
  <2>2. UNCHANGED row
    BY <1>6 DEF Export
  <2>3. CASE Owner[i] = b
    <3>1. i \in Exportable(b)
      BY <2>2, <2>3 DEF Exportable, ItemsOf
    <3> QED BY <1>5, <2>1, <2>2, <3>1
  <2>4. CASE Owner[i] # b
    <3>1. i \notin Exportable(b) /\ i \notin touched /\ bstate[Owner[i]] = "DONE"
      BY <1>1, <1>6, <2>4, ExportRequest DEF Export, Exportable, ItemsOf, TypeOK
    <3> QED BY <1>5, <2>1, <2>2, <3>1 DEF DoneFilesCurrent
  <2> QED BY <2>3, <2>4
<1>7. ASSUME NEW c \in Clients, ExportFails(c)
      PROVE  file'[Path[i]] \in {row'[i].final, Torn}
  <2> DEFINE b == req[c].batch
  <2>1. PICK S \in SUBSET Exportable(b), f \in Contents :
            /\ Written(S, f)
            /\ file' = f \/ \E k \in Exportable(b) : file' = [f EXCEPT ![Path[k]] = Torn]
    BY <1>7 DEF ExportFails
  <2>2. UNCHANGED <<row, bstate, touched>>
    BY <1>7 DEF ExportFails, history
  <2>3. f[Path[i]] \in {row[i].final, Torn}
    BY <1>5, <2>1, <2>2 DEF DoneFilesCurrent
  <2> QED BY <1>1, <2>1, <2>2, <2>3 DEF Contents
<1> QED BY <1>2, <1>3, <1>4, <1>6, <1>7, Kinds

-----------------------------------------------------------------------------
(* The caption exported is the one the approval locked in.                 *)

LEMMA LocksStep ==
    TypeOK /\ Requests /\ ApprovalLocksCaption /\ [Next]_vars => ApprovalLocksCaption'
<1> SUFFICES ASSUME TypeOK, Requests, ApprovalLocksCaption, [Next]_vars,
                    NEW i \in Items, i \notin raced', row'[i].state = "APPROVED"
             PROVE  row'[i].final = locked'[i]
  BY DEF ApprovalLocksCaption
<1>1. CASE Quiet
  BY <1>1 DEF Quiet, ApprovalLocksCaption
<1>2. CASE LaneWrites
  BY <1>2 DEF LaneWrites, Writes, Write, Processed, ApprovalLocksCaption, TypeOK
<1>3. ASSUME NEW c \in Clients, CommitReview(c)
      PROVE  row'[i].final = locked'[i]
  <2> DEFINE r == req[c]
  <2>1. i \notin raced
    BY <1>3 DEF CommitReview
  <2>2. CASE i \notin r.items
    BY <1>3, <2>1, <2>2 DEF CommitReview, ApprovalLocksCaption
  <2>3. CASE i \in r.items
    <3>1. /\ row'[i].final = IF r.new[i].final = r.read[i].final THEN row[i].final
                                                               ELSE r.new[i].final
          /\ row'[i].state = IF r.new[i].state = r.read[i].state THEN row[i].state
                                                               ELSE r.new[i].state
      BY <1>3, <2>3, ReviewRequest, MergeRow DEF CommitReview, TypeOK
    <3>2. ~LosesColumn(r, i)
      BY <1>3, <2>3 DEF CommitReview
    <3>3. CASE r.accept
      <4>1. locked'[i] = r.text[i] /\ r.new[i].final = r.text[i]
        BY <1>3, <2>3, <3>3 DEF CommitReview, Requests, Sound
      <4> QED BY <3>1, <3>2, <3>3, <4>1 DEF LosesColumn
    <3>4. CASE ~r.accept
      <4>1. locked'[i] = locked[i]
        BY <1>3, <3>4 DEF CommitReview
      <4>2. /\ r.new[i].state = "APPROVED" => r.read[i].state = "APPROVED"
            /\ \/ r.new[i].final = r.read[i].final
               \/ r.new[i].final = None /\ r.new[i].state = "QUEUED"
        BY <1>3, <2>3, <3>4 DEF CommitReview, Requests, Sound
      <4>3. row[i].state = "APPROVED" /\ row'[i].final = row[i].final
        BY <3>1, <3>2, <3>4, <4>2 DEF LosesColumn
      <4> QED BY <2>1, <4>1, <4>3 DEF ApprovalLocksCaption
    <3> QED BY <3>3, <3>4
  <2> QED BY <2>2, <2>3
<1>4. CASE \E c \in Clients : Export(c) \/ ExportFails(c)
  BY <1>4 DEF Export, ExportFails, history, ApprovalLocksCaption
<1> QED BY <1>1, <1>2, <1>3, <1>4, Kinds

-----------------------------------------------------------------------------
(* The theorems.                                                           *)
IInv ==
    /\ TypeOK /\ Requests /\ FinalAccepted
    /\ ExportedWasAccepted /\ DoneFilesCurrent /\ ApprovalLocksCaption

LEMMA InitInvariant == Init => IInv
<1> SUFFICES ASSUME Init PROVE IInv
  OBVIOUS
<1>1. TypeOK /\ Requests
  BY TypeInit, NoReqSound DEF Init, Requests
<1>2. \A i \in Items : row[i] = NewRow /\ NewRow.final = None /\ NewRow.state # "APPROVED"
  BY DEF Init, NewRow
<1>3. FinalAccepted /\ ApprovalLocksCaption
  BY <1>2 DEF FinalAccepted, ApprovalLocksCaption
<1>4. ExportedWasAccepted
  BY TextAssumption DEF Init, ExportedWasAccepted, Captions
<1>5. DoneFilesCurrent
  BY OwnerAssumption DEF Init, DoneFilesCurrent
<1> QED BY <1>1, <1>3, <1>4, <1>5 DEF IInv

LEMMA Invariant == Spec => []IInv
<1>1. IInv /\ [Next]_vars => IInv'
  BY TypeStep, RequestsStep, FinalAcceptedStep, ExportedStep, FilesStep, LocksStep DEF IInv
<1> QED BY <1>1, InitInvariant, PTL DEF Spec

(* Only what the user accepted for an item stands in its caption file      *)
(* (ExportedWasAccepted).                                                  *)
THEOREM OnlyAcceptedIsExported == Spec => []ExportedWasAccepted
<1>1. IInv => ExportedWasAccepted
  BY DEF IInv
<1> QED BY <1>1, Invariant, PTL

(* The files of a finished batch have the captions of its rows, exports    *)
(* that fail or overlap included (DoneFilesCurrent).                       *)
THEOREM FilesMatchRows == Spec => []DoneFilesCurrent
<1>1. IInv => DoneFilesCurrent
  BY DEF IInv
<1> QED BY <1>1, Invariant, PTL

(* An approved item is exported with the caption its last approval locked  *)
(* in (ApprovalLocksCaption).                                              *)
THEOREM ApprovalIsLocked == Spec => []ApprovalLocksCaption
<1>1. IInv => ApprovalLocksCaption
  BY DEF IInv
<1> QED BY <1>1, Invariant, PTL

=============================================================================
