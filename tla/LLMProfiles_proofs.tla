------------------------- MODULE LLMProfiles_proofs -------------------------
(***************************************************************************)
(* Proofs about LLMProfiles, for any profiles and clients, on a database   *)
(* with a single writer.                                                   *)
(***************************************************************************)
EXTENDS LLMProfiles, TLAPS

(* The inductive invariant: what an open transaction has cleared is, until *)
(* it commits, every other active profile, because nobody else can write.  *)
Open ==
    /\ \A c \in Clients : req[c].op \in {"activate", "delete"} => req[c].profile \in Profiles
    /\ \A c, d \in Clients : req[c].open /\ req[d].open => c = d
    /\ \A c \in Clients : req[c].open =>
          req[c].op = "activate" /\ req[c].cleared = ActiveOthers(req[c].profile)

IInv == TypeOK /\ Open /\ AtMostOneActive /\ ActiveIsApplied

LEMMA InitInvariant == Init => IInv
BY ParametersAssumption, ProfilesAssumption
   DEF Init, IInv, TypeOK, Open, AtMostOneActive, ActiveIsApplied, NoReq, Request, Blocks, Origin

(* A request that begins changes nothing but its own entry.                *)
LEMMA BeginKeeps ==
    ASSUME IInv, NEW c \in Clients, NEW r \in Request, Begin(c, r),
           ~r.open, r.cleared = {},
           r.op \in {"activate", "delete"} => r.profile \in Profiles
    PROVE  IInv'
<1>1. req' = [req EXCEPT ![c] = r] /\ UNCHANGED <<row, config>>
  BY DEF Begin
<1>2. \A d \in Clients : req'[d] = IF d = c THEN r ELSE req[d]
  BY <1>1 DEF IInv, TypeOK
<1>3. TypeOK'
  BY <1>1, <1>2, ParametersAssumption DEF IInv, TypeOK, Begin
<1>4. Open'
  BY <1>1, <1>2 DEF IInv, Open, ActiveOthers
<1> QED BY <1>1, <1>3, <1>4 DEF IInv, AtMostOneActive, ActiveIsApplied

(* A request that ends without having written leaves the rest alone.       *)
LEMMA EndKeeps ==
    ASSUME IInv, NEW c \in Clients, End(c), UNCHANGED <<row, config>>
    PROVE  IInv'
<1>1. \A d \in Clients : req'[d] = IF d = c THEN NoReq ELSE req[d]
  BY DEF End, IInv, TypeOK
<1>2. TypeOK'
  BY <1>1 DEF IInv, TypeOK, End, NoReq
<1>3. Open'
  BY <1>1 DEF IInv, Open, ActiveOthers, NoReq
<1> QED BY <1>2, <1>3 DEF IInv, AtMostOneActive, ActiveIsApplied

(* The commit of an activation: the profile alone can be active, and the   *)
(* whole configuration is its.                                             *)
LEMMA ActivationKeeps ==
    ASSUME IInv, NEW c \in Clients, CommitActivate(c)
    PROVE  IInv'
<1> DEFINE p == req[c].profile
<1>1. p \in Profiles /\ req[c] \in Request /\ req[c].op = "activate" /\ req[c].open
  BY DEF CommitActivate, IInv, TypeOK, Open, NoReq
<1>2. req[c].cleared = ActiveOthers(p)
  BY <1>1 DEF IInv, Open
<1>3. \A q \in Profiles : row'[q] = "ACTIVE" => q = p
  BY <1>1, <1>2 DEF CommitActivate, ActiveOthers, IInv, TypeOK
<1>4. \A k \in Blocks : config'[k] = p
  BY <1>1 DEF CommitActivate, AppliedBlocks, Blocks
<1>5. \A d \in Clients : req'[d] = IF d = c THEN NoReq ELSE req[d]
  BY DEF CommitActivate, End, IInv, TypeOK
<1>6. TypeOK'
  <2>1. row' \in [Profiles -> {"UNBORN", "INACTIVE", "ACTIVE", "DELETED"}]
    BY <1>1 DEF CommitActivate, IInv, TypeOK
  <2>2. config' \in [Blocks -> Origin]
    BY <1>1 DEF CommitActivate, IInv, TypeOK, Origin
  <2> QED BY <2>1, <2>2, <1>5 DEF CommitActivate, End, IInv, TypeOK, NoReq
<1>7. Open'
  <2>1. \A d \in Clients : ~req'[d].open
    BY <1>1, <1>5 DEF IInv, Open, NoReq
  <2> QED BY <2>1, <1>5 DEF IInv, Open, NoReq
<1> QED BY <1>3, <1>4, <1>6, <1>7 DEF IInv, AtMostOneActive, ActiveIsApplied

LEMMA NextInvariant ==
    ASSUME SingleWriter, IInv, [Next]_vars
    PROVE  IInv'
<1>1. ASSUME NEW c \in Clients, NEW p \in Profiles, Create(c, p) PROVE IInv'
  <2>1. \A d \in Clients : ~req[d].open
    BY <1>1 DEF Create, MayWrite, NoReq
  <2>2. \A q \in Profiles : row'[q] = IF q = p THEN "INACTIVE" ELSE row[q]
    BY <1>1 DEF Create, IInv, TypeOK
  <2>3. TypeOK'
    BY <1>1, <2>2, ParametersAssumption DEF Create, IInv, TypeOK
  <2>4. req' = req
    BY <1>1 DEF Create
  <2>5. Open'
    BY <2>1, <2>4 DEF IInv, Open, NoReq
  <2> QED BY <1>1, <2>2, <2>3, <2>5 DEF Create, IInv, AtMostOneActive, ActiveIsApplied
<1>2. ASSUME NEW c \in Clients, NEW p \in Profiles, ReadProfile(c, p) PROVE IInv'
  <2> DEFINE r == [NoReq EXCEPT !.op = "activate", !.profile = p,
                                !.wasActive = (row[p] = "ACTIVE")]
  <2>1. r \in Request /\ ~r.open /\ r.cleared = {} /\ r.profile \in Profiles
    BY DEF NoReq, Request, Blocks
  <2>2. Begin(c, r)
    BY <1>2 DEF ReadProfile
  <2> QED BY <2>1, <2>2, BeginKeeps
<1>3. ASSUME NEW c \in Clients, NEW p \in Profiles, ReadForDelete(c, p) PROVE IInv'
  <2> DEFINE r == [NoReq EXCEPT !.op = "delete", !.profile = p]
  <2>1. r \in Request /\ ~r.open /\ r.cleared = {} /\ r.profile \in Profiles
    BY DEF NoReq, Request, Blocks
  <2>2. Begin(c, r)
    BY <1>3 DEF ReadForDelete
  <2> QED BY <2>1, <2>2, BeginKeeps
<1>4. ASSUME NEW c \in Clients, NEW k \in Blocks, ReadBlock(c, k) PROVE IInv'
  <2> DEFINE r == [NoReq EXCEPT !.op = "patch", !.block = k]
  <2>1. r \in Request /\ ~r.open /\ r.cleared = {} /\ r.op = "patch"
    BY DEF NoReq, Request, Blocks
  <2>2. Begin(c, r)
    BY <1>4 DEF ReadBlock
  <2> QED BY <2>1, <2>2, BeginKeeps
<1>5. ASSUME NEW c \in Clients, ClearOthers(c) PROVE IInv'
  <2> DEFINE A == ActiveOthers(req[c].profile)
  <2>1. A \subseteq Profiles /\ req[c].profile \notin A
    BY DEF ActiveOthers
  <2>2. req[c] \in Request
    BY <1>5 DEF ClearOthers, IInv, TypeOK, NoReq
  <2>3. \A d \in Clients : d # c => req'[d] = req[d] /\ ~req[d].open
    BY <1>5 DEF ClearOthers, MayWrite, IInv, TypeOK
  <2>4. /\ req'[c] \in Request /\ req'[c].cleared = A
        /\ req'[c].profile = req[c].profile /\ req'[c].op = "activate"
    BY <1>5, <2>1, <2>2 DEF ClearOthers, IInv, TypeOK, Request
  <2>5. UNCHANGED <<row, config, issued>> /\ DOMAIN req' = Clients
    BY <1>5 DEF ClearOthers, IInv, TypeOK
  <2>6. TypeOK'
    <3>1. req' = [d \in Clients |-> req'[d]]
      BY <1>5 DEF ClearOthers, IInv, TypeOK
    <3>2. \A d \in Clients : req'[d] \in Request \cup {NoReq}
      BY <2>3, <2>4 DEF IInv, TypeOK
    <3>3. req' \in [Clients -> Request \cup {NoReq}]
      BY <3>1, <3>2
    <3> QED BY <2>1, <2>3, <2>4, <2>5, <3>3 DEF IInv, TypeOK
  <2>7. Open'
    <3>1. \A d \in Clients : req'[d].op \in {"activate", "delete"} => req'[d].profile \in Profiles
      BY <1>5, <2>3, <2>4 DEF IInv, Open, ClearOthers
    <3>2. \A d, e \in Clients : req'[d].open /\ req'[e].open => d = e
      BY <2>3
    <3>3. \A d \in Clients : req'[d].open =>
             /\ req'[d].op = "activate"
             /\ req'[d].cleared = {q \in Profiles \ {req'[d].profile} : row'[q] = "ACTIVE"}
      BY <2>3, <2>4, <2>5 DEF ActiveOthers
    <3> QED BY <3>1, <3>2, <3>3 DEF Open, ActiveOthers
  <2> QED BY <2>5, <2>6, <2>7 DEF IInv, AtMostOneActive, ActiveIsApplied
<1>6. ASSUME NEW c \in Clients, CommitActivate(c) PROVE IInv'
  BY <1>6, ActivationKeeps
<1>7. ASSUME NEW c \in Clients, CommitDelete(c) PROVE IInv'
  <2>1. \A d \in Clients : ~req[d].open
    BY <1>7 DEF CommitDelete, MayWrite, IInv, Open
  <2>2. \A d \in Clients : req'[d] = IF d = c THEN NoReq ELSE req[d]
    BY <1>7 DEF CommitDelete, End, IInv, TypeOK
  <2>3. \A q \in Profiles : row'[q] \in {row[q], "DELETED"}
    BY <1>7 DEF CommitDelete, IInv, TypeOK
  <2>4. TypeOK'
    BY <1>7, <2>2 DEF CommitDelete, End, IInv, TypeOK, NoReq
  <2>5. Open'
    BY <2>1, <2>2 DEF IInv, Open, NoReq
  <2> QED BY <1>7, <2>3, <2>4, <2>5 DEF CommitDelete, IInv, AtMostOneActive, ActiveIsApplied
<1>8. ASSUME NEW c \in Clients, CommitBlock(c) PROVE IInv'
  <2>1. \A k \in Blocks : config'[k] \in {config[k], EDITED}
    BY <1>8 DEF CommitBlock, IInv, TypeOK
  <2>2. \A d \in Clients : req'[d] = IF d = c THEN NoReq ELSE req[d]
    BY <1>8 DEF CommitBlock, End, IInv, TypeOK
  <2>3. config' \in [Blocks -> Origin]
    BY <1>8 DEF CommitBlock, IInv, TypeOK, Origin
  <2>4. TypeOK'
    BY <1>8, <2>2, <2>3 DEF CommitBlock, End, IInv, TypeOK, NoReq
  <2>5. Open'
    BY <1>8, <2>2 DEF CommitBlock, IInv, Open, ActiveOthers, NoReq
  <2>6. AtMostOneActive' /\ ActiveIsApplied'
    BY <1>8, <2>1 DEF CommitBlock, IInv, AtMostOneActive, ActiveIsApplied
  <2> QED BY <2>4, <2>5, <2>6 DEF IInv
<1>9. ASSUME NEW c \in Clients, RollBack(c) PROVE IInv'
  BY <1>9, EndKeeps DEF RollBack
<1>10. CASE UNCHANGED vars
  BY <1>10 DEF vars, IInv, TypeOK, Open, ActiveOthers, AtMostOneActive, ActiveIsApplied
<1> QED BY <1>1, <1>2, <1>3, <1>4, <1>5, <1>6, <1>7, <1>8, <1>9, <1>10 DEF Next

(* With a single writer, at most one profile is active, however            *)
(* activations, deletions and edits overlap (activate_profile).            *)
THEOREM OneActive ==
    ASSUME SingleWriter
    PROVE  Spec => []AtMostOneActive
<1>1. IInv /\ [Next]_vars => IInv'
  BY NextInvariant
<1>2. IInv => AtMostOneActive
  BY DEF IInv
<1> QED BY <1>1, <1>2, InitInvariant, PTL DEF Spec

(* With a single writer, the profile that is shown as active is the one    *)
(* whose values are in use (activate_profile, apply_llm_snapshot).         *)
THEOREM ActiveApplied ==
    ASSUME SingleWriter
    PROVE  Spec => []ActiveIsApplied
<1>1. IInv /\ [Next]_vars => IInv'
  BY NextInvariant
<1>2. IInv => ActiveIsApplied
  BY DEF IInv
<1> QED BY <1>1, <1>2, InitInvariant, PTL DEF Spec

=============================================================================
