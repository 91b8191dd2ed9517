---------------------------- MODULE LLMProfiles ----------------------------
(***************************************************************************)
(* The LLM profiles and the configuration they are copied into             *)
(* (api/llm_profiles.py, api/config.py, config/manager.py), with several   *)
(* requests at once.                                                       *)
(*                                                                         *)
(* Grain.  A request reads its rows, and writes them in one transaction.   *)
(* Activation issues its first UPDATE before it is done: the transaction   *)
(* is open from then on.  SQLite, the default database, has one writing    *)
(* transaction at a time; others lock the rows they write.  Of a           *)
(* configuration block only where its value came from matters.             *)
(***************************************************************************)
EXTENDS Integers

CONSTANTS Profiles,     \* ids of llm_profiles rows
          Clients,      \* concurrent requests
          SingleWriter, \* the database has one writing transaction at a time
          MaxRequests   \* bound: requests issued in a behaviour

ASSUME ProfilesAssumption == Profiles \subseteq Nat \ {0}
ASSUME ParametersAssumption == SingleWriter \in BOOLEAN /\ MaxRequests \in Nat

VARIABLES
    row,     \* row[p]: UNBORN, INACTIVE, ACTIVE (is_active) or DELETED
    config,  \* config[k]: where block k comes from, a profile, DEFAULT or EDITED
    req,     \* req[c]: the request c has in flight
    issued   \* requests issued

vars == <<row, config, req, issued>>

-----------------------------------------------------------------------------
\* seed_defaults_if_missing, and a value sent by a client.
DEFAULT == 0
EDITED == -1
Origin == Profiles \cup {DEFAULT, EDITED}

Blocks == {"llm", "llm_analyst", "llm_normalizer", "llm_checker"}

Request ==
    [op : {"activate", "delete", "patch"},
     profile : Profiles \cup {0},
     wasActive : BOOLEAN,        \* is_active as the request has read it
     block : Blocks,             \* the block a patch writes
     open : BOOLEAN,             \* its transaction has begun to write
     cleared : SUBSET Profiles]  \* the rows its UPDATE has matched
NoReq == [op |-> "none", profile |-> 0, wasActive |-> FALSE,
          block |-> "llm", open |-> FALSE, cleared |-> {}]

TypeOK ==
    /\ row \in [Profiles -> {"UNBORN", "INACTIVE", "ACTIVE", "DELETED"}]
    /\ config \in [Blocks -> Origin]
    /\ req \in [Clients -> Request \cup {NoReq}]
    /\ \A c \in Clients : req[c].profile \notin req[c].cleared
    /\ issued \in 0..MaxRequests

Init ==
    /\ row = [p \in Profiles |-> "UNBORN"]
    /\ config = [k \in Blocks |-> DEFAULT]
    /\ req = [c \in Clients |-> NoReq]
    /\ issued = 0

-----------------------------------------------------------------------------
\* Bug: writing transactions overlap.
Bug_MayWrite(c) == TRUE

\* No other transaction keeps c from writing.
MayWrite(c) == SingleWriter => \A d \in Clients \ {c} : ~req[d].open

\* Another transaction has an uncommitted UPDATE of one of these rows.
RowLocked(c, rows) == \E d \in Clients \ {c} : req[d].cleared \cap rows # {}

Begin(c, r) ==
    /\ req[c] = NoReq /\ issued < MaxRequests
    /\ req' = [req EXCEPT ![c] = r] /\ issued' = issued + 1
    /\ UNCHANGED <<row, config>>

End(c) == req' = [req EXCEPT ![c] = NoReq] /\ UNCHANGED issued

\* create_profile: an INSERT, of a profile that is not active.
Create(c, p) ==
    /\ req[c] = NoReq /\ MayWrite(c) /\ issued < MaxRequests
    /\ row[p] = "UNBORN"
    /\ row' = [row EXCEPT ![p] = "INACTIVE"] /\ issued' = issued + 1
    /\ UNCHANGED <<config, req>>

-----------------------------------------------------------------------------
(* activate_profile.                                                       *)

ReadProfile(c, p) ==
    /\ row[p] \in {"INACTIVE", "ACTIVE"}
    /\ Begin(c, [NoReq EXCEPT !.op = "activate", !.profile = p,
                              !.wasActive = (row[p] = "ACTIVE")])

\* Bug: the filter is not restricted to the other profiles.
Bug_ActiveOthers(p) == {q \in Profiles : row[q] = "ACTIVE"}

ActiveOthers(p) == {q \in Profiles \ {p} : row[q] = "ACTIVE"}

\* UPDATE llm_profiles SET is_active = 0 WHERE is_active AND id <> p.
ClearOthers(c) ==
    /\ req[c].op = "activate" /\ ~req[c].open
    /\ MayWrite(c) /\ ~RowLocked(c, ActiveOthers(req[c].profile))
    /\ req' = [req EXCEPT ![c].open = TRUE,
                          ![c].cleared = ActiveOthers(req[c].profile)]
    /\ UNCHANGED <<row, config, issued>>

\* Bug: a block is forgotten.
Bug_AppliedBlocks == Blocks \ {"llm_checker"}

\* The blocks apply_llm_snapshot writes.
AppliedBlocks == {"llm", "llm_analyst", "llm_normalizer", "llm_checker"}

\* The snapshot is copied, the flag set, the transaction committed.  For a
\* profile read as active the ORM has nothing to set: the row keeps what it
\* has by now, and is not missed if it is gone.
CommitActivate(c) ==
    LET r == req[c]
        p == r.profile
    IN
    /\ r.op = "activate" /\ r.open
    /\ r.wasActive \/ (row[p] # "DELETED" /\ ~RowLocked(c, {p}))
    /\ row' = [q \in Profiles |->
                 IF q \in r.cleared THEN "INACTIVE"
                 ELSE IF q = p /\ ~r.wasActive THEN "ACTIVE" ELSE row[q]]
    /\ config' = [k \in Blocks |-> IF k \in AppliedBlocks THEN p ELSE config[k]]
    /\ End(c)

-----------------------------------------------------------------------------
(* The other requests.                                                     *)

\* delete_profile refuses the active profile.
ReadForDelete(c, p) ==
    /\ row[p] = "INACTIVE"
    /\ Begin(c, [NoReq EXCEPT !.op = "delete", !.profile = p])

CommitDelete(c) ==
    /\ req[c].op = "delete"
    /\ MayWrite(c) /\ ~RowLocked(c, {req[c].profile})
    /\ row' = [row EXCEPT ![req[c].profile] = "DELETED"]
    /\ UNCHANGED config /\ End(c)

\* update_config of one LLM block.  A value equal to the one that was read
\* is not written.
ReadBlock(c, k) == Begin(c, [NoReq EXCEPT !.op = "patch", !.block = k])

CommitBlock(c) ==
    /\ req[c].op = "patch"
    /\ \/ MayWrite(c) /\ config' = [config EXCEPT ![req[c].block] = EDITED]
       \/ UNCHANGED config
    /\ UNCHANGED row /\ End(c)

\* The database stays locked too long, the row to update is gone, the
\* snapshot does not validate.
RollBack(c) == req[c] # NoReq /\ End(c) /\ UNCHANGED <<row, config>>

Next ==
    \E c \in Clients :
        \/ \E p \in Profiles : Create(c, p) \/ ReadProfile(c, p) \/ ReadForDelete(c, p)
        \/ \E k \in Blocks : ReadBlock(c, k)
        \/ ClearOthers(c) \/ CommitActivate(c) \/ CommitDelete(c) \/ CommitBlock(c)
        \/ RollBack(c)

Spec == Init /\ [][Next]_vars

-----------------------------------------------------------------------------
(* Properties.                                                             *)

(* However activations overlap, at most one profile is active              *)
(* (models/llm_profile.py:20, "This invariant is enforced in the           *)
(* application layer").  It takes a database with a single writer.         *)
AtMostOneActive ==
    \A p, q \in Profiles : row[p] = "ACTIVE" /\ row[q] = "ACTIVE" => p = q

(* The profile that is shown as active is the one in use: every block of   *)
(* the configuration was copied from it, or has been edited since          *)
(* (activate_profile, llm_status).                                         *)
ActiveIsApplied ==
    \A p \in Profiles : row[p] = "ACTIVE" =>
        \A k \in Blocks : config[k] \in {p, EDITED}

=============================================================================
