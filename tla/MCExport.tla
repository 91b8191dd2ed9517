------------------------------ MODULE MCExport ------------------------------
(* Small instances of ReviewExport.                                        *)
EXTENDS ReviewExport, TLC

MCOwner == [i \in Items |-> IF i = 3 THEN 2 ELSE 1]
MCPath == [i \in Items |-> IF i = 1 THEN "p" ELSE "q"]

(* The lane has run both batches.  Item 1 has come up for review, or has   *)
(* failed before it had a caption, or it was accepted without one, sent    *)
(* back, and then accepted again by a request that had read it before.     *)
(* Item 2 is up for review, or both are accepted with the caption they had *)
(* or another.  Item 3, of the second batch, which has a file in common    *)
(* with the first, is accepted already.  Spec reaches these states with    *)
(* five requests.                                                          *)
Clean(t) == [NewRow EXCEPT !.state = "AWAITING_REVIEW", !.normalized = t,
                           !.analysed = TRUE]
Approved(t, e) == [Clean(t) EXCEPT !.state = "APPROVED", !.final = e]
Failed == [NewRow EXCEPT !.state = "ERROR"]
Requeued(e) == [NewRow EXCEPT !.normalized = e, !.final = e]

\* first: the row item 1 may have; texts: what was ACCEPTed for an item.
Start(first, second, third, texts) ==
    /\ bstate = [b \in Batches |-> "AWAITING_REVIEW"]
    /\ row = [i \in Items |-> CASE i = 1 -> first [] i = 2 -> second [] i = 3 -> third]
    /\ accepted = texts
    /\ locked = [i \in Items |-> CASE i = 1 -> first.final [] i = 2 -> second.final
                                    [] i = 3 -> third.final]
    /\ file = [p \in Paths |-> None]
    /\ entries = [b \in Batches |-> 0]
    /\ pc = "idle" /\ cur = 0 /\ at = 0 /\ move = NoMove /\ todo = {}
    /\ req = [c \in Clients |-> NoReq]
    /\ raced = {} /\ touched = Items /\ issued = 0

StartUnderReview ==
    \E t \in Drafts, e \in Edits :
        \/ \E r \in {Clean(t), Failed, Requeued(e)} :
              Start(r, Clean(t), Approved(t, e),
                    [i \in Items |-> CASE i = 1 /\ r = Requeued(e) -> {None, e}
                                       [] i = 3 -> {e} [] OTHER -> {}])
        \/ 2 \in Items /\ \E x \in {t, e} :
              Start(Approved(t, x), Approved(t, x), Approved(t, e),
                    [i \in Items |-> IF i = 3 THEN {e} ELSE {x}])

MCSymmetry == Permutations(Clients)

MCSpec == StartUnderReview /\ [][Next]_vars

=============================================================================
