---- MODULE InstagramReview ----
(***************************************************************************)
(* Admins deciding on queued Instagram posts: approve_queue_item and       *)
(* reject_queue_item of backend/app/services/instagram_ingestion_service.py *)
(* and claim_pending of backend/app/repositories/instagram.py, each in the *)
(* transaction of its own request under READ COMMITTED.                    *)
(*                                                                         *)
(* entry and items are committed.  A session in phase "deciding" has       *)
(* inserted its item (approve) or is about to update (reject); in phase    *)
(* "committing" it has updated the row of its post, or of the posts it     *)
(* claims, and holds their locks.                                          *)
(***************************************************************************)
EXTENDS Integers, FiniteSets

CONSTANTS Posts, Admins, Nobody,
          Limit      \* rows a claim takes at most (10 in the code)

ASSUME ReviewAssumption ==
    /\ Nobody \notin Admins
    /\ Limit \in Nat \ {0}

VARIABLES entry,      \* entry[p]: the instagram_queue row of post p
          items,      \* items of source INSTAGRAM: whose approval made which
          session,    \* session[a]: admin a's open request
          decidedBy   \* history: who committed the last decision on p

reviewing == <<entry, items, session, decidedBy>>

Statuses == {"pending", "approved", "rejected"}
Items == [post : Posts, by : Admins]
NoSession == [phase |-> "idle", op |-> "none", posts |-> {}]

ReviewTypeOK ==
    /\ entry \in [Posts -> [status : Statuses,
                            reviewedBy : Admins \cup {Nobody},
                            promoted : Admins \cup {Nobody}]]
    /\ items \subseteq Items
    /\ session \in [Admins -> [phase : {"idle", "inserting", "deciding", "committing"},
                               op : {"none", "approve", "reject", "claim"},
                               posts : SUBSET Posts]]
    /\ decidedBy \in [Posts -> Admins \cup {Nobody}]

ReviewInit ==
    /\ entry = [p \in Posts |-> [status |-> "pending", reviewedBy |-> Nobody, promoted |-> Nobody]]
    /\ items = {}
    /\ session = [a \in Admins |-> NoSession]
    /\ decidedBy = [p \in Posts |-> Nobody]

----
RowLocked(p) == \E a \in Admins : session[a].phase = "committing" /\ p \in session[a].posts

\* Another approval has inserted the item of p and not yet committed.
KeyLocked(a, p) == \E b \in Admins \ {a} :
    /\ session[b].op = "approve" /\ p \in session[b].posts
    /\ session[b].phase \in {"deciding", "committing"}

\* No unique key: source_external_id not set on the promoted item.
PostKeyTakenNever(p) == FALSE

\* The unique key (source_site_id, source_external_id), NULLS NOT DISTINCT.
PostKeyTaken(p) == \E i \in items : i.post = p

Enter(a, phase, op, posts) ==
    session' = [session EXCEPT ![a] = [phase |-> phase, op |-> op, posts |-> posts]]

(* approve_queue_item and reject_queue_item read the row and refuse one    *)
(* that is not pending; nothing keeps it pending afterwards.               *)
BeginApprove(a, p) ==
    /\ session[a].phase = "idle" /\ entry[p].status = "pending"
    /\ Enter(a, "inserting", "approve", {p})
    /\ UNCHANGED <<entry, items, decidedBy>>

BeginReject(a, p) ==
    /\ session[a].phase = "idle" /\ entry[p].status = "pending"
    /\ Enter(a, "deciding", "reject", {p})
    /\ UNCHANGED <<entry, items, decidedBy>>

\* The IntegrityError of a taken key caught and the insert tried again.
InsertItemRetries(a) ==
    /\ session[a].phase = "inserting"
    /\ \E p \in session[a].posts :
          /\ ~KeyLocked(a, p)
          /\ session' = [session EXCEPT ![a].phase = IF PostKeyTaken(p) THEN @ ELSE "deciding"]
    /\ UNCHANGED <<entry, items, decidedBy>>

(* The flush that inserts the item waits for a concurrent insert of the    *)
(* same key, and fails with the request when the key is taken.             *)
InsertItem(a) ==
    /\ session[a].phase = "inserting"
    /\ \E p \in session[a].posts :
          /\ ~KeyLocked(a, p)
          /\ session' = [session EXCEPT ![a] =
                IF PostKeyTaken(p) THEN NoSession ELSE [@ EXCEPT !.phase = "deciding"]]
    /\ UNCHANGED <<entry, items, decidedBy>>

\* The UPDATE by primary key waits for the row and does not look at its status.
UpdateRow(a) ==
    /\ session[a].phase = "deciding"
    /\ \A p \in session[a].posts : ~RowLocked(p)
    /\ session' = [session EXCEPT ![a].phase = "committing"]
    /\ UNCHANGED <<entry, items, decidedBy>>

Approved(r, a) == [r EXCEPT !.status = "approved", !.reviewedBy = a, !.promoted = a]

Rejected(r, a) == [r EXCEPT !.status = "rejected", !.reviewedBy = a]

CommitDecision(a) ==
    /\ session[a].phase = "committing" /\ session[a].op \in {"approve", "reject"}
    /\ \E p \in session[a].posts :
          /\ entry' = [entry EXCEPT ![p] = IF session[a].op = "approve"
                                           THEN Approved(@, a) ELSE Rejected(@, a)]
          /\ items' = IF session[a].op = "approve"
                      THEN items \cup {[post |-> p, by |-> a]} ELSE items
          /\ decidedBy' = [decidedBy EXCEPT ![p] = a]
    /\ session' = [session EXCEPT ![a] = NoSession]

----
\* FOR UPDATE SKIP LOCKED left out: a row being decided is claimed too.
ClaimableUnlocked == {p \in Posts : entry[p].status = "pending"}

\* FOR UPDATE SKIP LOCKED: pending rows that no open transaction has updated.
Claimable == {p \in Posts : entry[p].status = "pending" /\ ~RowLocked(p)}

(* claim_pending: lock up to Limit pending rows; which come first in the   *)
(* order of confidence_score and created_at is left open.                  *)
ClaimPending(a, S) ==
    /\ session[a].phase = "idle"
    /\ S \subseteq Claimable /\ S # {}
    /\ Cardinality(S) = Limit \/ (S = Claimable /\ Cardinality(S) < Limit)
    /\ Enter(a, "committing", "claim", S)
    /\ UNCHANGED <<entry, items, decidedBy>>

CommitClaim(a) ==
    /\ session[a].phase = "committing" /\ session[a].op = "claim"
    /\ entry' = [p \in Posts |-> IF p \in session[a].posts
                                 THEN [entry[p] EXCEPT !.reviewedBy = a] ELSE entry[p]]
    /\ session' = [session EXCEPT ![a] = NoSession]
    /\ UNCHANGED <<items, decidedBy>>

\* The request dies before its commit: UnitOfWork rolls back.
Rollback(a) ==
    /\ session[a].phase # "idle"
    /\ session' = [session EXCEPT ![a] = NoSession]
    /\ UNCHANGED <<entry, items, decidedBy>>

SessionStep(a) == InsertItem(a) \/ UpdateRow(a) \/ CommitDecision(a) \/ CommitClaim(a)

ReviewNext ==
    \E a \in Admins :
        \/ \E p \in Posts : BeginApprove(a, p) \/ BeginReject(a, p)
        \/ \E S \in SUBSET Posts : ClaimPending(a, S)
        \/ SessionStep(a)
        \/ Rollback(a)

(* A request that has begun goes on until it ends.  A row's or a key's     *)
(* lock may be taken again and again by later requests: that a waiter is   *)
(* woken and served at last is what PostgreSQL's lock queue provides.      *)
ReviewSpec == ReviewInit /\ [][ReviewNext]_reviewing /\ \A a \in Admins : SF_reviewing(SessionStep(a))

----
(* However many approvals of a post race past the status check, one item   *)
(* comes of them, and the row of an approved post points at it.            *)
PromotedOnce ==
    /\ \A i, k \in items : i.post = k.post => i = k
    /\ \A p \in Posts :
          /\ entry[p].status = "approved" => entry[p].promoted # Nobody
          /\ entry[p].promoted # Nobody => [post |-> p, by |-> entry[p].promoted] \in items

(* reviewed_by of a decided post is the admin who decided it: a claim in   *)
(* flight never stamps another admin's name on a decision.                 *)
ReviewerIsDecider ==
    \A p \in Posts : entry[p].status # "pending" => entry[p].reviewedBy = decidedBy[p]

(* Approvals hold the item's key while they wait for the row, rejections   *)
(* and claims hold rows and wait for nothing: every request ends.          *)
EveryReviewEnds == \A a \in Admins : session[a].phase # "idle" ~> session[a].phase = "idle"

(* "admins promote a queued post to a real Item (approve) or discard it    *)
(* (reject)": a rejected post has no item in the catalog.                  *)
RejectedIsDiscarded == \A p \in Posts : entry[p].status = "rejected" => ~PostKeyTaken(p)
====
