---- MODULE ReviewQueue ----
(***************************************************************************)
(* Moderation: approve, reject, bulk_approve and bulk_reject of            *)
(* backend/app/services/review_queue_service.py, and the PATCH of          *)
(* services/manual_ingestion_service.py that may set an item's status past *)
(* the queue, each in its own READ COMMITTED transaction.                  *)
(*                                                                         *)
(* item and queued are committed; an item's queue row is named by the item *)
(* (item_id is unique).  The single operations load the queue row and the  *)
(* item in two SELECTs and write the item through the ORM, which sends     *)
(* only the columns that differ from what it loaded; the bulk operations   *)
(* write every column they name.  Whoever has updated an item holds its    *)
(* lock until the end of the transaction.                                  *)
(***************************************************************************)
EXTENDS Integers, FiniteSets

CONSTANTS Items, Admins, Nobody,
          PatchStatuses   \* bound of the model: statuses that PATCHes set


VARIABLES item,      \* item[i]: the moderation columns of item i
          queued,    \* items with a review_queue row
          session,   \* session[a]: admin a's open request
          patched    \* history: items whose status a PATCH has set

vars == <<item, queued, session, patched>>

Statuses == {"pending", "active", "rejected", "archived"}

ASSUME ModerationAssumption == Nobody \notin Admins /\ PatchStatuses \subseteq Statuses

Rows == [status : Statuses, reviewedBy : Admins \cup {Nobody}, reason : BOOLEAN]
Unreviewed == [status |-> "pending", reviewedBy |-> Nobody, reason |-> FALSE]

Ops == {"approve", "reject", "bulkApprove", "bulkReject", "patch"}
Single == {"approve", "reject", "patch"}
NoSession == [pc |-> "idle", op |-> "patch", found |-> {}, held |-> {},
              loaded |-> Unreviewed, status |-> "pending"]

TypeOK ==
    /\ item \in [Items -> Rows]
    /\ queued \subseteq Items /\ patched \subseteq Items
    /\ session \in [Admins -> [pc : {"idle", "loading", "writing"}, op : Ops,
                               found : SUBSET Items, held : SUBSET Items,
                               loaded : Rows, status : Statuses]]
    /\ \A a \in Admins : session[a].held \subseteq session[a].found

Init ==
    /\ item = [i \in Items |-> Unreviewed]
    /\ queued = Items
    /\ session = [a \in Admins |-> NoSession]
    /\ patched = {}

----
Begin(a, pc, op, found, status) ==
    /\ session[a].pc = "idle"
    /\ session' = [session EXCEPT ![a] = [NoSession EXCEPT
                      !.pc = pc, !.op = op, !.found = found, !.status = status]]
    /\ UNCHANGED <<item, queued, patched>>

(* approve and reject first read the queue row; 404 when it is gone. *)
BeginApprove(a, i) == i \in queued /\ Begin(a, "loading", "approve", {i}, "active")
BeginReject(a, i) == i \in queued /\ Begin(a, "loading", "reject", {i}, "rejected")

(* The bulk operations read the queue rows that are there; the others are  *)
(* reported as not_found.                                                  *)
BeginBulkApprove(a, S) ==
    S \cap queued # {} /\ Begin(a, "writing", "bulkApprove", S \cap queued, "active")
BeginBulkReject(a, S) ==
    S \cap queued # {} /\ Begin(a, "writing", "bulkReject", S \cap queued, "rejected")

\* PATCH /admin/ingestion/manual/items/{id} with a status: any item, any status.
BeginPatch(a, i, status) == Begin(a, "loading", "patch", {i}, status)

(* The second SELECT: the item as it is committed now. *)
Load(a) ==
    /\ session[a].pc = "loading"
    /\ \E i \in session[a].found :
          session' = [session EXCEPT ![a].pc = "writing", ![a].loaded = item[i]]
    /\ UNCHANGED <<item, queued, patched>>

----
\* The row of i has been updated by another open transaction.
HeldByOther(a, i) == \E b \in Admins \ {a} : i \in session[b].held

(* The UPDATE reaches row i: at once, or when the transaction that has it  *)
(* ends.  A bulk UPDATE reaches its rows in any order.                     *)
LockItem(a, i) ==
    /\ session[a].pc = "writing" /\ i \in session[a].found \ session[a].held
    /\ ~HeldByOther(a, i)
    /\ session' = [session EXCEPT ![a].held = @ \cup {i}]
    /\ UNCHANGED <<item, queued, patched>>

\* A bulk rejection that leaves the reason out.
AssignedNoReason(a, r) ==
    [r EXCEPT !.status = session[a].status, !.reviewedBy = a,
              !.reason = IF session[a].op = "reject" THEN TRUE ELSE @]

\* What the operation assigns to row r of an item.
Assigned(a, r) ==
    [r EXCEPT !.status = session[a].status, !.reviewedBy = a,
              !.reason = IF session[a].op \in {"reject", "bulkReject"} THEN TRUE ELSE @]

\* The row of i after the operation's UPDATE.
Written(a, i) ==
    IF session[a].op \in Single
    THEN LET loaded == session[a].loaded
             new == Assigned(a, loaded)
         IN [c \in DOMAIN loaded |-> IF new[c] # loaded[c] THEN new[c] ELSE item[i][c]]
    ELSE Assigned(a, item[i])

\* The DELETE of the bulk operations forgotten.
DequeuedSingly(a) == IF session[a].op \in {"approve", "reject"} THEN session[a].found ELSE {}

\* The queue rows the operation deletes; a row that is gone already is no error.
Dequeued(a) == IF session[a].op = "patch" THEN {} ELSE session[a].found

(* The UPDATE is done; the DELETE cannot wait, for whoever deletes the     *)
(* queue row of an item holds the item.  Then the request's commit.        *)
Commit(a) ==
    /\ session[a].pc = "writing" /\ session[a].held = session[a].found
    /\ item' = [i \in Items |-> IF i \in session[a].held THEN Written(a, i) ELSE item[i]]
    /\ queued' = queued \ Dequeued(a)
    /\ patched' = IF session[a].op = "patch" THEN patched \cup session[a].found ELSE patched
    /\ session' = [session EXCEPT ![a] = NoSession]

\* a waits for a row of b.
WaitsFor(a, b) == /\ session[a].pc = "writing" /\ a # b
                  /\ session[b].held \cap (session[a].found \ session[a].held) # {}

Deadlocked(a) == \E S \in SUBSET Admins :
    a \in S /\ \A b \in S : \E c \in S : WaitsFor(b, c)

\* After a deadlock the bulk operation tries again.
AfterDeadlockRetry(a) == [session[a] EXCEPT !.held = {}]

\* "except Exception" reports a failure for every id; the rollback undoes the rest.
AfterDeadlock(a) == NoSession

(* PostgreSQL ends a deadlock by failing one of the statements. *)
FailDeadlocked(a) ==
    /\ Deadlocked(a)
    /\ session' = [session EXCEPT ![a] = AfterDeadlock(a)]
    /\ UNCHANGED <<item, queued, patched>>

\* The request dies before its commit.
Rollback(a) ==
    /\ session[a].pc # "idle"
    /\ session' = [session EXCEPT ![a] = NoSession]
    /\ UNCHANGED <<item, queued, patched>>

SessionStep(a) ==
    Load(a) \/ (\E i \in Items : LockItem(a, i)) \/ Commit(a) \/ FailDeadlocked(a)

(* The routes of the review queue; PATCH belongs to the manual items. *)
Route(a) ==
    \/ \E i \in Items : BeginApprove(a, i) \/ BeginReject(a, i)
    \/ \E S \in SUBSET Items : BeginBulkApprove(a, S) \/ BeginBulkReject(a, S)

Next ==
    \E a \in Admins :
        \/ Route(a)
        \/ \E i \in Items, s \in PatchStatuses : BeginPatch(a, i, s)
        \/ SessionStep(a)
        \/ Rollback(a)

(* A request that has begun goes on until it ends, and a row that is       *)
(* released again and again is got at last (PostgreSQL's lock queue).      *)
Spec == Init /\ [][Next]_vars /\ \A a \in Admins : SF_vars(SessionStep(a))

----
(* The queue shows no decided item: unless a PATCH went past the queue, an *)
(* item with a queue row is undecided, whatever decisions race for it.     *)
QueuedIsPending == \A i \in queued \ patched : item[i].status = "pending"

(* Nothing falls out of moderation: unless a PATCH interfered, an item     *)
(* whose queue row is gone was decided by an admin, and rejected only with *)
(* a reason, also when stale writes of several admins end up in its row.   *)
DecidedIsComplete ==
    \A i \in Items \ (queued \cup patched) :
        /\ item[i].status \in {"active", "rejected"}
        /\ item[i].reviewedBy # Nobody
        /\ item[i].status = "rejected" => item[i].reason

(* Every moderation request ends, also when bulk operations lock the same  *)
(* items in opposite orders.                                               *)
EveryDecisionEnds == \A a \in Admins : session[a].pc # "idle" ~> session[a].pc = "idle"

(* "Approval flips the item to ACTIVE; rejection sets status=REJECTED": so *)
(* a decision leaves the status it answers with.                           *)
DecisionTakesEffect ==
    [][\A a \in Admins, i \in Items :
          Commit(a) /\ session[a].op # "patch" /\ i \in session[a].held
              => item'[i].status = session[a].status]_vars
====
