---- MODULE ReviewQueue_proofs ----
(***************************************************************************)
(* QueuedIsPending and DecidedIsComplete, for any number of items and      *)
(* admins, whatever statuses PATCHes may set.                              *)
(***************************************************************************)
EXTENDS ReviewQueue, TLAPS

SessionType == [pc : {"idle", "loading", "writing"}, op : Ops,
                found : SUBSET Items, held : SUBSET Items,
                loaded : Rows, status : Statuses]

\* An item that no admin has touched.
Untouched == \A i \in queued \ patched : item[i] = Unreviewed

\* What an operation decides; a single one is about one item.
OpGood(s) ==
    s.pc # "idle" =>
        /\ s.op \in {"approve", "bulkApprove"} => s.status = "active"
        /\ s.op \in {"reject", "bulkReject"} => s.status = "rejected"
        /\ s.op \in Single => \A i, j \in s.found : i = j

OpsGood == \A a \in Admins : OpGood(session[a])

(* A single operation's copy of the item may be old, but not too old: a    *)
(* reason that it saw is still there, and while the item is in the queue   *)
(* the copy is of an untouched item.                                       *)
CopyGood(s) ==
    s.pc = "writing" /\ s.op \in {"approve", "reject"} =>
        \A i \in s.found :
            /\ s.loaded.reason => item[i].reason
            /\ i \in queued \ patched => s.loaded = Unreviewed

CopiesGood == \A a \in Admins : CopyGood(session[a])

Complete(row) == /\ row.status \in {"active", "rejected"}
                 /\ row.reviewedBy # Nobody
                 /\ row.status = "rejected" => row.reason

IInv == TypeOK /\ Untouched /\ OpsGood /\ CopiesGood /\ DecidedIsComplete

(* Nobody is at work, and every item is in the queue.                      *)
LEMMA InitIInv == Init => IInv
<1> SUFFICES ASSUME Init PROVE IInv
    OBVIOUS
<1>1. Unreviewed \in Rows /\ NoSession \in SessionType
  BY DEF Unreviewed, Rows, NoSession, SessionType, Ops, Statuses
<1>2. TypeOK
  BY <1>1 DEF Init, TypeOK, SessionType, NoSession
<1>3. Untouched /\ DecidedIsComplete
  BY DEF Init, Untouched, DecidedIsComplete
<1>4. OpsGood /\ CopiesGood
  BY DEF Init, OpsGood, OpGood, CopiesGood, CopyGood, NoSession
<1> QED
  BY <1>2, <1>3, <1>4 DEF IInv

(* A step of a that writes no row only has to keep a's own session right.  *)
LEMMA SessionKept ==
    ASSUME IInv, NEW a \in Admins, NEW s \in SessionType,
           session' = [session EXCEPT ![a] = s],
           UNCHANGED <<item, queued, patched>>,
           s.held \subseteq s.found, OpGood(s), CopyGood(s)
    PROVE  IInv'
<1>1. session \in [Admins -> SessionType]
  BY DEF IInv, TypeOK, SessionType
<1>2. \A b \in Admins : session'[b] = IF b = a THEN s ELSE session[b]
  BY <1>1
<1>3. TypeOK'
  <2>1. session' \in [Admins -> SessionType]
    BY <1>1
  <2>2. \A b \in Admins : session'[b].held \subseteq session'[b].found
    BY <1>2 DEF IInv, TypeOK
  <2> QED
    BY <2>1, <2>2 DEF IInv, TypeOK, SessionType
<1>4. Untouched' /\ DecidedIsComplete'
  BY DEF IInv, Untouched, DecidedIsComplete
<1>5. OpsGood'
  BY <1>2 DEF IInv, OpsGood, OpGood
<1>6. CopiesGood'
  BY <1>2 DEF IInv, CopiesGood, CopyGood
<1> QED
  BY <1>3, <1>4, <1>5, <1>6 DEF IInv

(* A request begins.                                                       *)
LEMMA BeginKeeps ==
    ASSUME IInv, NEW a \in Admins, NEW pc \in {"loading", "writing"}, NEW op \in Ops,
           NEW found \in SUBSET Items, NEW status \in Statuses,
           Begin(a, pc, op, found, status),
           op \in {"approve", "bulkApprove"} => status = "active",
           op \in {"reject", "bulkReject"} => status = "rejected",
           op \in Single => pc = "loading" /\ \A i, j \in found : i = j
    PROVE  IInv'
<1> DEFINE s == [NoSession EXCEPT !.pc = pc, !.op = op, !.found = found, !.status = status]
<1>1. NoSession \in SessionType /\ NoSession.held = {}
  BY DEF NoSession, SessionType, Unreviewed, Rows, Statuses, Ops
<1>2. /\ s \in SessionType /\ s.held = {}
      /\ s.pc = pc /\ s.op = op /\ s.found = found /\ s.status = status
  BY <1>1 DEF SessionType
<1>3. session' = [session EXCEPT ![a] = s] /\ UNCHANGED <<item, queued, patched>>
  BY DEF Begin
<1> HIDE DEF s
<1>4. OpGood(s) /\ CopyGood(s)
  BY <1>2 DEF OpGood, CopyGood, Single
<1> QED
  BY <1>2, <1>3, <1>4, SessionKept

(* The item is loaded: an item that is still in the queue is untouched.    *)
LEMMA LoadKeeps ==
    ASSUME IInv, NEW a \in Admins, Load(a)
    PROVE  IInv'
<1>1. /\ session[a] \in SessionType /\ session[a].held \subseteq session[a].found
      /\ OpGood(session[a]) /\ session[a].pc = "loading"
  BY DEF IInv, TypeOK, SessionType, OpsGood, Load
<1>2. PICK i \in session[a].found :
        session' = [session EXCEPT ![a].pc = "writing", ![a].loaded = item[i]]
  BY DEF Load
<1> DEFINE s == [session[a] EXCEPT !.pc = "writing", !.loaded = item[i]]
<1>3. session' = [session EXCEPT ![a] = s] /\ UNCHANGED <<item, queued, patched>>
  BY <1>2 DEF Load
<1>4. i \in Items /\ item[i] \in Rows
  BY <1>1 DEF IInv, TypeOK, SessionType
<1>5. /\ s \in SessionType /\ s.held = session[a].held /\ s.found = session[a].found
      /\ s.op = session[a].op /\ s.status = session[a].status /\ s.loaded = item[i]
  BY <1>1, <1>4 DEF SessionType
<1> HIDE DEF s
<1>6. OpGood(s)
  BY <1>1, <1>5 DEF OpGood
<1>7. CopyGood(s)
  <2>1. s.op \in {"approve", "reject"} => \A j \in s.found : j = i
    BY <1>1, <1>2, <1>5 DEF OpGood, Single
  <2>2. i \in queued \ patched => item[i] = Unreviewed
    BY DEF IInv, Untouched
  <2> QED
    BY <1>5, <2>1, <2>2 DEF CopyGood
<1> QED
  BY <1>1, <1>3, <1>5, <1>6, <1>7, SessionKept

(* A lock is taken, or the request ends without a write.                   *)
LEMMA WithoutWrite ==
    ASSUME IInv, NEW a \in Admins,
           (\E i \in Items : LockItem(a, i)) \/ FailDeadlocked(a) \/ Rollback(a)
    PROVE  IInv'
<1>1. /\ session[a] \in SessionType /\ session[a].held \subseteq session[a].found
      /\ OpGood(session[a]) /\ CopyGood(session[a])
  BY DEF IInv, TypeOK, SessionType, OpsGood, CopiesGood
<1>2. ASSUME NEW i \in Items, LockItem(a, i)
      PROVE  IInv'
  <2> DEFINE s == [session[a] EXCEPT !.held = @ \cup {i}]
  <2>1. session' = [session EXCEPT ![a] = s] /\ UNCHANGED <<item, queued, patched>>
    BY <1>2 DEF LockItem
  <2>2. /\ s \in SessionType /\ s.held \subseteq s.found
        /\ s.pc = session[a].pc /\ s.op = session[a].op /\ s.found = session[a].found
        /\ s.status = session[a].status /\ s.loaded = session[a].loaded
    BY <1>1, <1>2 DEF LockItem, SessionType
  <2> HIDE DEF s
  <2>3. OpGood(s) /\ CopyGood(s)
    BY <1>1, <2>2 DEF OpGood, CopyGood
  <2> QED
    BY <2>1, <2>2, <2>3, SessionKept
<1>3. CASE FailDeadlocked(a) \/ Rollback(a)
  <2>1. session' = [session EXCEPT ![a] = NoSession] /\ UNCHANGED <<item, queued, patched>>
    BY <1>3 DEF FailDeadlocked, AfterDeadlock, Rollback
  <2>2. NoSession \in SessionType /\ NoSession.held \subseteq NoSession.found
    BY DEF NoSession, SessionType, Unreviewed, Rows, Statuses, Ops
  <2>3. OpGood(NoSession) /\ CopyGood(NoSession)
    BY DEF NoSession, OpGood, CopyGood
  <2> QED
    BY <2>1, <2>2, <2>3, SessionKept
<1> QED
  BY <1>2, <1>3

(* What a decision leaves in a row: a reason that was there stays, and     *)
(* whatever columns the ORM leaves out, the row is complete.               *)
LEMMA WrittenRow ==
    ASSUME IInv, NEW a \in Admins, Commit(a), NEW i \in session[a].found
    PROVE  /\ Written(a, i) \in Rows
           /\ item[i].reason => Written(a, i).reason
           /\ session[a].op # "patch" /\ i \notin patched => Complete(Written(a, i))
<1>1. /\ session[a] \in SessionType /\ i \in Items /\ item[i] \in Rows
      /\ OpGood(session[a]) /\ CopyGood(session[a]) /\ session[a].pc = "writing"
  BY DEF IInv, TypeOK, SessionType, OpsGood, CopiesGood, Commit
<1> DEFINE old == item[i]
           loaded == session[a].loaded
           new == Assigned(a, loaded)
           op == session[a].op
<1>2. /\ loaded \in Rows /\ old \in Rows /\ session[a].status \in Statuses /\ op \in Ops
      /\ a # Nobody
  BY <1>1, ModerationAssumption DEF SessionType
<1>3. ASSUME NEW r \in Rows
      PROVE  /\ Assigned(a, r) \in Rows
             /\ Assigned(a, r).status = session[a].status /\ Assigned(a, r).reviewedBy = a
             /\ Assigned(a, r).reason = (op \in {"reject", "bulkReject"} \/ r.reason)
  BY <1>2 DEF Assigned, Rows
<1>4. i \notin queued \cup patched => Complete(old)
  BY <1>1 DEF IInv, DecidedIsComplete, Complete
<1>5. CASE op \notin Single
  <2>1. Written(a, i) = Assigned(a, old)
    BY <1>5 DEF Written
  <2>2. op \in {"bulkApprove", "bulkReject"}
    BY <1>2, <1>5 DEF Ops, Single
  <2>3. Complete(Written(a, i))
    BY <1>1, <1>2, <1>3, <2>1, <2>2 DEF Complete, OpGood
  <2> QED
    BY <1>2, <1>3, <2>1, <2>3
<1>6. CASE op \in Single
  <2> DEFINE w == [c \in DOMAIN loaded |-> IF new[c] # loaded[c] THEN new[c] ELSE old[c]]
  <2>1. Written(a, i) = w
    BY <1>6 DEF Written
  <2>2. DOMAIN loaded = {"status", "reviewedBy", "reason"}
    BY <1>2 DEF Rows
  <2>3. /\ w["status"] = IF new.status # loaded.status THEN new.status ELSE old.status
        /\ w["reviewedBy"] = IF new.reviewedBy # loaded.reviewedBy THEN new.reviewedBy
                                                                   ELSE old.reviewedBy
        /\ w["reason"] = IF new.reason # loaded.reason THEN new.reason ELSE old.reason
        /\ DOMAIN w = {"status", "reviewedBy", "reason"}
    BY <2>2
  <2>4. w = [status |-> w["status"], reviewedBy |-> w["reviewedBy"], reason |-> w["reason"]]
    BY <2>3
  <2>5. new \in Rows /\ new.status = session[a].status /\ new.reviewedBy = a
        /\ new.reason = (op \in {"reject", "bulkReject"} \/ loaded.reason)
    BY <1>2, <1>3
  <2> HIDE DEF w, new
  <2>6. w \in Rows
    BY <1>2, <2>3, <2>4, <2>5 DEF Rows
  <2>7. old.reason => w.reason
    BY <1>2, <2>3, <2>5 DEF Rows
  <2>8. ASSUME op # "patch", i \notin patched
        PROVE  Complete(w)
    <3>1. op \in {"approve", "reject"}
      BY <1>6, <2>8 DEF Single
    <3>2. /\ op = "approve" => session[a].status = "active"
          /\ op = "reject" => session[a].status = "rejected"
          /\ loaded.reason => old.reason
          /\ i \in queued => loaded = Unreviewed
      BY <1>1, <2>8, <3>1 DEF OpGood, CopyGood
    <3>3. CASE i \in queued
      <4>1. loaded.status = "pending" /\ loaded.reviewedBy = Nobody /\ loaded.reason = FALSE
        BY <3>2, <3>3 DEF Unreviewed
      <4>2. new.status \in {"active", "rejected"} /\ new.reviewedBy # Nobody
        BY <1>2, <2>5, <3>1, <3>2
      <4>3. w.status = new.status /\ w.reviewedBy = new.reviewedBy
        BY <2>3, <4>1, <4>2
      <4>4. w.status = "rejected" => w.reason
        BY <2>3, <2>5, <3>1, <3>2, <4>1, <4>3
      <4> QED
        BY <4>2, <4>3, <4>4 DEF Complete
    <3>4. CASE i \notin queued
      BY <1>2, <1>4, <2>3, <2>5, <2>8, <3>1, <3>2, <3>4 DEF Complete, Rows
    <3> QED
      BY <3>3, <3>4
  <2> QED
    BY <2>1, <2>6, <2>7, <2>8
<1> QED
  BY <1>5, <1>6

(* The commit: a decision takes its items from the queue, a PATCH marks    *)
(* its item; what others have loaded stays good enough.                    *)
LEMMA CommitKeeps ==
    ASSUME IInv, NEW a \in Admins, Commit(a)
    PROVE  IInv'
<1>1. /\ session \in [Admins -> SessionType] /\ session[a].held = session[a].found
      /\ session[a].found \subseteq Items
      /\ queued \subseteq Items /\ patched \subseteq Items
  BY DEF IInv, TypeOK, SessionType, Commit
<1>2. /\ \A i \in session[a].found : item'[i] = Written(a, i)
      /\ \A i \in Items \ session[a].found : item'[i] = item[i]
  BY <1>1 DEF Commit
<1>3. IF session[a].op = "patch"
      THEN queued' = queued /\ patched' = patched \cup session[a].found
      ELSE queued' = queued \ session[a].found /\ patched' = patched
  BY DEF Commit, Dequeued
<1>4. NoSession \in SessionType /\ NoSession.pc = "idle" /\ NoSession.held \subseteq NoSession.found
  BY DEF NoSession, SessionType, Unreviewed, Rows, Statuses, Ops
<1>5. \A b \in Admins : session'[b] = IF b = a THEN NoSession ELSE session[b]
  BY <1>1 DEF Commit
<1>6. TypeOK'
  <2>1. session' \in [Admins -> SessionType]
    BY <1>1, <1>4 DEF Commit
  <2>2. \A i \in Items : item'[i] \in Rows
    BY <1>2, WrittenRow DEF IInv, TypeOK
  <2>3. item' \in [Items -> Rows]
    BY <2>2 DEF Commit
  <2>4. \A b \in Admins : session'[b].held \subseteq session'[b].found
    BY <1>4, <1>5 DEF IInv, TypeOK
  <2> QED
    BY <1>1, <1>3, <2>1, <2>3, <2>4 DEF TypeOK, SessionType
<1>7. Untouched'
  BY <1>1, <1>2, <1>3 DEF IInv, Untouched
<1>8. OpsGood'
  BY <1>4, <1>5 DEF IInv, OpsGood, OpGood
<1>9. CopiesGood'
  <2> SUFFICES ASSUME NEW b \in Admins PROVE CopyGood(session[b])'
      BY DEF CopiesGood
  <2>1. CASE b = a
    BY <1>4, <1>5, <2>1 DEF CopyGood
  <2>2. CASE b # a
    <3>1. session'[b] = session[b] /\ session[b].found \subseteq Items
      BY <1>1, <1>5, <2>2 DEF SessionType
    <3>2. \A i \in Items : item[i].reason => item'[i].reason
      BY <1>2, WrittenRow
    <3>3. queued' \ patched' \subseteq queued \ patched
      BY <1>3
    <3> QED
      BY <3>1, <3>2, <3>3 DEF IInv, CopiesGood, CopyGood
  <2> QED
    BY <2>1, <2>2
<1>10. DecidedIsComplete'
  <2> SUFFICES ASSUME NEW i \in Items, i \notin queued' \cup patched'
               PROVE  Complete(item'[i])
      BY DEF DecidedIsComplete, Complete
  <2>1. CASE i \in session[a].found
    BY <1>2, <1>3, <2>1, WrittenRow
  <2>2. CASE i \notin session[a].found
    <3>1. i \notin queued \cup patched /\ item'[i] = item[i]
      BY <1>2, <1>3, <2>2
    <3> QED
      BY <3>1 DEF IInv, DecidedIsComplete, Complete
  <2> QED
    BY <2>1, <2>2
<1> QED
  BY <1>6, <1>7, <1>8, <1>9, <1>10 DEF IInv

(* Every step keeps the invariant. *)
LEMMA NextIInv == IInv /\ [Next]_vars => IInv'
<1> SUFFICES ASSUME IInv, [Next]_vars PROVE IInv'
    OBVIOUS
<1>1. ASSUME NEW a \in Admins, Route(a)
      PROVE  IInv'
  <2>1. ASSUME NEW i \in Items, BeginApprove(a, i) \/ BeginReject(a, i)
        PROVE  IInv'
    BY <2>1, BeginKeeps DEF BeginApprove, BeginReject, Ops, Statuses, Single
  <2>2. ASSUME NEW S \in SUBSET Items, BeginBulkApprove(a, S) \/ BeginBulkReject(a, S)
        PROVE  IInv'
    <3>1. S \cap queued \in SUBSET Items
      OBVIOUS
    <3> QED
      BY <2>2, <3>1, BeginKeeps DEF BeginBulkApprove, BeginBulkReject, Ops, Statuses, Single
  <2> QED
    BY <1>1, <2>1, <2>2 DEF Route
<1>2. ASSUME NEW a \in Admins, NEW i \in Items, NEW s \in PatchStatuses, BeginPatch(a, i, s)
      PROVE  IInv'
  BY <1>2, BeginKeeps, ModerationAssumption DEF BeginPatch, Ops, Single
<1>3. ASSUME NEW a \in Admins, SessionStep(a) \/ Rollback(a)
      PROVE  IInv'
  BY <1>3, LoadKeeps, WithoutWrite, CommitKeeps DEF SessionStep
<1>4. CASE UNCHANGED vars
  BY <1>4 DEF vars, IInv, TypeOK, Untouched, OpsGood, OpGood, CopiesGood, CopyGood,
              DecidedIsComplete
<1> QED
  BY <1>1, <1>2, <1>3, <1>4 DEF Next

(* Rows, sessions and the queue keep their types.                          *)
THEOREM TypeCorrect == Spec => []TypeOK
<1>1. IInv => TypeOK
  BY DEF IInv
<1> QED
  BY <1>1, InitIInv, NextIInv, PTL DEF Spec

(* The queue shows no decided item, unless a PATCH went past it.           *)
THEOREM QueueIsUndecided == Spec => []QueuedIsPending
<1>1. IInv => QueuedIsPending
  BY DEF IInv, Untouched, QueuedIsPending, Unreviewed
<1> QED
  BY <1>1, InitIInv, NextIInv, PTL DEF Spec

(* An item that has left the queue is decided, by an admin and with a      *)
(* reason if rejected, whatever stale copies the decisions were made from. *)
THEOREM DecisionsAreComplete == Spec => []DecidedIsComplete
<1>1. IInv => DecidedIsComplete
  BY DEF IInv
<1> QED
  BY <1>1, InitIInv, NextIInv, PTL DEF Spec
====
