---- MODULE UserData_proofs ----
(***************************************************************************)
(* Proofs about what the site keeps of its users: their wish lists         *)
(* (Wishlists) and their interactions with items (Interactions).  The two  *)
(* share no state; their inductive invariants are WishlistInv and          *)
(* InteractInv.                                                            *)
(***************************************************************************)
EXTENDS Wishlists, Interactions, SetLemmas, FiniteSetTheorems, TLAPS

----
(* Wish lists, for any users, lists, items, tokens and any number of       *)
(* overlapping requests.  The invariant says what the statement a request  *)
(* has sent means for the committed rows as long as its locks last (Held), *)
(* and that the locks of two requests on one list are compatible           *)
(* (LocksApart).                                                           *)
\* The lock that the statement of each operation takes.
LockOf(op) == CASE op = "add" -> {"ref"} [] op = "remove" -> {"entry"}
                [] op = "delete" -> {"drop"} [] op = "update" -> {"row"}
                [] op = "share" -> {"none", "row", "key"} [] op = "create" -> {"none"}
                [] OTHER -> {}

(* What is true of the rows between a request's flush and its commit. *)
Held(q) ==
    /\ q.lock \in LockOf(q.op)
    /\ q.op = "create" => lists[q.list] = Unborn /\ q.put \in LiveRows /\ q.put.token = NoToken
    /\ q.op # "create" => lists[q.list] # Unborn
    /\ q.lock # "none" => Live(q.list)
    /\ q.op = "add" => <<q.list, q.item>> \notin entries
    /\ q.op = "remove" => <<q.list, q.item>> \in entries
    /\ q.lock = "row" => q.put \in LiveRows /\ q.put.token = lists[q.list].token
    /\ q.lock = "key" => /\ q.row \in LiveRows /\ q.row.token = NoToken
                         /\ q.put \in LiveRows /\ q.put.token \in Tokens
    /\ q.op = "share" => /\ q.row \in LiveRows /\ q.put \in LiveRows /\ q.put.token \in Tokens
                         /\ q.lock = "row" => q.row.token # NoToken
                         /\ q.lock = "none" => q.row.token = q.put.token
HeldRows == \A r \in Requests : req[r].pc = "flushed" => Held(req[r])

LocksApart ==
    \A r, s \in Requests :
        /\ r # s /\ req[r].pc = "flushed" /\ req[s].pc = "flushed"
        /\ req[s].list = req[r].list
        => /\ ~Conflict(req[r].lock, req[s].lock)
           /\ {req[r].lock, req[s].lock} \subseteq {"ref", "entry"} => req[s].item # req[r].item
           /\ ~(req[r].op = "create" /\ req[s].op = "create")

(* A checked request has loaded a row, so that its list has been born; and *)
(* a list that had a token then has one.                                   *)
CheckedRows ==
    \A r \in Requests : req[r].pc = "checked" =>
        /\ req[r].op \in {"update", "delete", "add", "remove", "share", "shared"}
        /\ req[r].row \in LiveRows /\ lists[req[r].list] # Unborn
        /\ req[r].row.token # NoToken /\ Live(req[r].list) => lists[req[r].list].token # NoToken

(* Nothing is known of a list that has not been born. *)
UnbornIsNew ==
    \A l \in Lists : lists[l] = Unborn =>
        handed[l] = {} /\ \A i \in Items : net[<<l, i>>] = 0
Requested == [pc : {"idle", "checked", "flushed", "done"}, op : Ops, list : Lists, item : Items,
              row : LiveRows \cup {Gone}, put : LiveRows \cup {Gone}, lock : Locks,
              change : Changes, out : Answers]

WishlistInv ==
    /\ TypeOK /\ AnswersMatchEntries /\ LinksStayGood /\ FailuresNeedADelete
    /\ HeldRows /\ LocksApart /\ CheckedRows /\ UnbornIsNew

----
(* The rows of the table. *)
LEMMA RowFacts ==
  /\ Unborn # Gone /\ Unborn \notin LiveRows /\ Gone \notin LiveRows
  /\ \A row \in LiveRows : row.state = "live" /\ row.token \in Tokens \cup {NoToken}
                           /\ row.public \in BOOLEAN /\ row.owner \in Users
  /\ \A row \in LiveRows : \A p \in BOOLEAN :
        [row EXCEPT !.public = p] \in LiveRows /\ [row EXCEPT !.public = p].token = row.token
  /\ \A u \in Users, p \in BOOLEAN, t \in Tokens \cup {NoToken} :
        Row(u, p, t) \in LiveRows /\ Row(u, p, t).token = t
<1>1. Unborn # Gone
  BY DEF Unborn, Gone
<1>2. \A row \in LiveRows : row.state = "live" /\ row.token \in Tokens \cup {NoToken}
                            /\ row.public \in BOOLEAN /\ row.owner \in Users
  BY DEF LiveRows, Row
<1>3. Unborn \notin LiveRows /\ Gone \notin LiveRows
  <2>1. Unborn.state = "unborn" /\ Gone.state = "gone"
    BY DEF Unborn, Gone
  <2> QED
    BY <1>2, <2>1
<1>4. ASSUME NEW row \in LiveRows, NEW p \in BOOLEAN
      PROVE  [row EXCEPT !.public = p] \in LiveRows /\ [row EXCEPT !.public = p].token = row.token
  <2>1. PICK u \in Users, o \in BOOLEAN, v \in Tokens \cup {NoToken} : row = Row(u, o, v)
    BY DEF LiveRows
  <2>2. [row EXCEPT !.public = p] = Row(u, p, v)
    BY <2>1 DEF Row
  <2>3. Row(u, p, v) \in LiveRows /\ Row(u, p, v).token = v /\ row.token = v
    BY <2>1 DEF LiveRows, Row
  <2> QED
    BY <2>2, <2>3
<1>5. \A u \in Users, p \in BOOLEAN, t \in Tokens \cup {NoToken} : Row(u, p, t) \in LiveRows
                                                               /\ Row(u, p, t).token = t
  BY DEF LiveRows, Row
<1> QED
  BY <1>1, <1>2, <1>3, <1>4, <1>5

LEMMA LiveFacts ==
  ASSUME TypeOK, NEW l \in Lists
  PROVE  /\ Live(l) <=> lists[l] \in LiveRows
         /\ ~Live(l) /\ lists[l] # Unborn => lists[l] = Gone
         /\ Live(l) => lists[l] # Unborn /\ lists[l] # Gone
<1>1. lists[l] \in LiveRows \cup {Unborn, Gone}
  BY DEF TypeOK
<1>2. Unborn.state = "unborn" /\ Gone.state = "gone"
  BY DEF Unborn, Gone
<1> QED
  BY <1>1, <1>2, RowFacts DEF Live

(* The locks that exclude each other. *)
LEMMA ConflictFacts ==
  /\ \A a, b : Conflict(a, b) <=> Conflict(b, a)
  /\ \A a \in Locks : ~Conflict("none", a) /\ ~Conflict(a, "none")
  /\ \A a \in Locks : ~Conflict(a, "drop") => a = "none"
  /\ \A a \in {"row", "key"} : \A b \in {"row", "key"} : Conflict(a, b)
<1>1. \A a, b : {a, b} = {b, a}
  OBVIOUS
<1>2. \A a, b : Conflict(a, b) <=> Conflict(b, a)
  BY <1>1 DEF Conflict
<1>3. \A a : "none" \in {"none", a}
  OBVIOUS
<1>4. \A a : ~Conflict("none", a)
  BY <1>3 DEF Conflict
<1>5. \A a \in Locks : ~Conflict(a, "drop") => a = "none"
  BY DEF Conflict, Locks
<1>6. \A a \in {"row", "key"} : \A b \in {"row", "key"} : Conflict(a, b)
  BY <1>2 DEF Conflict
<1> QED
  BY <1>2, <1>4, <1>5, <1>6

LEMMA TypeForm == TypeOK <=>
    /\ lists \in [Lists -> LiveRows \cup {Unborn, Gone}]
    /\ entries \subseteq Pairs
    /\ net \in [Pairs -> Int]
    /\ handed \in [Lists -> SUBSET Tokens] /\ overlapped \subseteq Lists
    /\ req \in [Requests -> Requested]
BY DEF TypeOK, Requested

LEMMA IdleFacts ==
  /\ Idle \in Requested
  /\ Idle.pc = "idle" /\ Idle.out = "open" /\ Idle.change = "none" /\ Idle.lock = "none"
  /\ Idle.row = Gone /\ Idle.put = Gone
<1>1. (CHOOSE l \in Lists : TRUE) \in Lists /\ (CHOOSE i \in Items : TRUE) \in Items
  BY WishlistAssumption
<1> QED
  BY <1>1 DEF Idle, Requested, Ops, Changes, Answers, Locks

(* A request is answered: its record is as good as idle. *)
LEMMA AnswerFacts ==
  ASSUME TypeOK, NEW r \in Requests, NEW out \in Answers, Answer(r, out)
  PROVE  /\ req' \in [Requests -> Requested]
         /\ req'[r].pc = "done" /\ req'[r].out = out
         /\ \A s \in Requests \ {r} : req'[s] = req[s]
<1> DEFINE q == [Idle EXCEPT !.pc = "done", !.out = out]
<1>1. q \in Requested /\ q.pc = "done" /\ q.out = out
  BY IdleFacts DEF Requested
<1>2. req' = [req EXCEPT ![r] = q]
  BY DEF Answer
<1> HIDE DEF q
<1> QED
  BY <1>1, <1>2, TypeForm

(* A step of one request that leaves the tables and the history alone. *)
LEMMA OwnStep ==
  ASSUME WishlistInv, NEW r \in Requests, UNCHANGED <<lists, entries, net, handed, overlapped>>,
         req' \in [Requests -> Requested],
         \A s \in Requests \ {r} : req'[s] = req[s],
         req'[r].out = "500" => req'[r].change = "null" \/ \E l \in Lists : lists[l] = Gone,
         req'[r].pc = "flushed" => Held(req'[r]),
         req'[r].pc = "checked" =>
            /\ req'[r].op \in {"update", "delete", "add", "remove", "share", "shared"}
            /\ req'[r].row \in LiveRows /\ lists[req'[r].list] # Unborn
            /\ req'[r].row.token # NoToken /\ Live(req'[r].list)
                   => lists[req'[r].list].token # NoToken,
         req'[r].pc = "flushed" =>
            \A s \in Requests \ {r} :
               req[s].pc = "flushed" /\ req[s].list = req'[r].list =>
                  /\ ~Conflict(req'[r].lock, req[s].lock)
                  /\ {req'[r].lock, req[s].lock} \subseteq {"ref", "entry"} =>
                         req[s].item # req'[r].item
                  /\ ~(req'[r].op = "create" /\ req[s].op = "create")
  PROVE  WishlistInv'
<1>1. TypeOK' /\ AnswersMatchEntries' /\ LinksStayGood' /\ UnbornIsNew'
  BY TypeForm DEF WishlistInv, TypeOK, Requested, AnswersMatchEntries, LinksStayGood, UnbornIsNew, Live
<1>2. FailuresNeedADelete'
  BY DEF WishlistInv, FailuresNeedADelete
<1>3. HeldRows'
  <2>1. \A s \in Requests : req'[s].pc = "flushed" => Held(req'[s])
    BY DEF WishlistInv, HeldRows
  <2> QED
    BY <2>1 DEF HeldRows, Held, Live
<1>4. CheckedRows'
  <2>1. \A s \in Requests : req'[s].pc = "checked" =>
            /\ req'[s].op \in {"update", "delete", "add", "remove", "share", "shared"}
            /\ req'[s].row \in LiveRows /\ lists[req'[s].list] # Unborn
            /\ req'[s].row.token # NoToken /\ Live(req'[s].list)
                   => lists[req'[s].list].token # NoToken
    BY DEF WishlistInv, CheckedRows
  <2> QED
    BY <2>1 DEF CheckedRows, Live
<1>5. LocksApart'
  <2> SUFFICES ASSUME NEW q \in Requests, NEW s \in Requests, q # s, req'[q].pc = "flushed",
                      req'[s].pc = "flushed", req'[s].list = req'[q].list
               PROVE  /\ ~Conflict(req'[q].lock, req'[s].lock)
                      /\ {req'[q].lock, req'[s].lock} \subseteq {"ref", "entry"} =>
                             req'[s].item # req'[q].item
                      /\ ~(req'[q].op = "create" /\ req'[s].op = "create")
    BY DEF LocksApart, Conflict
  <2>1. CASE q # r /\ s # r
    BY <2>1 DEF WishlistInv, LocksApart
  <2>2. CASE q = r
    BY <2>2
  <2>3. CASE s = r
    BY <2>3, ConflictFacts
  <2> QED
    BY <2>1, <2>2, <2>3
<1> QED
  BY <1>1, <1>2, <1>3, <1>4, <1>5 DEF WishlistInv

(* An answer writes nothing; a 500 needs a list that is gone. *)
LEMMA AnswerStep ==
  ASSUME WishlistInv, NEW r \in Requests, NEW out \in Answers, Answer(r, out),
         UNCHANGED <<lists, entries, net, handed, overlapped>>,
         out = "500" => \E l \in Lists : lists[l] = Gone
  PROVE  WishlistInv'
<1>1. /\ req' \in [Requests -> Requested]
      /\ req'[r].pc = "done" /\ req'[r].out = out
      /\ \A s \in Requests \ {r} : req'[s] = req[s]
  BY AnswerFacts DEF WishlistInv
<1> QED
  BY <1>1, OwnStep

(* A statement is sent: put is what it writes and lock what it holds. *)
LEMMA FlushStep ==
  ASSUME WishlistInv, NEW r \in Requests, NEW lock \in Locks, NEW put \in LiveRows \cup {Gone},
         req[r].pc = "checked", Flush(r, lock, put),
         UNCHANGED <<lists, entries, net, handed, overlapped>>,
         lock # "none" => MayLock(r, lock),
         Held([req[r] EXCEPT !.pc = "flushed", !.lock = lock, !.put = put])
  PROVE  WishlistInv'
<1> DEFINE q == [req[r] EXCEPT !.pc = "flushed", !.lock = lock, !.put = put]
<1>0. req[r] \in Requested
  BY TypeForm DEF WishlistInv
<1>1. /\ q \in Requested /\ q.pc = "flushed" /\ q.lock = lock /\ q.put = put
      /\ q.op = req[r].op /\ q.list = req[r].list /\ q.item = req[r].item
      /\ q.row = req[r].row /\ q.out = req[r].out /\ q.change = req[r].change
  BY <1>0 DEF Requested
<1>2. req' = [req EXCEPT ![r] = q] /\ Held(q)
  BY DEF Flush
<1> HIDE DEF q
<1>3. /\ req' \in [Requests -> Requested] /\ req'[r] = q
      /\ \A s \in Requests \ {r} : req'[s] = req[s]
  BY <1>1, <1>2, TypeForm DEF WishlistInv
<1>4. q.out = "500" => q.change = "null" \/ \E l \in Lists : lists[l] = Gone
  BY <1>1 DEF WishlistInv, FailuresNeedADelete
<1>5. req[r].op # "create"
  BY DEF WishlistInv, CheckedRows
<1>6. ASSUME NEW s \in Requests \ {r}, req[s].pc = "flushed", req[s].list = req[r].list
      PROVE  /\ ~Conflict(lock, req[s].lock)
             /\ {lock, req[s].lock} \subseteq {"ref", "entry"} => req[s].item # req[r].item
  <2>1. req[s].lock \in Locks
    BY TypeForm DEF WishlistInv, Requested
  <2>2. CASE lock = "none"
    BY <2>1, <2>2, ConflictFacts
  <2>3. CASE lock # "none"
    BY <1>6, <2>3 DEF MayLock
  <2> QED
    BY <2>2, <2>3
<1> QED
  BY <1>1, <1>2, <1>3, <1>4, <1>5, <1>6, OwnStep

LEMMA LoadStep ==
  ASSUME WishlistInv, NEW r \in Requests, NEW u \in Users, NEW op \in Ops, NEW l \in Lists,
         NEW i \in Items, NEW c \in Changes, Load(r, u, op, l, i, c)
  PROVE  WishlistInv'
<1>1. CASE \E out \in {"403", "404"} : Answer(r, out)
  BY <1>1, AnswerStep DEF Load, Answers
<1>2. CASE Live(l) /\ Begin(r, op, l, i, c)
  <2> DEFINE q == [Idle EXCEPT !.pc = "checked", !.op = op, !.list = l, !.item = i,
                               !.row = lists[l], !.change = c]
  <2>1. lists[l] \in LiveRows /\ lists[l] # Unborn
    BY <1>2, LiveFacts DEF WishlistInv
  <2>2. /\ q \in Requested /\ q.pc = "checked" /\ q.op = op /\ q.list = l
        /\ q.row = lists[l] /\ q.out = "open"
    BY <2>1, IdleFacts DEF Requested
  <2>3. req' = [req EXCEPT ![r] = q]
    BY <1>2 DEF Begin
  <2> HIDE DEF q
  <2>4. /\ req' \in [Requests -> Requested] /\ req'[r] = q
        /\ \A s \in Requests \ {r} : req'[s] = req[s]
    BY <2>2, <2>3, TypeForm DEF WishlistInv
  <2>5. /\ op \in {"update", "delete", "add", "remove", "share", "shared"}
        /\ UNCHANGED <<lists, entries, net, handed, overlapped>>
    BY DEF Load
  <2> QED
    BY <2>1, <2>2, <2>4, <2>5, OwnStep
<1> QED
  BY <1>1, <1>2 DEF Load

LEMMA FindSharedStep ==
  ASSUME WishlistInv, NEW r \in Requests, NEW t \in Tokens, FindShared(r, t)
  PROVE  WishlistInv'
<1> DEFINE found == {l \in Lists : Live(l) /\ lists[l].token = t /\ lists[l].public}
<1>1. CASE found = {}
  BY <1>1, AnswerStep DEF FindShared, Answers
<1>2. CASE found # {}
  <2>1. PICK l \in Lists : Live(l) /\ Begin(r, "shared", l, Idle.item, "none")
    BY <1>2 DEF FindShared
  <2> DEFINE q == [Idle EXCEPT !.pc = "checked", !.op = "shared", !.list = l, !.item = Idle.item,
                               !.row = lists[l], !.change = "none"]
  <2>2. lists[l] \in LiveRows /\ lists[l] # Unborn
    BY <2>1, LiveFacts DEF WishlistInv
  <2>3. /\ q \in Requested /\ q.pc = "checked" /\ q.op = "shared" /\ q.list = l
        /\ q.row = lists[l] /\ q.out = "open"
    BY <2>2, IdleFacts DEF Requested, Ops, Changes
  <2>4. req' = [req EXCEPT ![r] = q]
    BY <2>1 DEF Begin
  <2> HIDE DEF q
  <2>5. /\ req' \in [Requests -> Requested] /\ req'[r] = q
        /\ \A s \in Requests \ {r} : req'[s] = req[s]
    BY <2>3, <2>4, TypeForm DEF WishlistInv
  <2>6. UNCHANGED <<lists, entries, net, handed, overlapped>>
    BY DEF FindShared
  <2> QED
    BY <2>2, <2>3, <2>5, <2>6, OwnStep
<1> QED
  BY <1>1, <1>2

LEMMA CreateStep ==
  ASSUME WishlistInv, NEW r \in Requests, NEW u \in Users, NEW l \in Lists, NEW p \in BOOLEAN,
         CreateWishlist(r, u, l, p)
  PROVE  WishlistInv'
<1> DEFINE row == Row(u, p, NoToken)
           q == [Idle EXCEPT !.pc = "flushed", !.op = "create", !.list = l, !.put = row]
<1>1. row \in LiveRows /\ row.token = NoToken
  BY RowFacts
<1>2. req' = [req EXCEPT ![r] = q]
  BY DEF CreateWishlist
<1> HIDE DEF row
<1>3. /\ q \in Requested /\ q.pc = "flushed" /\ q.op = "create" /\ q.list = l /\ q.put = row
      /\ q.lock = "none" /\ q.out = "open"
  BY <1>1, IdleFacts DEF Requested, Ops
<1> HIDE DEF q
<1>4. /\ req' \in [Requests -> Requested] /\ req'[r] = q
      /\ \A s \in Requests \ {r} : req'[s] = req[s]
  BY <1>2, <1>3, TypeForm DEF WishlistInv
<1>5. Held(q)
  BY <1>1, <1>3 DEF Held, LockOf, CreateWishlist
<1>6. /\ \A s \in Requests \ {r} : req[s].pc = "flushed" => req[s].list # l
      /\ UNCHANGED <<lists, entries, net, handed, overlapped>>
  BY DEF CreateWishlist
<1> QED
  BY <1>3, <1>4, <1>5, <1>6, OwnStep

LEMMA GetStep ==
  ASSUME WishlistInv, NEW r \in Requests, NEW u \in Users, NEW l \in Lists, GetWishlist(r, u, l)
  PROVE  WishlistInv'
<1>1. \E out \in {"404", "ok", "403"} : Answer(r, out)
  BY DEF GetWishlist
<1> QED
  BY <1>1, AnswerStep DEF GetWishlist, Answers

(* A list that was there when the request checked it, and is not, is gone. *)
LEMMA NotLiveIsGone ==
  ASSUME WishlistInv, NEW r \in Requests, req[r].pc = "checked", ~Live(req[r].list)
  PROVE  \E l \in Lists : lists[l] = Gone
<1>1. req[r].list \in Lists /\ lists[req[r].list] # Unborn
  BY TypeForm DEF WishlistInv, CheckedRows, Requested
<1> QED
  BY <1>1, LiveFacts DEF WishlistInv

LEMMA FetchSharedStep ==
  ASSUME WishlistInv, NEW r \in Requests, FetchShared(r)
  PROVE  WishlistInv'
BY AnswerStep, NotLiveIsGone DEF FetchShared, Answers

(* What the record of a statement says, and that it holds what it should. *)
LEMMA FlushedFacts ==
  ASSUME WishlistInv, NEW r \in Requests, req[r].pc = "checked",
         NEW lock \in Locks, NEW put \in LiveRows \cup {Gone}
  PROVE  LET q == [req[r] EXCEPT !.pc = "flushed", !.lock = lock, !.put = put]
         IN  /\ q.lock = lock /\ q.put = put /\ q.op = req[r].op /\ q.list = req[r].list
             /\ q.item = req[r].item /\ q.row = req[r].row
             /\ q.list \in Lists /\ q.item \in Items /\ q.row \in LiveRows
             /\ lists[q.list] # Unborn
<1>1. req[r] \in Requested /\ req[r].row \in LiveRows /\ lists[req[r].list] # Unborn
  BY TypeForm DEF WishlistInv, CheckedRows
<1> QED
  BY <1>1 DEF Requested

LEMMA FlushUpdateStep ==
  ASSUME WishlistInv, NEW r \in Requests, FlushUpdate(r)
  PROVE  WishlistInv'
<1> DEFINE l == req[r].list
<1>0. /\ req[r].pc = "checked" /\ req[r].op = "update"
      /\ UNCHANGED <<lists, entries, net, handed, overlapped>>
  BY DEF FlushUpdate
<1>1. CASE req' = [req EXCEPT ![r] = [Idle EXCEPT !.pc = "done", !.out = "500",
                                                  !.change = "null"]]
  <2> DEFINE q == [Idle EXCEPT !.pc = "done", !.out = "500", !.change = "null"]
  <2>1. q \in Requested /\ q.pc = "done" /\ q.change = "null"
    BY IdleFacts DEF Requested, Answers, Changes
  <2>2. req' = [req EXCEPT ![r] = q]
    BY <1>1
  <2> HIDE DEF q
  <2>3. /\ req' \in [Requests -> Requested] /\ req'[r] = q
        /\ \A s \in Requests \ {r} : req'[s] = req[s]
    BY <2>1, <2>2, TypeForm DEF WishlistInv
  <2> QED
    BY <1>0, <2>1, <2>3, OwnStep
<1>2. CASE ~Live(l) /\ Answer(r, "500")
  BY <1>0, <1>2, AnswerStep, NotLiveIsGone DEF Answers
<1>3. CASE Answer(r, "ok")
  BY <1>0, <1>3, AnswerStep DEF Answers
<1>4. CASE /\ Live(l) /\ MayLock(r, "row")
           /\ \E put \in {lists[l], [lists[l] EXCEPT !.public = ~req[r].row.public]} :
                 Flush(r, "row", put)
  <2>1. PICK put \in {lists[l], [lists[l] EXCEPT !.public = ~req[r].row.public]} :
                 Flush(r, "row", put)
    BY <1>4
  <2>2. l \in Lists /\ req[r].row \in LiveRows
    BY <1>0, TypeForm DEF WishlistInv, CheckedRows, Requested
  <2>3. lists[l] \in LiveRows /\ lists[l] # Unborn
    BY <1>4, <2>2, LiveFacts DEF WishlistInv
  <2>4. (~req[r].row.public) \in BOOLEAN
    OBVIOUS
  <2>5. put \in LiveRows /\ put.token = lists[l].token
    BY <2>1, <2>3, <2>4, RowFacts
  <2> DEFINE q == [req[r] EXCEPT !.pc = "flushed", !.lock = "row", !.put = put]
  <2>6. /\ q.lock = "row" /\ q.put = put /\ q.op = "update" /\ q.list = l
    BY <1>0, <2>5, FlushedFacts DEF Locks
  <2> HIDE DEF q
  <2>7. Held(q)
    BY <1>4, <2>3, <2>5, <2>6 DEF Held, LockOf
  <2> QED
    BY <1>0, <1>4, <2>1, <2>5, <2>7, FlushStep DEF Locks, q
<1> QED
  BY <1>1, <1>2, <1>3, <1>4 DEF FlushUpdate

LEMMA FlushDeleteStep ==
  ASSUME WishlistInv, NEW r \in Requests, FlushDelete(r)
  PROVE  WishlistInv'
<1>0. /\ req[r].pc = "checked" /\ req[r].op = "delete" /\ MayLock(r, "drop")
      /\ UNCHANGED <<lists, entries, net, handed, overlapped>>
  BY DEF FlushDelete
<1>1. CASE Answer(r, "ok")
  BY <1>0, <1>1, AnswerStep DEF Answers
<1>2. CASE Live(req[r].list) /\ Flush(r, "drop", Gone)
  <2> DEFINE q == [req[r] EXCEPT !.pc = "flushed", !.lock = "drop", !.put = Gone]
  <2>1. q.lock = "drop" /\ q.op = "delete" /\ q.list = req[r].list /\ lists[q.list] # Unborn
    BY <1>0, FlushedFacts DEF Locks
  <2> HIDE DEF q
  <2>2. Held(q)
    BY <1>2, <2>1 DEF Held, LockOf
  <2> QED
    BY <1>0, <1>2, <2>2, FlushStep DEF Locks, q
<1> QED
  BY <1>1, <1>2 DEF FlushDelete

LEMMA FlushAddStep ==
  ASSUME WishlistInv, NEW r \in Requests, FlushAdd(r)
  PROVE  WishlistInv'
<1>0. /\ req[r].pc = "checked" /\ req[r].op = "add" /\ MayLock(r, "ref")
      /\ UNCHANGED <<lists, entries, net, handed, overlapped>>
  BY DEF FlushAdd
<1>1. CASE Answer(r, "409")
  BY <1>0, <1>1, AnswerStep DEF Answers
<1>2. CASE /\ Live(req[r].list) /\ <<req[r].list, req[r].item>> \notin entries
           /\ Flush(r, "ref", Gone)
  <2> DEFINE q == [req[r] EXCEPT !.pc = "flushed", !.lock = "ref", !.put = Gone]
  <2>1. /\ q.lock = "ref" /\ q.op = "add" /\ q.list = req[r].list /\ q.item = req[r].item
        /\ lists[q.list] # Unborn
    BY <1>0, FlushedFacts DEF Locks
  <2> HIDE DEF q
  <2>2. Held(q)
    BY <1>2, <2>1 DEF Held, LockOf
  <2> QED
    BY <1>0, <1>2, <2>2, FlushStep DEF Locks, q
<1> QED
  BY <1>1, <1>2 DEF FlushAdd

LEMMA FlushRemoveStep ==
  ASSUME WishlistInv, NEW r \in Requests, FlushRemove(r)
  PROVE  WishlistInv'
<1>0. /\ req[r].pc = "checked" /\ req[r].op = "remove" /\ MayLock(r, "entry")
      /\ UNCHANGED <<lists, entries, net, handed, overlapped>>
  BY DEF FlushRemove
<1>1. CASE Answer(r, "404")
  BY <1>0, <1>1, AnswerStep DEF Answers
<1>2. CASE <<req[r].list, req[r].item>> \in entries /\ Flush(r, "entry", Gone)
  <2> DEFINE q == [req[r] EXCEPT !.pc = "flushed", !.lock = "entry", !.put = Gone]
  <2>1. /\ q.lock = "entry" /\ q.op = "remove" /\ q.list = req[r].list /\ q.item = req[r].item
        /\ lists[q.list] # Unborn /\ <<q.list, q.item>> \in Pairs
    BY <1>0, FlushedFacts DEF Locks, Pairs
  <2> HIDE DEF q
  <2>2. Live(q.list)
    BY <1>2, <2>1 DEF WishlistInv, AnswersMatchEntries
  <2>3. Held(q)
    BY <1>2, <2>1, <2>2 DEF Held, LockOf
  <2> QED
    BY <1>0, <1>2, <2>3, FlushStep DEF Locks, q
<1> QED
  BY <1>1, <1>2 DEF FlushRemove

LEMMA FlushShareStep ==
  ASSUME WishlistInv, NEW r \in Requests, FlushShare(r)
  PROVE  WishlistInv'
<1> DEFINE l == req[r].list
           row == req[r].row
<1>0. /\ req[r].pc = "checked" /\ req[r].op = "share"
      /\ UNCHANGED <<lists, entries, net, handed, overlapped>>
  BY DEF FlushShare
<1>a. l \in Lists /\ row \in LiveRows /\ row.token \in Tokens \cup {NoToken} /\ NoToken \notin Tokens
  BY <1>0, TypeForm, RowFacts, WishlistAssumption DEF WishlistInv, CheckedRows, Requested
<1>1. CASE row.token # NoToken /\ Flush(r, "none", row)
  <2> DEFINE q == [req[r] EXCEPT !.pc = "flushed", !.lock = "none", !.put = row]
  <2>1. /\ q.lock = "none" /\ q.put = row /\ q.row = row /\ q.op = "share"
        /\ lists[q.list] # Unborn
    BY <1>0, <1>a, FlushedFacts DEF Locks
  <2> HIDE DEF q
  <2>2. Held(q)
    BY <1>1, <1>a, <2>1 DEF Held, LockOf
  <2> QED
    BY <1>0, <1>1, <1>a, <2>2, FlushStep DEF Locks, q
<1>2. CASE ~Live(l) /\ Answer(r, "500")
  BY <1>0, <1>2, AnswerStep, NotLiveIsGone DEF Answers
<1>3. CASE /\ row.token # NoToken /\ MayLock(r, "row") /\ Live(l)
           /\ Flush(r, "row", Row(lists[l].owner, lists[l].public \/ ~row.public,
                                  lists[l].token))
  <2> DEFINE put == Row(lists[l].owner, lists[l].public \/ ~row.public, lists[l].token)
             q == [req[r] EXCEPT !.pc = "flushed", !.lock = "row", !.put = put]
  <2>1. lists[l] \in LiveRows
    BY <1>3, <1>a, LiveFacts DEF WishlistInv
  <2>2. /\ lists[l].owner \in Users /\ lists[l].token \in Tokens \cup {NoToken}
        /\ (lists[l].public \/ ~row.public) \in BOOLEAN
    BY <2>1, RowFacts
  <2>3. put \in LiveRows /\ put.token = lists[l].token
    <3>1. \A u \in Users, p \in BOOLEAN, t \in Tokens \cup {NoToken} :
             Row(u, p, t) \in LiveRows /\ Row(u, p, t).token = t
      BY RowFacts
    <3>2. PICK p \in BOOLEAN : p = (lists[l].public \/ ~row.public)
      BY <2>2
    <3>3. put = Row(lists[l].owner, p, lists[l].token)
      BY <3>2
    <3> HIDE DEF put
    <3> QED
      BY <2>2, <3>1, <3>3
  <2>4. lists[l].token # NoToken
    BY <1>0, <1>3 DEF WishlistInv, CheckedRows
  <2>5. Flush(r, "row", put)
    BY <1>3
  <2> HIDE DEF put
  <2>6. /\ q.lock = "row" /\ q.put = put /\ q.row = row /\ q.op = "share" /\ q.list = l
        /\ lists[q.list] # Unborn
    BY <1>0, <2>3, FlushedFacts DEF Locks
  <2>7. put.token \in Tokens
    BY <2>2, <2>3, <2>4
  <2> HIDE DEF q
  <2>8. Held(q)
    BY <1>3, <1>a, <2>3, <2>6, <2>7 DEF Held, LockOf
  <2> QED
    BY <1>0, <1>3, <2>3, <2>5, <2>8, FlushStep DEF Locks, q
<1>4. CASE /\ row.token = NoToken /\ MayLock(r, "key") /\ Live(l)
           /\ \E t \in Tokens : Unused(t)
           /\ Flush(r, "key", Row(lists[l].owner, lists[l].public \/ ~row.public, Fresh))
  <2> DEFINE put == Row(lists[l].owner, lists[l].public \/ ~row.public, Fresh)
             q == [req[r] EXCEPT !.pc = "flushed", !.lock = "key", !.put = put]
  <2>1. lists[l] \in LiveRows
    BY <1>4, <1>a, LiveFacts DEF WishlistInv
  <2>2. Fresh \in Tokens /\ Fresh \in Tokens \cup {NoToken}
    BY <1>4 DEF Fresh
  <2>3. /\ lists[l].owner \in Users
        /\ (lists[l].public \/ ~row.public) \in BOOLEAN
    BY <2>1, RowFacts
  <2>4. put \in LiveRows /\ put.token \in Tokens
    BY <2>2, <2>3, RowFacts
  <2>5. Flush(r, "key", put)
    BY <1>4
  <2> HIDE DEF put
  <2>6. /\ q.lock = "key" /\ q.put = put /\ q.row = row /\ q.op = "share" /\ q.list = l
        /\ lists[q.list] # Unborn
    BY <1>0, <2>4, FlushedFacts DEF Locks
  <2> HIDE DEF q
  <2>7. Held(q)
    BY <1>4, <1>a, <2>4, <2>6 DEF Held, LockOf
  <2> QED
    BY <1>0, <1>4, <2>4, <2>5, <2>7, FlushStep DEF Locks, q
<1> QED
  BY <1>1, <1>2, <1>3, <1>4 DEF FlushShare

----
(* What a commit must not do to keep the invariant: bring a list back,     *)
(* take a token away, or pull a row from under another request's lock.     *)
LEMMA CommittedStep ==
  ASSUME WishlistInv, NEW r \in Requests, Answer(r, "ok"),
         lists' \in [Lists -> LiveRows \cup {Unborn, Gone}], entries' \subseteq Pairs,
         net' \in [Pairs -> Int], handed' \in [Lists -> SUBSET Tokens],
         overlapped' \subseteq Lists,
         \A l \in Lists : lists[l] # Unborn =>
            /\ lists'[l] # Unborn
            /\ lists[l] = Gone => lists'[l] = Gone
            /\ lists'[l].state = "live" => Live(l)
            /\ lists'[l].state = "live" /\ lists[l].token # NoToken => lists'[l].token # NoToken,
         \A l \in Lists : lists'[l] = Unborn =>
            /\ lists[l] = Unborn /\ handed'[l] = handed[l]
            /\ \A i \in Items : net'[<<l, i>>] = net[<<l, i>>],
         \A s \in Requests \ {r} : \A q \in Requested :
            q = req[s] /\ q.pc = "flushed" => Held(q)',
         AnswersMatchEntries', LinksStayGood'
  PROVE  WishlistInv'
<1>1. /\ req' \in [Requests -> Requested] /\ req'[r].pc = "done" /\ req'[r].out = "ok"
      /\ \A s \in Requests \ {r} : req'[s] = req[s]
  BY AnswerFacts DEF WishlistInv, Answers
<1>2. TypeOK'
  BY <1>1 DEF TypeOK, Requested
<1>3. FailuresNeedADelete'
  <2> SUFFICES ASSUME NEW s \in Requests, req'[s].out = "500"
               PROVE  req'[s].change = "null" \/ \E l \in Lists : lists'[l] = Gone
    BY DEF FailuresNeedADelete
  <2>1. req[s].out = "500" /\ req'[s] = req[s]
    BY <1>1
  <2>2. req[s].change = "null" \/ \E l \in Lists : lists[l] = Gone
    BY <2>1 DEF WishlistInv, FailuresNeedADelete
  <2> QED
    BY <2>1, <2>2, RowFacts
<1>4. HeldRows'
  <2> SUFFICES ASSUME NEW s \in Requests, req'[s].pc = "flushed"
               PROVE  Held(req[s])' 
    BY DEF HeldRows
  <2>1. s # r /\ req'[s] = req[s]
    BY <1>1
  <2>2. PICK q \in Requested : q = req[s]
    BY TypeForm DEF WishlistInv
  <2>3. Held(q)' /\ q = req'[s]
    BY <2>1, <2>2
  <2> QED
    BY <2>3 DEF Held
<1>5. LocksApart'
  <2> SUFFICES ASSUME NEW q \in Requests, NEW s \in Requests, q # s, req'[q].pc = "flushed",
                      req'[s].pc = "flushed", req'[s].list = req'[q].list
               PROVE  /\ ~Conflict(req'[q].lock, req'[s].lock)
                      /\ {req'[q].lock, req'[s].lock} \subseteq {"ref", "entry"} =>
                             req'[s].item # req'[q].item
                      /\ ~(req'[q].op = "create" /\ req'[s].op = "create")
    BY DEF LocksApart, Conflict
  <2>1. req'[q] = req[q] /\ req'[s] = req[s]
    BY <1>1
  <2> QED
    BY <2>1 DEF WishlistInv, LocksApart
<1>6. CheckedRows'
  <2> SUFFICES ASSUME NEW s \in Requests, req'[s].pc = "checked"
               PROVE  /\ req'[s].op \in {"update", "delete", "add", "remove", "share", "shared"}
                      /\ req'[s].row \in LiveRows /\ lists'[req'[s].list] # Unborn
                      /\ req'[s].row.token # NoToken /\ lists'[req'[s].list].state = "live"
                             => lists'[req'[s].list].token # NoToken
    BY DEF CheckedRows, Live
  <2>1. req'[s] = req[s] /\ req[s].pc = "checked"
    BY <1>1
  <2>2. req[s].list \in Lists
    BY TypeForm DEF WishlistInv, Requested
  <2> QED
    BY <2>1, <2>2 DEF WishlistInv, CheckedRows
<1>7. UnbornIsNew'
  BY DEF WishlistInv, UnbornIsNew
<1> QED
  BY <1>2, <1>3, <1>4, <1>5, <1>6, <1>7 DEF WishlistInv

(* Another statement in flight on the list whose request commits. *)
LEMMA OtherStatement ==
  ASSUME WishlistInv, NEW r \in Requests, NEW s \in Requests \ {r}, NEW q \in Requested, q = req[s],
         q.pc = "flushed", req[r].pc = "flushed", q.list = req[r].list
  PROVE  /\ ~Conflict(req[r].lock, q.lock)
         /\ {req[r].lock, q.lock} \subseteq {"ref", "entry"} => q.item # req[r].item
         /\ ~(req[r].op = "create" /\ q.op = "create")
BY DEF WishlistInv, LocksApart

LEMMA FlushedRow ==
  ASSUME WishlistInv, NEW r \in Requests, req[r].pc = "flushed"
  PROVE  req[r] \in Requested /\ Held(req[r])
BY TypeForm DEF WishlistInv, HeldRows

LEMMA CommitAdd ==
  ASSUME WishlistInv, NEW r \in Requests, Commit(r), req[r].op = "add"
  PROVE  WishlistInv'
<1> DEFINE l == req[r].list
           pair == <<req[r].list, req[r].item>>
<1>1. req[r] \in Requested /\ Held(req[r]) /\ req[r].pc = "flushed"
  BY FlushedRow DEF Commit
<1>2. /\ req[r].lock = "ref" /\ l \in Lists /\ pair \in Pairs /\ pair \notin entries /\ Live(l)
  BY <1>1 DEF Held, LockOf, Requested, Pairs
<1>3. /\ lists' = lists /\ entries' = entries \cup {pair}
      /\ net' = [net EXCEPT ![pair] = @ + 1] /\ handed' = handed /\ overlapped' = overlapped
      /\ Answer(r, "ok")
  BY <1>2 DEF Commit
<1>4. \A p \in Pairs : net'[p] = IF p = pair THEN net[p] + 1 ELSE net[p]
  BY <1>3 DEF WishlistInv, TypeOK
<1>5. AnswersMatchEntries'
  <2> SUFFICES ASSUME NEW p \in Pairs
               PROVE  IF Live(p[1]) THEN net'[p] = (IF p \in entries' THEN 1 ELSE 0)
                      ELSE p \notin entries'
    BY <1>3 DEF AnswersMatchEntries, Live
  <2>1. IF Live(p[1]) THEN net[p] = (IF p \in entries THEN 1 ELSE 0) ELSE p \notin entries
    BY DEF WishlistInv, AnswersMatchEntries
  <2>2. CASE p = pair
    <3>1. p[1] = l
      BY <2>2
    <3> QED
      BY <1>2, <1>3, <1>4, <2>1, <2>2, <3>1
  <2>3. CASE p # pair
    BY <1>3, <1>4, <2>1, <2>3
  <2> QED
    BY <2>2, <2>3
<1>6. LinksStayGood'
  BY <1>3 DEF WishlistInv, LinksStayGood, Live
<1>7. ASSUME NEW s \in Requests \ {r}, NEW q \in Requested, q = req[s], q.pc = "flushed"
      PROVE  Held(q)'
  <2>1. Held(q)
    BY <1>7, FlushedRow
  <2>2. q.op = "add" => <<q.list, q.item>> # pair
    <3> SUFFICES ASSUME q.op = "add", <<q.list, q.item>> = pair
                 PROVE  FALSE
      OBVIOUS
    <3>1. q.lock = "ref" /\ q.list = req[r].list /\ q.item = req[r].item
      BY <2>1 DEF Held, LockOf
    <3> QED
      BY <1>1, <1>2, <1>7, <3>1, OtherStatement
  <2> QED
    BY <1>3, <2>1, <2>2 DEF Held, Live
<1>8. \A m \in Lists, i \in Items : lists[m] = Unborn => net'[<<m, i>>] = net[<<m, i>>]
  <2> SUFFICES ASSUME NEW m \in Lists, NEW i \in Items, lists[m] = Unborn
               PROVE  net'[<<m, i>>] = net[<<m, i>>]
    OBVIOUS
  <2>1. m # l
    BY <1>1, <1>2 DEF Held
  <2> QED
    BY <1>4, <2>1 DEF Pairs
<1>9. /\ net' \in [Pairs -> Int] /\ entries' \subseteq Pairs
      /\ lists' \in [Lists -> LiveRows \cup {Unborn, Gone}]
      /\ handed' \in [Lists -> SUBSET Tokens] /\ overlapped' \subseteq Lists
  BY <1>2, <1>3 DEF WishlistInv, TypeOK
<1> QED
  BY <1>3, <1>5, <1>6, <1>7, <1>8, <1>9, CommittedStep DEF Live

LEMMA CommitRemove ==
  ASSUME WishlistInv, NEW r \in Requests, Commit(r), req[r].op = "remove"
  PROVE  WishlistInv'
<1> DEFINE l == req[r].list
           pair == <<req[r].list, req[r].item>>
<1>1. req[r] \in Requested /\ Held(req[r]) /\ req[r].pc = "flushed"
  BY FlushedRow DEF Commit
<1>2. /\ req[r].lock = "entry" /\ l \in Lists /\ pair \in Pairs /\ pair \in entries /\ Live(l)
  BY <1>1 DEF Held, LockOf, Requested, Pairs
<1>3. /\ lists' = lists /\ entries' = entries \ {pair}
      /\ net' = [net EXCEPT ![pair] = @ - 1] /\ handed' = handed /\ overlapped' = overlapped
      /\ Answer(r, "ok")
  BY <1>2 DEF Commit
<1>4. \A p \in Pairs : net'[p] = IF p = pair THEN net[p] - 1 ELSE net[p]
  BY <1>3 DEF WishlistInv, TypeOK
<1>5. AnswersMatchEntries'
  <2> SUFFICES ASSUME NEW p \in Pairs
               PROVE  IF Live(p[1]) THEN net'[p] = (IF p \in entries' THEN 1 ELSE 0)
                      ELSE p \notin entries'
    BY <1>3 DEF AnswersMatchEntries, Live
  <2>1. IF Live(p[1]) THEN net[p] = (IF p \in entries THEN 1 ELSE 0) ELSE p \notin entries
    BY DEF WishlistInv, AnswersMatchEntries
  <2>2. CASE p = pair
    <3>1. p[1] = l
      BY <2>2
    <3> QED
      BY <1>2, <1>3, <1>4, <2>1, <2>2, <3>1
  <2>3. CASE p # pair
    BY <1>3, <1>4, <2>1, <2>3
  <2> QED
    BY <2>2, <2>3
<1>6. LinksStayGood'
  BY <1>3 DEF WishlistInv, LinksStayGood, Live
<1>7. ASSUME NEW s \in Requests \ {r}, NEW q \in Requested, q = req[s], q.pc = "flushed"
      PROVE  Held(q)'
  <2>1. Held(q)
    BY <1>7, FlushedRow
  <2>2. q.op = "remove" => <<q.list, q.item>> # pair
    <3> SUFFICES ASSUME q.op = "remove", <<q.list, q.item>> = pair
                 PROVE  FALSE
      OBVIOUS
    <3>1. q.lock = "entry" /\ q.list = req[r].list /\ q.item = req[r].item
      BY <2>1 DEF Held, LockOf
    <3> QED
      BY <1>1, <1>2, <1>7, <3>1, OtherStatement
  <2> QED
    BY <1>3, <2>1, <2>2 DEF Held, Live
<1>8. \A m \in Lists, i \in Items : lists[m] = Unborn => net'[<<m, i>>] = net[<<m, i>>]
  <2> SUFFICES ASSUME NEW m \in Lists, NEW i \in Items, lists[m] = Unborn
               PROVE  net'[<<m, i>>] = net[<<m, i>>]
    OBVIOUS
  <2>1. m # l
    BY <1>1, <1>2 DEF Held
  <2> QED
    BY <1>4, <2>1 DEF Pairs
<1>9. /\ net' \in [Pairs -> Int] /\ entries' \subseteq Pairs
      /\ lists' \in [Lists -> LiveRows \cup {Unborn, Gone}]
      /\ handed' \in [Lists -> SUBSET Tokens] /\ overlapped' \subseteq Lists
  BY <1>2, <1>3 DEF WishlistInv, TypeOK
<1> QED
  BY <1>3, <1>5, <1>6, <1>7, <1>8, <1>9, CommittedStep DEF Live

LEMMA CommitDelete ==
  ASSUME WishlistInv, NEW r \in Requests, Commit(r), req[r].op = "delete"
  PROVE  WishlistInv'
<1> DEFINE l == req[r].list
<1>1. req[r] \in Requested /\ Held(req[r]) /\ req[r].pc = "flushed"
  BY FlushedRow DEF Commit
<1>2. /\ req[r].lock = "drop" /\ l \in Lists /\ Live(l) /\ lists[l] # Unborn /\ lists[l] # Gone
  BY <1>1, LiveFacts DEF Held, LockOf, Requested, WishlistInv
<1>3. /\ lists' = [lists EXCEPT ![l] = Gone] /\ entries' = {p \in entries : p[1] # l}
      /\ net' = net /\ handed' = handed /\ overlapped' = overlapped /\ Answer(r, "ok")
  BY <1>2 DEF Commit
<1>4. /\ \A m \in Lists : lists'[m] = IF m = l THEN Gone ELSE lists[m]
      /\ Gone.state # "live" /\ Gone # Unborn
  BY <1>3 DEF WishlistInv, TypeOK, Gone, Unborn
<1>5. AnswersMatchEntries'
  <2> SUFFICES ASSUME NEW p \in Pairs
               PROVE  IF lists'[p[1]].state = "live"
                      THEN net'[p] = (IF p \in entries' THEN 1 ELSE 0) ELSE p \notin entries'
    BY DEF AnswersMatchEntries, Live
  <2>1. IF Live(p[1]) THEN net[p] = (IF p \in entries THEN 1 ELSE 0) ELSE p \notin entries
    BY DEF WishlistInv, AnswersMatchEntries
  <2>2. p[1] \in Lists
    BY DEF Pairs
  <2> QED
    BY <1>3, <1>4, <2>1, <2>2 DEF Live
<1>6. LinksStayGood'
  BY <1>3, <1>4 DEF WishlistInv, LinksStayGood, Live
<1>7. ASSUME NEW s \in Requests \ {r}, NEW q \in Requested, q = req[s], q.pc = "flushed"
      PROVE  Held(q)'
  <2>1. Held(q) /\ q.list \in Lists /\ q.lock \in Locks
    BY <1>7, FlushedRow DEF Requested
  <2>2. CASE q.list # l
    BY <1>3, <1>4, <2>1, <2>2 DEF Held, Live
  <2>3. CASE q.list = l
    <3>1. q.lock = "none"
      BY <1>1, <1>2, <1>7, <2>1, <2>3, OtherStatement, ConflictFacts
    <3>2. q.op = "share"
      BY <1>2, <2>1, <2>3, <3>1 DEF Held, LockOf
    <3> QED
      BY <1>4, <2>1, <2>3, <3>1, <3>2 DEF Held
  <2> QED
    BY <2>2, <2>3
<1>9. /\ net' \in [Pairs -> Int] /\ entries' \subseteq Pairs
      /\ lists' \in [Lists -> LiveRows \cup {Unborn, Gone}]
      /\ handed' \in [Lists -> SUBSET Tokens] /\ overlapped' \subseteq Lists
  BY <1>2, <1>3 DEF WishlistInv, TypeOK
<1> QED
  BY <1>2, <1>3, <1>4, <1>5, <1>6, <1>7, <1>9, CommittedStep DEF Live

LEMMA CommitCreate ==
  ASSUME WishlistInv, NEW r \in Requests, Commit(r), req[r].op = "create"
  PROVE  WishlistInv'
<1> DEFINE l == req[r].list
           put == req[r].put
<1>1. req[r] \in Requested /\ Held(req[r]) /\ req[r].pc = "flushed"
  BY FlushedRow DEF Commit
<1>2. /\ req[r].lock = "none" /\ l \in Lists /\ lists[l] = Unborn /\ put \in LiveRows
      /\ put.token = NoToken /\ put.state = "live" /\ put # Unborn
  BY <1>1, RowFacts DEF Held, LockOf, Requested
<1>3. /\ lists' = [lists EXCEPT ![l] = put] /\ entries' = entries
      /\ net' = net /\ handed' = handed /\ overlapped' = overlapped /\ Answer(r, "ok")
  BY <1>2 DEF Commit
<1>4. \A m \in Lists : lists'[m] = IF m = l THEN put ELSE lists[m]
  BY <1>3 DEF WishlistInv, TypeOK
<1>5. handed[l] = {} /\ (\A i \in Items : net[<<l, i>>] = 0) /\ ~Live(l)
  BY <1>2, LiveFacts, RowFacts DEF WishlistInv, UnbornIsNew
<1>6. AnswersMatchEntries'
  <2> SUFFICES ASSUME NEW p \in Pairs
               PROVE  IF lists'[p[1]].state = "live"
                      THEN net'[p] = (IF p \in entries' THEN 1 ELSE 0) ELSE p \notin entries'
    BY DEF AnswersMatchEntries, Live
  <2>1. IF Live(p[1]) THEN net[p] = (IF p \in entries THEN 1 ELSE 0) ELSE p \notin entries
    BY DEF WishlistInv, AnswersMatchEntries
  <2>2. p[1] \in Lists /\ p[2] \in Items /\ p = <<p[1], p[2]>>
    BY DEF Pairs
  <2>3. CASE p[1] = l
    BY <1>2, <1>3, <1>4, <1>5, <2>1, <2>2, <2>3
  <2>4. CASE p[1] # l
    BY <1>3, <1>4, <2>1, <2>2, <2>4 DEF Live
  <2> QED
    BY <2>3, <2>4
<1>7. LinksStayGood'
  BY <1>3, <1>4, <1>5 DEF WishlistInv, LinksStayGood, Live
<1>8. ASSUME NEW s \in Requests \ {r}, NEW q \in Requested, q = req[s], q.pc = "flushed"
      PROVE  Held(q)'
  <2>1. Held(q) /\ q.list \in Lists
    BY <1>8, FlushedRow DEF Requested
  <2>2. q.list # l
    BY <1>1, <1>2, <1>8, <2>1, OtherStatement DEF Held
  <2> QED
    BY <1>3, <1>4, <2>1, <2>2 DEF Held, Live
<1>9. /\ net' \in [Pairs -> Int] /\ entries' \subseteq Pairs
      /\ lists' \in [Lists -> LiveRows \cup {Unborn, Gone}]
      /\ handed' \in [Lists -> SUBSET Tokens] /\ overlapped' \subseteq Lists
  BY <1>2, <1>3 DEF WishlistInv, TypeOK
<1> QED
  BY <1>2, <1>3, <1>4, <1>6, <1>7, <1>8, <1>9, CommittedStep DEF Live

(* An update or a share that writes the row: the token it writes is the    *)
(* one that the row has, unless the list had none when it was loaded.      *)
LEMMA CommitWrite ==
  ASSUME WishlistInv, NEW r \in Requests, Commit(r), req[r].op \in {"update", "share"},
         req[r].lock \in {"row", "key"}
  PROVE  WishlistInv'
<1> DEFINE l == req[r].list
           put == req[r].put
<1>1. req[r] \in Requested /\ Held(req[r]) /\ req[r].pc = "flushed"
  BY FlushedRow DEF Commit
<1>2. /\ l \in Lists /\ Live(l) /\ lists[l] \in LiveRows /\ lists[l] # Unborn /\ lists[l] # Gone
      /\ put \in LiveRows /\ put.state = "live" /\ put # Unborn /\ put # Gone
  <2>1. l \in Lists /\ Live(l) /\ put \in LiveRows
    BY <1>1 DEF Held, Requested
  <2> QED
    BY <2>1, LiveFacts, RowFacts DEF WishlistInv
<1>3. /\ lists' = [lists EXCEPT ![l] = put] /\ entries' = entries /\ net' = net
      /\ Answer(r, "ok")
      /\ handed' = IF req[r].op = "share" THEN [handed EXCEPT ![l] = @ \cup {put.token}]
                   ELSE handed
      /\ overlapped' = IF req[r].op = "share" /\ req[r].row.token # lists[l].token
                       THEN overlapped \cup {l} ELSE overlapped
  BY <1>2 DEF Commit
<1>4. \A m \in Lists : lists'[m] = IF m = l THEN put ELSE lists[m]
  BY <1>3 DEF WishlistInv, TypeOK
<1>5. /\ lists[l].token # NoToken => put.token # NoToken
      /\ req[r].op = "share" => put.token \in Tokens
      /\ \/ put.token = lists[l].token
         \/ req[r].op = "share" /\ req[r].row.token = NoToken
  BY <1>1, WishlistAssumption DEF Held, LockOf
<1>6. AnswersMatchEntries'
  <2> SUFFICES ASSUME NEW p \in Pairs
               PROVE  IF lists'[p[1]].state = "live"
                      THEN net'[p] = (IF p \in entries' THEN 1 ELSE 0) ELSE p \notin entries'
    BY DEF AnswersMatchEntries, Live
  <2>1. IF Live(p[1]) THEN net[p] = (IF p \in entries THEN 1 ELSE 0) ELSE p \notin entries
    BY DEF WishlistInv, AnswersMatchEntries
  <2>2. p[1] \in Lists
    BY DEF Pairs
  <2> QED
    BY <1>2, <1>3, <1>4, <2>1, <2>2 DEF Live
<1>7. \A m \in Lists : handed'[m] = IF m = l /\ req[r].op = "share"
                                    THEN handed[m] \cup {put.token} ELSE handed[m]
  BY <1>3 DEF WishlistInv, TypeOK
<1>8. LinksStayGood'
  <2> SUFFICES ASSUME NEW m \in Lists \ overlapped', lists'[m].state = "live",
                      NEW t \in handed'[m]
               PROVE  lists'[m].token = t
    BY DEF LinksStayGood, Live
  <2>1. m \notin overlapped
    BY <1>3
  <2>2. CASE m # l
    BY <1>4, <1>7, <2>1, <2>2 DEF WishlistInv, LinksStayGood, Live
  <2>3. CASE m = l
    <3>1. \A v \in handed[l] : lists[l].token = v
      BY <1>2, <2>1, <2>3 DEF WishlistInv, LinksStayGood
    <3>2. CASE put.token = lists[l].token
      BY <1>4, <1>7, <2>3, <3>1, <3>2
    <3>3. CASE req[r].op = "share" /\ req[r].row.token = NoToken
      <4>1. lists[l].token = NoToken
        BY <1>3, <2>3, <3>3
      <4>2. handed[l] \subseteq Tokens
        BY <1>2 DEF WishlistInv, TypeOK
      <4>3. handed[l] = {}
        <5> SUFFICES ASSUME NEW v \in handed[l]
                     PROVE  FALSE
          OBVIOUS
        <5>1. v = NoToken /\ v \in Tokens
          BY <3>1, <4>1, <4>2
        <5> QED
          BY <5>1, WishlistAssumption
      <4>4. lists'[l] = put /\ handed'[l] = handed[l] \cup {put.token}
        BY <1>2, <1>4, <1>7, <3>3
      <4>5. t \in {put.token}
        BY <2>3, <4>3, <4>4
      <4> QED
        BY <2>3, <4>4, <4>5
    <3> QED
      BY <1>5, <3>2, <3>3
  <2> QED
    BY <2>2, <2>3
<1>9. ASSUME NEW s \in Requests \ {r}, NEW q \in Requested, q = req[s], q.pc = "flushed"
      PROVE  Held(q)'
  <2>1. Held(q) /\ q.list \in Lists /\ q.lock \in Locks
    BY <1>9, FlushedRow DEF Requested
  <2>2. CASE q.list # l
    BY <1>3, <1>4, <2>1, <2>2 DEF Held, Live
  <2>3. CASE q.list = l
    <3>1. q.lock \notin {"row", "key"}
      BY <1>1, <1>9, <2>3, OtherStatement, ConflictFacts
    <3>2. q.op # "create"
      BY <1>2, <2>1, <2>3 DEF Held
    <3> QED
      BY <1>2, <1>3, <1>4, <2>1, <2>3, <3>1, <3>2 DEF Held, Live
  <2> QED
    BY <2>2, <2>3
<1>10. /\ net' \in [Pairs -> Int] /\ entries' \subseteq Pairs
       /\ lists' \in [Lists -> LiveRows \cup {Unborn, Gone}]
       /\ overlapped' \subseteq Lists
  BY <1>2, <1>3 DEF WishlistInv, TypeOK
<1>11. handed' \in [Lists -> SUBSET Tokens]
  <2>1. CASE req[r].op = "share"
    BY <1>3, <1>5, <2>1 DEF WishlistInv, TypeOK
  <2>2. CASE req[r].op # "share"
    BY <1>3, <2>2 DEF WishlistInv, TypeOK
  <2> QED
    BY <2>1, <2>2
<1>12. /\ \A m \in Lists : lists[m] # Unborn =>
            /\ lists'[m] # Unborn
            /\ lists[m] = Gone => lists'[m] = Gone
            /\ lists'[m].state = "live" => Live(m)
            /\ lists'[m].state = "live" /\ lists[m].token # NoToken => lists'[m].token # NoToken
       /\ \A m \in Lists : lists'[m] = Unborn =>
            /\ lists[m] = Unborn /\ handed'[m] = handed[m]
            /\ \A i \in Items : net'[<<m, i>>] = net[<<m, i>>]
  BY <1>2, <1>3, <1>4, <1>5, <1>7 DEF Live
<1> QED
  BY <1>3, <1>6, <1>8, <1>9, <1>10, <1>11, <1>12, CommittedStep

(* A share that had nothing to write: it hands out the token it loaded. *)
LEMMA CommitShareAgain ==
  ASSUME WishlistInv, NEW r \in Requests, Commit(r), req[r].op = "share", req[r].lock = "none"
  PROVE  WishlistInv'
<1> DEFINE l == req[r].list
           put == req[r].put
<1>1. req[r] \in Requested /\ Held(req[r]) /\ req[r].pc = "flushed"
  BY FlushedRow DEF Commit
<1>2. /\ l \in Lists /\ lists[l] # Unborn /\ put.token \in Tokens
      /\ req[r].row.token = put.token
  BY <1>1 DEF Held, Requested
<1>3. /\ lists' = lists /\ entries' = entries /\ net' = net /\ Answer(r, "ok")
      /\ handed' = [handed EXCEPT ![l] = @ \cup {put.token}]
      /\ overlapped' = IF Live(l) /\ req[r].row.token # lists[l].token
                       THEN overlapped \cup {l} ELSE overlapped
  BY DEF Commit
<1>4. \A m \in Lists : handed'[m] = IF m = l THEN handed[m] \cup {put.token} ELSE handed[m]
  BY <1>3 DEF WishlistInv, TypeOK
<1>5. AnswersMatchEntries'
  BY <1>3 DEF WishlistInv, AnswersMatchEntries, Live
<1>6. LinksStayGood'
  <2> SUFFICES ASSUME NEW m \in Lists \ overlapped', Live(m), NEW t \in handed'[m]
               PROVE  lists[m].token = t
    BY <1>3 DEF LinksStayGood, Live
  <2>1. \A v \in handed[m] : lists[m].token = v
    BY <1>3 DEF WishlistInv, LinksStayGood
  <2>2. m = l => lists[m].token = put.token
    BY <1>2, <1>3
  <2> QED
    BY <1>4, <2>1, <2>2
<1>7. ASSUME NEW s \in Requests \ {r}, NEW q \in Requested, q = req[s], q.pc = "flushed"
      PROVE  Held(q)'
  <2>1. Held(q)
    BY <1>7, FlushedRow
  <2> QED
    BY <1>3, <2>1 DEF Held, Live
<1>8. /\ net' \in [Pairs -> Int] /\ entries' \subseteq Pairs
      /\ lists' \in [Lists -> LiveRows \cup {Unborn, Gone}]
      /\ handed' \in [Lists -> SUBSET Tokens] /\ overlapped' \subseteq Lists
  BY <1>2, <1>3 DEF WishlistInv, TypeOK
<1> QED
  BY <1>2, <1>3, <1>4, <1>5, <1>6, <1>7, <1>8, CommittedStep DEF Live

LEMMA CommitStep ==
  ASSUME WishlistInv, NEW r \in Requests, Commit(r)
  PROVE  WishlistInv'
<1>1. Held(req[r])
  BY FlushedRow DEF Commit
<1>2. \/ req[r].op \in {"add", "remove", "delete", "create"}
      \/ req[r].op = "share" /\ req[r].lock = "none"
      \/ req[r].op \in {"update", "share"} /\ req[r].lock \in {"row", "key"}
  BY <1>1 DEF Held, LockOf
<1> QED
  BY <1>2, CommitAdd, CommitRemove, CommitDelete, CommitCreate, CommitShareAgain, CommitWrite

----
LEMMA InitWishlistInv == Init => WishlistInv
<1> SUFFICES ASSUME Init
             PROVE  WishlistInv
  OBVIOUS
<1>1. \A l \in Lists : lists[l] \in LiveRows \cup {Unborn}
  <2>1. \A u \in Users, p \in BOOLEAN : Row(u, p, NoToken) \in LiveRows
    BY RowFacts
  <2> QED
    BY <2>1 DEF Init
<1>2. req = [r \in Requests |-> Idle]
  BY DEF Init
<1>3. TypeOK
  BY <1>1, <1>2, IdleFacts, TypeForm DEF Init
<1>4. AnswersMatchEntries /\ LinksStayGood /\ UnbornIsNew
  BY DEF Init, AnswersMatchEntries, LinksStayGood, UnbornIsNew, Pairs
<1>5. FailuresNeedADelete /\ HeldRows /\ LocksApart /\ CheckedRows
  BY <1>2, IdleFacts DEF FailuresNeedADelete, HeldRows, LocksApart, CheckedRows
<1> QED
  BY <1>3, <1>4, <1>5 DEF WishlistInv

LEMMA NextWishlistInv == WishlistInv /\ [Next]_vars => WishlistInv'
<1> SUFFICES ASSUME WishlistInv, [Next]_vars
             PROVE  WishlistInv'
  OBVIOUS
<1>1. CASE UNCHANGED vars
  BY <1>1 DEF vars, WishlistInv, TypeOK, AnswersMatchEntries, LinksStayGood, FailuresNeedADelete,
              HeldRows, Held, LocksApart, CheckedRows, UnbornIsNew, Live
<1>2. ASSUME NEW r \in Requests, Arrive(r)
      PROVE  WishlistInv'
  BY <1>2, GetStep, FindSharedStep, CreateStep, LoadStep DEF Arrive
<1>3. ASSUME NEW r \in Requests, Handle(r)
      PROVE  WishlistInv'
  BY <1>3, FetchSharedStep, FlushUpdateStep, FlushDeleteStep, FlushAddStep, FlushRemoveStep,
     FlushShareStep, CommitStep DEF Handle
<1> QED
  BY <1>1, <1>2, <1>3 DEF Next

(* The inductive invariant holds in every reachable state. *)
THEOREM WishlistInvHolds == Spec => []WishlistInv
<1>1. Init => WishlistInv
  BY InitWishlistInv
<1>2. WishlistInv /\ [Next]_vars => WishlistInv'
  BY NextWishlistInv
<1> QED
  BY <1>1, <1>2, PTL DEF Spec

(* The entries of a list agree with the 201 and 204 answers that its adds  *)
(* and removes were given, and none outlives its list, for any number of   *)
(* concurrent requests (add_item, remove_item, delete).                    *)
THEOREM EntriesAgree == Spec => []AnswersMatchEntries
<1>1. WishlistInv => AnswersMatchEntries
  BY DEF WishlistInv
<1> QED
  BY <1>1, WishlistInvHolds, PTL

(* A share link that was handed out keeps opening its list; only two first *)
(* shares of the list that overlapped can have replaced it (share).        *)
THEOREM LinksLast == Spec => []LinksStayGood
<1>1. WishlistInv => LinksStayGood
  BY DEF WishlistInv
<1> QED
  BY <1>1, WishlistInvHolds, PTL

(* A request that fails with 500 has raced a delete, or sent an explicit   *)
(* null: no other interleaving makes an assert or a flush fail.            *)
THEOREM FailuresExplained == Spec => []FailuresNeedADelete
<1>1. WishlistInv => FailuresNeedADelete
  BY DEF WishlistInv
<1> QED
  BY <1>1, WishlistInvHolds, PTL

----
(* Interactions, for any shoppers, items, tags and any number of           *)
(* overlapping requests.  The invariant says which rows a request has      *)
(* written (Wrote), that each still holds one interaction more than what   *)
(* is committed (Holds) and is nobody else's (Separate), and that the      *)
(* committed rows are what the committed events add up to.                 *)
Columns == {"view", "click", "save"}
SignalRow == [score : Int, count : Int]
Counts == UNION {[C -> Int] : C \in SUBSET Columns}
Puts == UNION {[T -> SignalRow] : T \in SUBSET Tags}
RecType == [pc : {"idle", "loaded", "bumped", "upserting", "written", "204", "failed"},
            user : Shoppers, item : Gifts, kind : Kinds, loaded : Int,
            count : Counts,
            tags : SUBSET Tags, todo : SUBSET Tags, want : Tags \cup {NoTag},
            put : Puts]

InteractTyped ==
    /\ tags \subseteq Tags
    /\ counter \in [Gifts -> [Columns -> Int]]
    /\ signal \in [Shoppers -> [Tags -> SignalRow \cup {NoRow}]]
    /\ rec \in [Recordings -> RecType]
    /\ IsFiniteSet(events) /\ events = {r \in Recordings : rec[r].pc = "204"}

(* Which rows a request has written: its item's counter once it is bumped, *)
(* and the signals of the tags that it has read and need not write still.  *)
Wrote(q) ==
    /\ q.pc \in {"idle", "loaded", "204", "failed"} => DOMAIN q.count = {}
    /\ q.pc \in {"bumped", "upserting", "written"} => DOMAIN q.count = CounterOf(q.kind)
    /\ q.pc \in {"upserting", "written"} => q.tags = q.todo \cup DOMAIN q.put
    /\ q.pc \notin {"upserting", "written"} => DOMAIN q.put = {}
    /\ q.pc = "upserting" => q.want \in q.todo
    /\ q.pc = "written" => q.todo = {}

(* What it has written is still one interaction more than what is          *)
(* committed, and the tags of its signals have not been deleted.           *)
Holds(q) ==
    /\ \A c \in DOMAIN q.count : q.count[c] = counter[q.item][c] + 1
    /\ \A g \in DOMAIN q.put : g \in tags /\ q.put[g] = Upserted(signal[q.user][g], q.kind)

\* A row that a request has written is not another's.
Separate(p, q) ==
    /\ p.item = q.item => DOMAIN p.count = {} \/ DOMAIN q.count = {}
    /\ p.user = q.user => DOMAIN p.put \cap DOMAIN q.put = {}

\* AggregatesMatchEvents in two parts, of the rows, the events and the requests.
CountersMatch(c, ev, p) ==
    \A i \in Gifts, k \in Columns :
        c[i][k] = Cardinality({r \in ev : p[r].item = i /\ p[r].kind = k})
Touching(ev, p, u, g) == {r \in ev : p[r].user = u /\ g \in p[r].tags}
Total(p, E) == SumOf([r \in E |-> Weight[p[r].kind]], E)
SignalsMatch(sg, tg, ev, p) ==
    \A u \in Shoppers, g \in tg :
        LET E == Touching(ev, p, u, g)
        IN sg[u][g] = IF E = {} THEN NoRow
                      ELSE [score |-> Total(p, E), count |-> Cardinality(E)]

InteractInv ==
    /\ InteractTyped
    /\ \A r \in Recordings : Wrote(rec[r])
    /\ \A r \in Recordings : Holds(rec[r])
    /\ \A r, s \in Recordings : r # s => Separate(rec[r], rec[s])
    /\ CountersMatch(counter, events, rec) /\ SignalsMatch(signal, tags, events, rec)

----
(* The functions that hold rows.                                           *)
LEMMA OverIs ==
    ASSUME NEW D, NEW V, NEW old \in [D -> V], NEW S, NEW rows \in [S -> V]
    PROVE  /\ Over(old, rows) \in [D -> V]
           /\ \A k \in D : Over(old, rows)[k] = IF k \in S THEN rows[k] ELSE old[k]
BY DEF Over

LEMMA NoWriteIs ==
    /\ DOMAIN NoWrite = {}
    /\ NoWrite \in Counts /\ NoWrite \in Puts
<1>1. NoWrite \in [{} -> Int] /\ NoWrite \in [{} -> SignalRow] /\ DOMAIN NoWrite = {}
  BY DEF NoWrite
<1> QED
  BY <1>1 DEF Counts, Puts

(* A request that is not recording. *)
LEMMA NotRecordingIs ==
    /\ NotRecording \in RecType /\ NotRecording.pc = "idle"
    /\ DOMAIN NotRecording.count = {} /\ DOMAIN NotRecording.put = {}
    /\ NotRecording.count = NoWrite /\ NotRecording.put = NoWrite
    /\ NotRecording.tags = {} /\ NotRecording.todo = {}
<1>1. /\ (CHOOSE u \in Shoppers : TRUE) \in Shoppers /\ (CHOOSE i \in Gifts : TRUE) \in Gifts
      /\ (CHOOSE k \in Kinds : TRUE) \in Kinds
  BY InteractionsAssumption
<1>2. NotRecording \in RecType
  BY <1>1, NoWriteIs DEF NotRecording, RecType
<1> QED
  BY <1>2, NoWriteIs DEF NotRecording

LEMMA WeightIsInt == \A k \in Kinds : Weight[k] \in Int
<1>1. \A k \in {"view", "click", "save", "remove", "share", "purchase", "dismiss"} : Weight[k] \in Int
  BY DEF Weight
<1> QED
  BY <1>1, InteractionsAssumption

LEMMA UpsertedIs ==
    ASSUME NEW old \in SignalRow \cup {NoRow}, NEW k \in Kinds
    PROVE  /\ Upserted(old, k) \in SignalRow
           /\ old = NoRow => Upserted(old, k) = [score |-> Weight[k], count |-> 1]
           /\ old # NoRow => Upserted(old, k) = [score |-> old.score + Weight[k], count |-> old.count + 1]
BY WeightIsInt DEF Upserted, SignalRow

(* What the invariant says of one request. *)
LEMMA RecordingIs ==
    ASSUME InteractInv, NEW r \in Recordings
    PROVE  /\ rec \in [Recordings -> RecType] /\ rec[r] \in RecType
           /\ rec[r].user \in Shoppers /\ rec[r].item \in Gifts /\ rec[r].kind \in Kinds
           /\ rec[r].count \in [DOMAIN rec[r].count -> Int] /\ DOMAIN rec[r].count \subseteq Columns
           /\ rec[r].put \in [DOMAIN rec[r].put -> SignalRow] /\ DOMAIN rec[r].put \subseteq Tags
           /\ Wrote(rec[r]) /\ Holds(rec[r])
           /\ \A s \in Recordings \ {r} : Separate(rec[r], rec[s]) /\ Separate(rec[s], rec[r])
           /\ r \in events <=> rec[r].pc = "204"
<1>1. rec \in [Recordings -> RecType] /\ rec[r] \in RecType /\ (r \in events <=> rec[r].pc = "204")
  BY DEF InteractInv, InteractTyped
<1>2. rec[r].count \in Counts /\ rec[r].put \in Puts
  BY <1>1 DEF RecType
<1>3. rec[r].count \in [DOMAIN rec[r].count -> Int] /\ DOMAIN rec[r].count \subseteq Columns
  BY <1>2 DEF Counts
<1>4. rec[r].put \in [DOMAIN rec[r].put -> SignalRow] /\ DOMAIN rec[r].put \subseteq Tags
  BY <1>2 DEF Puts
<1>5. rec[r].user \in Shoppers /\ rec[r].item \in Gifts /\ rec[r].kind \in Kinds
  BY <1>1 DEF RecType
<1> QED
  BY <1>1, <1>3, <1>4, <1>5 DEF InteractInv

(* Nothing is recorded yet. *)
LEMMA InitInteractInv == InteractInit => InteractInv
<1> SUFFICES ASSUME InteractInit PROVE InteractInv
    OBVIOUS
<1>1. rec = [r \in Recordings |-> NotRecording] /\ events = {} /\ tags = Tags
      /\ counter = [i \in Gifts |-> [c \in Columns |-> 0]]
      /\ signal = [u \in Shoppers |-> [g \in Tags |-> NoRow]]
  BY DEF InteractInit, Columns
<1>2. InteractTyped
  BY <1>1, NotRecordingIs, FS_EmptySet DEF InteractTyped
<1>3. \A r \in Recordings : Wrote(rec[r]) /\ Holds(rec[r])
  BY <1>1, NotRecordingIs DEF Wrote, Holds
<1>4. \A r, s \in Recordings : Separate(rec[r], rec[s])
  BY <1>1, NotRecordingIs DEF Separate
<1>5. CountersMatch(counter, events, rec)
  BY <1>1, FS_EmptySet DEF CountersMatch
<1>6. SignalsMatch(signal, tags, events, rec)
  BY <1>1 DEF SignalsMatch, Touching
<1> QED
  BY <1>2, <1>3, <1>4, <1>5, <1>6 DEF InteractInv

(* The aggregates look at the requests that have committed alone.          *)
LEMMA SameRecordings ==
    ASSUME NEW p, NEW q, NEW ev, \A r \in ev : q[r] = p[r], NEW c, NEW sg, NEW tg
    PROVE  /\ CountersMatch(c, ev, p) => CountersMatch(c, ev, q)
           /\ SignalsMatch(sg, tg, ev, p) => SignalsMatch(sg, tg, ev, q)
<1>1. \A i, k : {r \in ev : q[r].item = i /\ q[r].kind = k}
                     = {r \in ev : p[r].item = i /\ p[r].kind = k}
  OBVIOUS
<1>2. \A u, g : Touching(ev, q, u, g) = Touching(ev, p, u, g)
  BY DEF Touching
<1>3. ASSUME NEW E \in SUBSET ev PROVE Total(q, E) = Total(p, E)
  <2>1. [r \in E |-> Weight[q[r].kind]] = [r \in E |-> Weight[p[r].kind]]
    OBVIOUS
  <2> QED
    BY <2>1 DEF Total
<1>4. \A u, g : Total(q, Touching(ev, q, u, g)) = Total(p, Touching(ev, p, u, g))
  BY <1>2, <1>3 DEF Touching
<1>5. CountersMatch(c, ev, p) => CountersMatch(c, ev, q)
  BY <1>1 DEF CountersMatch
<1>6. SignalsMatch(sg, tg, ev, p) => SignalsMatch(sg, tg, ev, q)
  BY <1>2, <1>4 DEF SignalsMatch
<1> QED
  BY <1>5, <1>6

(* A request that has not committed goes on, and commits nothing yet.      *)
LEMMA RecordingGoesOn ==
    ASSUME InteractInv, NEW r \in Recordings, NEW q \in RecType, rec' = [rec EXCEPT ![r] = q],
           UNCHANGED <<tags, Rows>>, rec[r].pc # "204", q.pc # "204",
           Wrote(q), Holds(q), \A s \in Recordings \ {r} : Separate(q, rec[s]) /\ Separate(rec[s], q)
    PROVE  InteractInv'
<1>1. \A s \in Recordings : rec'[s] = IF s = r THEN q ELSE rec[s]
  BY RecordingIs
<1>2. UNCHANGED <<tags, counter, signal, events>> /\ r \notin events /\ events \subseteq Recordings
  BY RecordingIs DEF InteractInv, InteractTyped, Rows
<1>3. InteractTyped'
  <2>1. rec' \in [Recordings -> RecType]
    BY RecordingIs
  <2>2. events = {s \in Recordings : rec'[s].pc = "204"}
    BY <1>1 DEF InteractInv, InteractTyped
  <2> QED
    BY <1>2, <2>1, <2>2 DEF InteractInv, InteractTyped
<1>4. \A s \in Recordings : Wrote(rec'[s])
  BY <1>1 DEF InteractInv
<1>5. (\A s \in Recordings : Holds(rec[s]))'
  BY <1>1, <1>2 DEF InteractInv, Holds
<1>6. \A s, t \in Recordings : s # t => Separate(rec'[s], rec'[t])
  BY <1>1 DEF InteractInv
<1>7. \A s \in events : rec'[s] = rec[s]
  BY <1>1, <1>2
<1>8. CountersMatch(counter', events', rec') /\ SignalsMatch(signal', tags', events', rec')
  BY <1>2, <1>7, SameRecordings DEF InteractInv
<1> QED
  BY <1>3, <1>4, <1>5, <1>6, <1>8 DEF InteractInv

(* A request that fails or begins has written nothing.                     *)
LEMMA NothingWritten ==
    ASSUME InteractInv, NEW r \in Recordings, NEW q \in RecType, rec' = [rec EXCEPT ![r] = q],
           UNCHANGED <<tags, Rows>>, rec[r].pc # "204", q.pc \in {"loaded", "failed"},
           q.count = NoWrite, q.put = NoWrite
    PROVE  InteractInv'
<1>1. DOMAIN q.count = {} /\ DOMAIN q.put = {}
  BY NoWriteIs
<1>2. Wrote(q) /\ Holds(q)
  BY <1>1 DEF Wrote, Holds
<1>3. \A s \in Recordings \ {r} : Separate(q, rec[s]) /\ Separate(rec[s], q)
  BY <1>1 DEF Separate
<1> QED
  BY <1>2, <1>3, RecordingGoesOn

LEMMA FailKeeps ==
    ASSUME InteractInv, NEW r \in Recordings, Fail(r), rec[r].pc # "204", UNCHANGED <<tags, Rows>>
    PROVE  InteractInv'
<1> DEFINE q == [NotRecording EXCEPT !.pc = "failed"]
<1>1. q \in RecType /\ q.pc = "failed" /\ q.count = NoWrite /\ q.put = NoWrite
  BY NotRecordingIs DEF RecType
<1>2. rec' = [rec EXCEPT ![r] = q]
  BY DEF Fail
<1> HIDE DEF q
<1> QED
  BY <1>1, <1>2, NothingWritten

LEMMA LoadItemKeeps ==
    ASSUME InteractInv, NEW r \in Recordings, NEW u \in Shoppers, NEW i \in Gifts, NEW k \in Kinds,
           LoadItem(r, u, i, k)
    PROVE  InteractInv'
<1>1. rec[r].pc = "idle" /\ UNCHANGED <<tags, Rows>>
  BY DEF LoadItem, Catalog
<1>2. CASE i \notin Catalogue
  BY <1>1, <1>2, FailKeeps DEF LoadItem
<1>3. CASE i \in Catalogue
  <2> DEFINE seen == IF k \in DOMAIN counter[i] THEN counter[i][k] ELSE 0
             q == [NotRecording EXCEPT !.pc = "loaded", !.user = u, !.item = i, !.kind = k,
                                       !.loaded = seen]
  <2>1. rec' = [rec EXCEPT ![r] = q]
    BY <1>3 DEF LoadItem
  <2>2. seen \in Int
    <3>1. counter[i] \in [Columns -> Int]
      BY DEF InteractInv, InteractTyped
    <3> QED
      BY <3>1
  <2> HIDE DEF seen
  <2>3. q \in RecType /\ q.pc = "loaded" /\ q.count = NoWrite /\ q.put = NoWrite
    BY <2>2, NotRecordingIs DEF RecType
  <2> HIDE DEF q
  <2> QED
    BY <1>1, <2>1, <2>3, NothingWritten
<1> QED
  BY <1>2, <1>3

(* The counter's row is locked, and one more than it was.                  *)
LEMMA BumpKeeps ==
    ASSUME InteractInv, NEW r \in Recordings, Bump(r)
    PROVE  InteractInv'
<1> DEFINE old == rec[r]
<1>1. old.pc = "loaded" /\ UNCHANGED <<tags, Rows>> /\ old \in RecType
  BY RecordingIs DEF Bump, Catalog
<1>2. DOMAIN old.count = {} /\ DOMAIN old.put = {}
  BY <1>1, RecordingIs DEF Wrote
<1>3. CASE CounterOf(old.kind) = {}
  <2> DEFINE q == [old EXCEPT !.pc = "bumped"]
  <2>1. rec' = [rec EXCEPT ![r] = q]
    BY <1>3, RecordingIs DEF Bump, RecType
  <2>2. q \in RecType /\ q.pc = "bumped" /\ q.count = old.count /\ q.put = old.put /\ q.kind = old.kind
    BY <1>1 DEF RecType
  <2> HIDE DEF q
  <2>3. Wrote(q) /\ Holds(q)
    BY <1>2, <1>3, <2>2 DEF Wrote, Holds
  <2>4. \A s \in Recordings \ {r} : Separate(q, rec[s]) /\ Separate(rec[s], q)
    BY <1>2, <2>2 DEF Separate
  <2> QED
    BY <1>1, <2>1, <2>2, <2>3, <2>4, RecordingGoesOn
<1>4. CASE CounterOf(old.kind) # {}
  <2> DEFINE count == Write(old.count, old.kind, Incremented(r))
             q == [old EXCEPT !.pc = "bumped", !.count = count]
  <2>1. rec' = [rec EXCEPT ![r] = q]
    BY <1>4, RecordingIs DEF Bump, RecType
  <2>2. old.kind \in Columns /\ CounterOf(old.kind) = {old.kind}
    BY <1>4 DEF CounterOf, Columns
  <2>3. Incremented(r) = counter[old.item][old.kind] + 1 /\ Incremented(r) \in Int
    <3>1. counter[old.item] \in [Columns -> Int]
      BY RecordingIs DEF InteractInv, InteractTyped
    <3> QED
      BY <2>2, <3>1 DEF Incremented
  <2>4. old.count \in [{} -> Int]
    BY <1>2, RecordingIs
  <2>5. count \in Counts /\ DOMAIN count = {old.kind} /\ count[old.kind] = Incremented(r)
    <3>1. PICK rows : rows = old.count
      OBVIOUS
    <3>2. PICK k \in Columns : k = old.kind
      BY <2>2
    <3>3. PICK n \in Int : n = Incremented(r)
      BY <2>3
    <3>4. Write(rows, k, n) = [d \in {k} |-> n]
      BY <1>2, <3>1 DEF Write
    <3>5. [d \in {k} |-> n] \in Counts
      <4>1. {k} \in SUBSET Columns /\ [d \in {k} |-> n] \in [{k} -> Int]
        OBVIOUS
      <4> QED
        BY <4>1 DEF Counts
    <3> HIDE DEF old
    <3> QED
      BY <3>1, <3>2, <3>3, <3>4, <3>5
  <2> HIDE DEF count
  <2>6. /\ q \in RecType /\ q.pc = "bumped" /\ q.count = count /\ q.put = old.put
        /\ q.kind = old.kind /\ q.item = old.item
    BY <1>1, <2>5 DEF RecType
  <2> HIDE DEF q
  <2>7. Wrote(q) /\ Holds(q)
    BY <1>2, <2>2, <2>3, <2>5, <2>6 DEF Wrote, Holds
  <2>8. \A s \in Recordings \ {r} : rec[s].item = q.item => DOMAIN rec[s].count = {}
    BY <1>4, <2>6, NoWriteIs DEF Bump, CounterFree
  <2>9. \A s \in Recordings \ {r} : Separate(q, rec[s]) /\ Separate(rec[s], q)
    BY <1>2, <2>6, <2>8 DEF Separate
  <2> QED
    BY <1>1, <2>1, <2>6, <2>7, <2>9, RecordingGoesOn
<1> QED
  BY <1>3, <1>4

(* The tags are read: none of them is written yet.                         *)
LEMMA ReadTagsKeeps ==
    ASSUME InteractInv, NEW r \in Recordings, ReadTags(r)
    PROVE  InteractInv'
<1> DEFINE old == rec[r]
           T == {g \in Tags : <<old.item, g>> \in tagged}
<1>1. PICK g \in IF T = {} THEN {NoTag} ELSE T :
        rec' = [rec EXCEPT ![r].pc = IF T = {} THEN "written" ELSE "upserting",
                           ![r].tags = T, ![r].todo = T, ![r].want = g]
  BY DEF ReadTags
<1>2. old.pc = "bumped" /\ UNCHANGED <<tags, Rows>> /\ old \in RecType
  BY RecordingIs DEF ReadTags, Catalog
<1>3. T \in SUBSET Tags /\ g \in Tags \cup {NoTag} /\ (T # {} => g \in T)
  BY <1>1
<1> HIDE DEF T
<1> DEFINE pc == IF T = {} THEN "written" ELSE "upserting"
           q == [old EXCEPT !.pc = pc, !.tags = T, !.todo = T, !.want = g]
<1>4. rec' = [rec EXCEPT ![r] = q]
  BY <1>1, RecordingIs DEF RecType
<1>5. pc \in {"written", "upserting"} /\ (T = {} <=> pc = "written")
  OBVIOUS
<1> HIDE DEF pc
<1>6. /\ q \in RecType /\ q.pc = pc /\ q.count = old.count /\ q.put = old.put /\ q.kind = old.kind
      /\ q.item = old.item /\ q.user = old.user /\ q.tags = T /\ q.todo = T /\ q.want = g
  BY <1>2, <1>3, <1>5 DEF RecType
<1> HIDE DEF q
<1>7. DOMAIN old.count = CounterOf(old.kind) /\ DOMAIN old.put = {}
  BY <1>2, RecordingIs DEF Wrote
<1>8. Wrote(q)
  BY <1>3, <1>5, <1>6, <1>7 DEF Wrote
<1>9. Holds(q) /\ \A s \in Recordings \ {r} : Separate(q, rec[s]) /\ Separate(rec[s], q)
  BY <1>6, RecordingIs DEF Holds, Separate
<1> QED
  BY <1>2, <1>4, <1>5, <1>6, <1>8, <1>9, RecordingGoesOn

(* One signal more is written, of a tag that still exists, if nobody else  *)
(* has that row.                                                           *)
LEMMA UpsertRowKeeps ==
    ASSUME InteractInv, NEW r \in Recordings, UpsertRow(r)
    PROVE  InteractInv'
<1> DEFINE old == rec[r]
           g == old.want
           row == Upserted(signal[old.user][g], old.kind)
           left == old.todo \ {g}
<1>1. /\ old.pc = "upserting" /\ UNCHANGED <<tags, Rows>> /\ old \in RecType
      /\ SignalFree(r, old.user, g)
  BY RecordingIs DEF UpsertRow, Catalog
<1>2. CASE Fail(r)
  BY <1>1, <1>2, FailKeeps
<1>3. CASE ~Fail(r)
  <2>1. g \in tags
    BY <1>3 DEF UpsertRow
  <2>2. PICK h \in IF left = {} THEN {NoTag} ELSE left :
          rec' = [rec EXCEPT ![r].pc = IF left = {} THEN "written" ELSE "upserting",
                             ![r].todo = left, ![r].want = h, ![r].put = Write(@, g, row)]
    BY <1>3 DEF UpsertRow
  <2>3. /\ old.todo \subseteq Tags /\ g \in old.todo /\ g \in Tags /\ left \subseteq Tags
        /\ h \in Tags \cup {NoTag} /\ (left # {} => h \in left)
        /\ old.tags = old.todo \cup DOMAIN old.put /\ DOMAIN old.count = CounterOf(old.kind)
    <3>1. old.todo \subseteq Tags
      BY <1>1 DEF RecType
    <3>2. /\ g \in old.todo /\ old.tags = old.todo \cup DOMAIN old.put
          /\ DOMAIN old.count = CounterOf(old.kind)
      BY <1>1, RecordingIs DEF Wrote
    <3> QED
      BY <2>2, <3>1, <3>2
  <2>4. row \in SignalRow
    <3>1. signal[old.user] \in [Tags -> SignalRow \cup {NoRow}]
      BY RecordingIs DEF InteractInv, InteractTyped
    <3>2. signal[old.user][g] \in SignalRow \cup {NoRow}
      BY <2>3, <3>1
    <3> QED
      BY <3>2, RecordingIs, UpsertedIs
  <2> DEFINE put == Write(old.put, g, row)
  <2>5. /\ put \in Puts /\ DOMAIN put = DOMAIN old.put \cup {g} /\ put[g] = row
        /\ \A d \in DOMAIN old.put \ {g} : put[d] = old.put[d]
    <3>1. PICK rows : rows = old.put
      OBVIOUS
    <3>2. PICK tag : tag = g
      OBVIOUS
    <3>3. PICK new : new = row
      OBVIOUS
    <3>4. rows \in [DOMAIN rows -> SignalRow] /\ DOMAIN rows \subseteq Tags
      BY <3>1, RecordingIs
    <3>5. tag \in Tags /\ new \in SignalRow
      BY <2>3, <2>4, <3>2, <3>3
    <3> DEFINE D == DOMAIN rows \cup {tag}
    <3>6. /\ Write(rows, tag, new) \in [D -> SignalRow] /\ DOMAIN Write(rows, tag, new) = D
          /\ Write(rows, tag, new)[tag] = new
          /\ \A d \in DOMAIN rows \ {tag} : Write(rows, tag, new)[d] = rows[d]
      BY <3>4, <3>5 DEF Write
    <3>7. D \in SUBSET Tags
      BY <3>4, <3>5
    <3> HIDE DEF D
    <3>8. Write(rows, tag, new) \in Puts
      BY <3>6, <3>7 DEF Puts
    <3> HIDE DEF old, row, g
    <3> QED
      BY <3>1, <3>2, <3>3, <3>6, <3>8 DEF D
  <2> DEFINE pc == IF left = {} THEN "written" ELSE "upserting"
             q == [old EXCEPT !.pc = pc, !.todo = left, !.want = h, !.put = put]
  <2>6. rec' = [rec EXCEPT ![r] = q]
    BY <2>2, RecordingIs DEF RecType
  <2>7. pc \in {"written", "upserting"} /\ (left = {} <=> pc = "written")
    OBVIOUS
  <2> HIDE DEF pc, put, row, left
  <2>8. /\ q \in RecType /\ q.pc = pc /\ q.count = old.count /\ q.put = put /\ q.kind = old.kind
        /\ q.item = old.item /\ q.user = old.user /\ q.tags = old.tags /\ q.todo = left
        /\ q.want = h
    BY <1>1, <2>3, <2>5, <2>7 DEF RecType
  <2> HIDE DEF q
  <2>9. Wrote(q)
    BY <2>3, <2>5, <2>7, <2>8 DEF Wrote, left
  <2>10. Holds(q)
    <3>1. \A d \in DOMAIN put : d \in tags /\ put[d] = Upserted(signal[old.user][d], old.kind)
      <4>1. \A d \in DOMAIN old.put :
               d \in tags /\ old.put[d] = Upserted(signal[old.user][d], old.kind)
        BY RecordingIs DEF Holds
      <4> QED
        BY <2>1, <2>5, <4>1 DEF row
    <3>2. \A c \in DOMAIN old.count : old.count[c] = counter[old.item][c] + 1
      BY RecordingIs DEF Holds
    <3> QED
      BY <2>8, <3>1, <3>2 DEF Holds
  <2>11. ASSUME NEW s \in Recordings \ {r}
         PROVE  Separate(q, rec[s]) /\ Separate(rec[s], q)
    <3>1. rec[s].user = old.user => g \notin DOMAIN rec[s].put
      BY <1>1 DEF SignalFree, HasSignal
    <3>2. Separate(old, rec[s]) /\ Separate(rec[s], old)
      BY RecordingIs
    <3> HIDE DEF old, g
    <3> QED
      BY <2>5, <2>8, <3>1, <3>2 DEF Separate
  <2> QED
    BY <1>1, <2>6, <2>7, <2>8, <2>9, <2>10, <2>11, RecordingGoesOn
<1> QED
  BY <1>2, <1>3

(* One event more is one in the count, and its weight in the total.        *)
LEMMA TotalAdd ==
    ASSUME NEW p, NEW q, NEW E, IsFiniteSet(E), NEW r, r \notin E,
           \A s \in E : q[s] = p[s] /\ p[s].kind \in Kinds, q[r].kind \in Kinds
    PROVE  /\ Total(q, E \cup {r}) = Total(p, E) + Weight[q[r].kind]
           /\ Total(p, E) \in Int /\ Total(p, {}) = 0
<1> DEFINE D == E \cup {r}
           w == [s \in D |-> Weight[q[s].kind]]
           v == [s \in E |-> Weight[p[s].kind]]
<1>1. w \in [D -> Int] /\ v \in [E -> Int] /\ w[r] = Weight[q[r].kind]
  BY WeightIsInt
<1>2. \A s \in E : w[s] = v[s]
  OBVIOUS
<1>3. Total(q, D) = SumOf(w, D) /\ Total(p, E) = SumOf(v, E)
  BY DEF Total
<1>4. E \in SUBSET D /\ E \in SUBSET (D \cap E) /\ r \in D /\ E \in SUBSET E
  OBVIOUS
<1>5. Total(p, {}) = 0
  <2>1. Total(p, {}) = SumOf([s \in {} |-> Weight[p[s].kind]], {})
    BY DEF Total
  <2> DEFINE z == [s \in {} |-> Weight[p[s].kind]]
  <2>2. z \in [{} -> Int] /\ {} \in SUBSET {} /\ IsFiniteSet({})
    BY FS_EmptySet
  <2> HIDE DEF z
  <2>3. SumOf(z, {}) = 0
    BY <2>2, SumType
  <2> QED
    BY <2>1, <2>3 DEF z
<1> HIDE DEF w, v
<1>6. SumOf(w, E) = SumOf(v, E)
  BY <1>1, <1>2, <1>4, SumSame
<1>7. SumOf(w, E \cup {r}) = SumOf(w, E) + w[r]
  <2> HIDE DEF D
  <2> QED
    BY <1>1, <1>4, SumAdd
<1>8. SumOf(v, E) \in Int
  BY <1>1, <1>4, SumType
<1> QED
  BY <1>1, <1>3, <1>5, <1>6, <1>7, <1>8

\* The counters d are c and one more for the request one.
OneMore(c, d, one) ==
    \A i \in Gifts, k \in Columns :
        d[i][k] = IF i = one.item /\ k = one.kind THEN c[i][k] + 1 ELSE c[i][k]

(* The counters after one event more.                                      *)
LEMMA CountersGoOn ==
    ASSUME NEW c, NEW ev, NEW p, CountersMatch(c, ev, p), IsFiniteSet(ev), NEW r, r \notin ev,
           NEW q, \A s \in ev : q[s] = p[s], NEW d, OneMore(c, d, q[r])
    PROVE  CountersMatch(d, ev \cup {r}, q)
<1> SUFFICES ASSUME NEW i \in Gifts, NEW k \in Columns
             PROVE  d[i][k] = Cardinality({s \in ev \cup {r} : q[s].item = i /\ q[s].kind = k})
  BY DEF CountersMatch
<1> DEFINE S == {s \in ev : p[s].item = i /\ p[s].kind = k}
           T == {s \in ev \cup {r} : q[s].item = i /\ q[s].kind = k}
<1>1. c[i][k] = Cardinality(S)
  BY DEF CountersMatch
<1>2. IsFiniteSet(S) /\ r \notin S
  BY FS_Subset
<1>3. CASE i = q[r].item /\ k = q[r].kind
  <2>1. T = S \cup {r}
    BY <1>3
  <2> HIDE DEF S, T
  <2>2. Cardinality(S \cup {r}) = Cardinality(S) + 1
    BY <1>2, FS_AddElement
  <2> QED
    BY <1>1, <1>3, <2>1, <2>2 DEF T, OneMore
<1>4. CASE ~(i = q[r].item /\ k = q[r].kind)
  <2>1. T = S
    BY <1>4
  <2> QED
    BY <1>1, <1>4, <2>1 DEF OneMore
<1> QED
  BY <1>3, <1>4

(* The signals after it. *)
LEMMA SignalsGoOn ==
    ASSUME NEW sg, NEW tg, tg \subseteq Tags, NEW ev, NEW p, SignalsMatch(sg, tg, ev, p),
           IsFiniteSet(ev), NEW r, r \notin ev, NEW q,
           \A s \in ev : q[s] = p[s] /\ p[s].kind \in Kinds, q[r].kind \in Kinds, NEW new,
           \A u \in Shoppers, g \in tg :
               new[u][g] = IF u = q[r].user /\ g \in q[r].tags
                           THEN Upserted(sg[u][g], q[r].kind) ELSE sg[u][g]
    PROVE  SignalsMatch(new, tg, ev \cup {r}, q)
<1> SUFFICES ASSUME NEW u \in Shoppers, NEW g \in tg
             PROVE  LET E == Touching(ev \cup {r}, q, u, g)
                    IN new[u][g] = IF E = {} THEN NoRow
                                   ELSE [score |-> Total(q, E), count |-> Cardinality(E)]
  BY DEF SignalsMatch
<1> DEFINE S == Touching(ev, p, u, g)
           T == Touching(ev \cup {r}, q, u, g)
<1>1. sg[u][g] = IF S = {} THEN NoRow ELSE [score |-> Total(p, S), count |-> Cardinality(S)]
  BY DEF SignalsMatch
<1>2. S \subseteq ev /\ IsFiniteSet(S) /\ r \notin S /\ Cardinality(S) \in Nat
  <2>1. S \subseteq ev
    BY DEF Touching
  <2> QED
    BY <2>1, FS_Subset, FS_CardinalityType
<1>3. \A s \in S : q[s] = p[s] /\ p[s].kind \in Kinds
  BY <1>2
<1>4. CASE u = q[r].user /\ g \in q[r].tags
  <2>1. T = S \cup {r}
    BY <1>4 DEF Touching
  <2> HIDE DEF S, T
  <2>2. Cardinality(T) = Cardinality(S) + 1
    BY <1>2, <2>1, FS_AddElement
  <2>3. /\ Total(q, T) = Total(p, S) + Weight[q[r].kind]
        /\ Total(p, S) \in Int /\ Total(p, {}) = 0
    <3>1. /\ Total(q, S \cup {r}) = Total(p, S) + Weight[q[r].kind]
          /\ Total(p, S) \in Int /\ Total(p, {}) = 0
      BY <1>2, <1>3, TotalAdd
    <3> QED
      BY <2>1, <3>1
  <2>4. new[u][g] = Upserted(sg[u][g], q[r].kind)
    BY <1>4
  <2>5. Weight[q[r].kind] \in Int
    BY WeightIsInt
  <2>6. CASE S = {}
    <3>1. new[u][g] = [score |-> Weight[q[r].kind], count |-> 1]
      BY <1>1, <2>4, <2>6 DEF Upserted
    <3>2. Total(q, T) = Weight[q[r].kind] /\ Cardinality(T) = 1
      BY <2>2, <2>3, <2>5, <2>6, FS_EmptySet
    <3> QED
      BY <2>1, <3>1, <3>2 DEF T
  <2>7. CASE S # {}
    <3>1. sg[u][g] \in [score : Int, count : Int]
      BY <1>1, <1>2, <2>3, <2>7
    <3>2. new[u][g] = [score |-> sg[u][g].score + Weight[q[r].kind], count |-> sg[u][g].count + 1]
      BY <2>4, <3>1, InteractionsAssumption DEF Upserted
    <3>3. sg[u][g].score = Total(p, S) /\ sg[u][g].count = Cardinality(S)
      BY <1>1, <2>7
    <3>4. new[u][g] = [score |-> Total(q, T), count |-> Cardinality(T)]
      BY <2>2, <2>3, <3>2, <3>3
    <3> QED
      BY <2>1, <3>4 DEF T
  <2> QED
    BY <2>6, <2>7
<1>5. CASE ~(u = q[r].user /\ g \in q[r].tags)
  <2>1. T = S
    BY <1>5 DEF Touching
  <2>2. Total(q, S) = Total(p, S)
    <3>1. [s \in S |-> Weight[q[s].kind]] = [s \in S |-> Weight[p[s].kind]]
      BY <1>3
    <3> HIDE DEF S
    <3> QED
      BY <3>1 DEF Total
  <2>3. new[u][g] = sg[u][g]
    BY <1>5
  <2> HIDE DEF S, T
  <2> QED
    BY <1>1, <2>1, <2>2, <2>3 DEF T
<1> QED
  BY <1>4, <1>5

(* Its rows become the committed ones, with the event; nobody else had     *)
(* written any of them.                                                    *)
LEMMA CommitKeeps ==
    ASSUME InteractInv, NEW r \in Recordings, CommitInteraction(r)
    PROVE  InteractInv'
<1> DEFINE old == rec[r]
           new == [NotRecording EXCEPT !.pc = "204", !.user = old.user, !.item = old.item,
                                       !.kind = old.kind, !.tags = old.tags]
<1>1. /\ old.pc = "written" /\ UNCHANGED tags /\ events' = events \cup {r} /\ r \notin events
      /\ counter' = [counter EXCEPT ![old.item] = Over(counter[old.item], old.count)]
      /\ signal' = [signal EXCEPT ![old.user] = Over(signal[old.user], old.put)]
      /\ rec' = [rec EXCEPT ![r] = new]
  BY RecordingIs DEF CommitInteraction, Catalog
<1>2. /\ old \in RecType /\ old.user \in Shoppers /\ old.item \in Gifts /\ old.kind \in Kinds
      /\ old.tags \subseteq Tags /\ old.count \in [DOMAIN old.count -> Int]
      /\ old.put \in [DOMAIN old.put -> SignalRow]
      /\ DOMAIN old.count = CounterOf(old.kind) /\ DOMAIN old.put = old.tags
  <2>1. old.tags \subseteq Tags
    BY RecordingIs DEF RecType
  <2>2. DOMAIN old.count = CounterOf(old.kind) /\ DOMAIN old.put = old.tags
    BY <1>1, RecordingIs DEF Wrote
  <2> QED
    BY <2>1, <2>2, RecordingIs
<1>3. /\ new \in RecType /\ new.pc = "204" /\ new.user = old.user /\ new.item = old.item
      /\ new.kind = old.kind /\ new.tags = old.tags /\ DOMAIN new.count = {} /\ DOMAIN new.put = {}
  BY <1>2, NotRecordingIs DEF RecType
<1> HIDE DEF new
<1>4. \A s \in Recordings : rec'[s] = IF s = r THEN new ELSE rec[s]
  BY <1>1, RecordingIs
<1>5. /\ counter \in [Gifts -> [Columns -> Int]] /\ tags \subseteq Tags
      /\ signal \in [Shoppers -> [Tags -> SignalRow \cup {NoRow}]]
      /\ IsFiniteSet(events) /\ events = {s \in Recordings : rec[s].pc = "204"}
  BY DEF InteractInv, InteractTyped
<1>6. /\ counter' \in [Gifts -> [Columns -> Int]]
      /\ \A i \in Gifts, k \in Columns :
             counter'[i][k] = IF i = old.item /\ k \in DOMAIN old.count
                              THEN old.count[k] ELSE counter[i][k]
  <2> DEFINE over == Over(counter[old.item], old.count)
  <2>1. over = [k \in Columns |-> IF k \in DOMAIN old.count THEN old.count[k]
                                  ELSE counter[old.item][k]]
    BY <1>2, <1>5 DEF Over
  <2>2. over \in [Columns -> Int]
    BY <1>2, <1>5, <2>1
  <2>3. \A k \in Columns : over[k] = IF k \in DOMAIN old.count THEN old.count[k]
                                      ELSE counter[old.item][k]
    BY <2>1
  <2>4. counter' = [counter EXCEPT ![old.item] = over]
    BY <1>1
  <2> HIDE DEF over, old
  <2> QED
    BY <1>2, <1>5, <2>2, <2>3, <2>4
<1>7. /\ signal' \in [Shoppers -> [Tags -> SignalRow \cup {NoRow}]]
      /\ \A u \in Shoppers, g \in Tags :
             signal'[u][g] = IF u = old.user /\ g \in DOMAIN old.put
                             THEN old.put[g] ELSE signal[u][g]
  <2> DEFINE over == Over(signal[old.user], old.put)
  <2>1. over = [g \in Tags |-> IF g \in DOMAIN old.put THEN old.put[g]
                               ELSE signal[old.user][g]]
    BY <1>2, <1>5 DEF Over
  <2>2. over \in [Tags -> SignalRow \cup {NoRow}]
    BY <1>2, <1>5, <2>1
  <2>3. \A g \in Tags : over[g] = IF g \in DOMAIN old.put THEN old.put[g]
                                   ELSE signal[old.user][g]
    BY <2>1
  <2>4. signal' = [signal EXCEPT ![old.user] = over]
    BY <1>1
  <2> HIDE DEF over, old
  <2> QED
    BY <1>2, <1>5, <2>2, <2>3, <2>4
<1>8. Holds(old) /\ \A s \in Recordings \ {r} : Holds(rec[s]) /\ Separate(old, rec[s])
                                             /\ Separate(rec[s], old) /\ rec[s] \in RecType
  BY RecordingIs
<1>9. InteractTyped'
  <2>1. rec' \in [Recordings -> RecType]
    BY <1>1, <1>3, RecordingIs
  <2>2. events' = {s \in Recordings : rec'[s].pc = "204"}
    BY <1>1, <1>3, <1>4, <1>5
  <2>3. IsFiniteSet(events')
    BY <1>1, <1>5, FS_AddElement
  <2> QED
    BY <1>1, <1>5, <1>6, <1>7, <2>1, <2>2, <2>3 DEF InteractTyped
<1>10. (\A s \in Recordings : Wrote(rec[s]))'
  <2>1. Wrote(new)
    BY <1>3 DEF Wrote
  <2> QED
    BY <1>4, <2>1 DEF InteractInv
<1>11. (\A s \in Recordings : Holds(rec[s]))'
  <2> SUFFICES ASSUME NEW s \in Recordings PROVE Holds(rec[s])'
    OBVIOUS
  <2>1. CASE s = r
    BY <1>3, <1>4, <2>1 DEF Holds
  <2>2. CASE s # r
    <3>1. rec'[s] = rec[s] /\ rec[s].item \in Gifts /\ rec[s].user \in Shoppers
          /\ DOMAIN rec[s].count \subseteq Columns /\ DOMAIN rec[s].put \subseteq Tags
      BY <1>4, <2>2, RecordingIs
    <3>2. \A c \in DOMAIN rec[s].count : counter'[rec[s].item][c] = counter[rec[s].item][c]
      BY <1>6, <1>8, <2>2, <3>1 DEF Separate
    <3>3. \A g \in DOMAIN rec[s].put : signal'[rec[s].user][g] = signal[rec[s].user][g]
      BY <1>7, <1>8, <2>2, <3>1 DEF Separate
    <3>4. Holds(rec[s])
      BY <1>8, <2>2
    <3> QED
      BY <1>1, <3>1, <3>2, <3>3, <3>4 DEF Holds
  <2> QED
    BY <2>1, <2>2
<1>12. (\A s, t \in Recordings : s # t => Separate(rec[s], rec[t]))'
  <2>1. \A s \in Recordings : Separate(new, rec[s]) /\ Separate(rec[s], new)
    BY <1>3 DEF Separate
  <2> QED
    BY <1>4, <2>1 DEF InteractInv
<1>13. events \subseteq Recordings /\ \A s \in events : rec'[s] = rec[s] /\ rec[s].kind \in Kinds
  BY <1>1, <1>4, <1>5, RecordingIs
<1>14. rec'[r] = new
  BY <1>4
<1>15. CountersMatch(counter', events', rec')
  <2>1. \A k \in DOMAIN old.count : old.count[k] = counter[old.item][k] + 1
    BY <1>8 DEF Holds
  <2>2. \A k \in Columns : k \in DOMAIN old.count <=> k = old.kind
    BY <1>2 DEF CounterOf, Columns
  <2>3. \A i \in Gifts, k \in Columns :
           counter'[i][k] = IF i = rec'[r].item /\ k = rec'[r].kind
                            THEN counter[i][k] + 1 ELSE counter[i][k]
    BY <1>3, <1>6, <1>14, <2>1, <2>2
  <2>4. CountersMatch(counter, events, rec)
    BY DEF InteractInv
  <2> HIDE DEF old
  <2>5. CountersMatch(counter', events \cup {r}, rec')
    <3>1. IsFiniteSet(events) /\ r \notin events /\ \A s \in events : rec'[s] = rec[s]
      BY <1>1, <1>5, <1>13
    <3>2. OneMore(counter, counter', rec'[r])
      BY <2>3 DEF OneMore
    <3> QED
      BY <2>4, <3>1, <3>2, CountersGoOn
  <2> QED
    BY <1>1, <2>5
<1>16. SignalsMatch(signal', tags', events', rec')
  <2>1. \A g \in DOMAIN old.put : old.put[g] = Upserted(signal[old.user][g], old.kind)
    BY <1>8 DEF Holds
  <2>2. \A u \in Shoppers, g \in tags :
           signal'[u][g] = IF u = rec'[r].user /\ g \in rec'[r].tags
                           THEN Upserted(signal[u][g], rec'[r].kind) ELSE signal[u][g]
    BY <1>2, <1>3, <1>5, <1>7, <1>14, <2>1
  <2>3. SignalsMatch(signal, tags, events, rec) /\ rec'[r].kind \in Kinds
    BY <1>2, <1>3, <1>14 DEF InteractInv
  <2> HIDE DEF old
  <2>4. SignalsMatch(signal', tags, events \cup {r}, rec')
    BY <1>1, <1>5, <1>13, <2>2, <2>3, SignalsGoOn
  <2> QED
    BY <1>1, <2>4
<1> QED
  BY <1>9, <1>10, <1>11, <1>12, <1>15, <1>16 DEF InteractInv

(* A tag that is deleted takes signals along that nobody has written.      *)
LEMMA DeleteTagKeeps ==
    ASSUME InteractInv, NEW g \in Tags, DeleteTag(g)
    PROVE  InteractInv'
<1>1. /\ UNCHANGED <<counter, events, rec>> /\ tags' = tags \ {g}
      /\ signal' = [u \in Shoppers |-> [signal[u] EXCEPT ![g] = NoRow]]
      /\ \A r \in Recordings : g \notin DOMAIN rec[r].put
  BY DEF DeleteTag
<1>2. /\ signal' \in [Shoppers -> [Tags -> SignalRow \cup {NoRow}]]
      /\ \A u \in Shoppers, h \in Tags : h # g => signal'[u][h] = signal[u][h]
  <2>1. signal \in [Shoppers -> [Tags -> SignalRow \cup {NoRow}]]
    BY DEF InteractInv, InteractTyped
  <2> QED
    BY <1>1, <2>1
<1>3. InteractTyped'
  BY <1>1, <1>2 DEF InteractInv, InteractTyped
<1>4. (\A r \in Recordings : Holds(rec[r]))'
  <2> SUFFICES ASSUME NEW r \in Recordings PROVE Holds(rec[r])'
    OBVIOUS
  <2>1. \A h \in DOMAIN rec[r].put : h \in tags' /\ signal'[rec[r].user][h] = signal[rec[r].user][h]
    <3>1. \A h \in DOMAIN rec[r].put : h \in tags /\ h \in Tags /\ h # g
      BY <1>1, RecordingIs DEF Holds
    <3> QED
      BY <1>1, <1>2, <3>1, RecordingIs
  <2>2. Holds(rec[r])
    BY RecordingIs
  <2> QED
    BY <1>1, <2>1, <2>2 DEF Holds
<1>5. SignalsMatch(signal', tags', events', rec')
  <2>1. tags \subseteq Tags /\ SignalsMatch(signal, tags, events, rec)
    BY DEF InteractInv, InteractTyped
  <2>2. \A u \in Shoppers, h \in tags' : h \in tags /\ signal'[u][h] = signal[u][h]
    BY <1>1, <1>2, <2>1
  <2> QED
    BY <1>1, <2>1, <2>2 DEF SignalsMatch
<1> QED
  BY <1>1, <1>3, <1>4, <1>5 DEF InteractInv

(* Nothing else touches what the invariant is about.                       *)
LEMMA OthersKeep ==
    ASSUME InteractInv, UNCHANGED <<tags, Rows, rec>>
    PROVE  InteractInv'
<1>1. UNCHANGED <<tags, counter, signal, events, rec>>
  BY DEF Rows
<1> QED
  BY <1>1 DEF InteractInv, InteractTyped, Holds

(* So every step preserves it. *)
LEMMA NextInteractInv == InteractInv /\ [InteractNext]_interaction => InteractInv'
<1> SUFFICES ASSUME InteractInv, [InteractNext]_interaction PROVE InteractInv'
  OBVIOUS
<1>1. ASSUME NEW r \in Recordings, Interact(r) \/ Record(r) \/ Crash(r) PROVE InteractInv'
  <2>1. CASE Interact(r)
    BY <2>1, LoadItemKeeps DEF Interact
  <2>2. CASE Bump(r)
    BY <2>2, BumpKeeps
  <2>3. CASE ReadTags(r)
    BY <2>3, ReadTagsKeeps
  <2>4. CASE UpsertRow(r)
    BY <2>4, UpsertRowKeeps
  <2>5. CASE CommitInteraction(r)
    BY <2>5, CommitKeeps
  <2>6. CASE Abort(r)
    BY <2>6, FailKeeps DEF Abort, Catalog
  <2>7. CASE Crash(r)
    BY <2>7, FailKeeps DEF Crash, Catalog
  <2> QED
    BY <1>1, <2>1, <2>2, <2>3, <2>4, <2>5, <2>6, <2>7 DEF Record
<1>2. ASSUME NEW q \in Readers, Ask(q) \/ Recommend(q) PROVE InteractInv'
  <2>1. UNCHANGED <<tags, Rows, rec>>
    BY <1>2 DEF Ask, Recommend, GetRecommendations, ComputeForUser, TopTags, FindItems, StoreRecs,
                Catalog
  <2> QED
    BY <2>1, OthersKeep
<1>3. ASSUME NEW i \in Catalogue, ToggleItem(i) \/ \E g \in Tags : Retag(i, g) PROVE InteractInv'
  BY <1>3, OthersKeep DEF ToggleItem, Retag
<1>4. ASSUME NEW g \in Tags, DeleteTag(g) PROVE InteractInv'
  BY <1>4, DeleteTagKeeps
<1>5. ASSUME NEW u \in Shoppers, Expire(u) PROVE InteractInv'
  BY <1>5, OthersKeep DEF Expire, Catalog
<1>6. CASE UNCHANGED interaction
  BY <1>6, OthersKeep DEF interaction, Rows
<1> QED
  BY <1>1, <1>2, <1>3, <1>4, <1>5, <1>6 DEF InteractNext

(* The inductive invariant of the interactions holds throughout. *)
THEOREM InteractInvHolds == InteractSpec => []InteractInv
<1> QED
  BY InitInteractInv, NextInteractInv, PTL DEF InteractSpec

(* The counters and the per-tag scores are exactly what the events that    *)
(* were recorded add up to, for any number of requests that overlap, fail, *)
(* crash or lose a deadlock (record_interaction, increment_counter and     *)
(* upsert_signals_bulk).                                                   *)
THEOREM AggregatesAreExact == InteractSpec => []AggregatesMatchEvents
<1>1. InteractInv => AggregatesMatchEvents
  <2> SUFFICES ASSUME InteractInv PROVE AggregatesMatchEvents
    OBVIOUS
  <2>1. \A i \in Gifts, c \in {"view", "click", "save"} :
           counter[i][c] = Cardinality({r \in events : rec[r].item = i /\ rec[r].kind = c})
    BY DEF InteractInv, CountersMatch, Columns
  <2>2. ASSUME NEW u \in Shoppers, NEW g \in tags
        PROVE  LET E == {r \in events : rec[r].user = u /\ g \in rec[r].tags}
               IN signal[u][g] = IF E = {} THEN NoRow
                                 ELSE [score |-> Sum(E), count |-> Cardinality(E)]
    <3> DEFINE E == {r \in events : rec[r].user = u /\ g \in rec[r].tags}
    <3>1. E = Touching(events, rec, u, g)
      BY DEF Touching
    <3>2. Sum(E) = Total(rec, E)
      BY DEF Sum, Total, SumOf
    <3> QED
      BY <3>1, <3>2 DEF InteractInv, SignalsMatch
  <2> QED
    BY <2>1, <2>2 DEF AggregatesMatchEvents
<1> QED
  BY <1>1, InteractInvHolds, PTL
====
