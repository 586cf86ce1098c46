---- MODULE Wishlists ----
(***************************************************************************)
(* Wishlists: the operations of backend/app/services/wishlist_service.py   *)
(* over repositories/wishlists.py and the tables of models/user.py, each   *)
(* called by one request in its own READ COMMITTED transaction.            *)
(*                                                                         *)
(* lists and entries are committed rows.  A request loads the list, checks *)
(* it, sends its statement (flush) and commits; between flush and commit   *)
(* its row locks make others wait and its writes are invisible to them.    *)
(* Names, notes, priorities and is_purchased are left out.                 *)
(***************************************************************************)
EXTENDS Integers, FiniteSets

CONSTANTS Users, Lists, Items, Requests,
          Tokens, NoToken,   \* what secrets.token_urlsafe may return; NULL
          Stock              \* the items of the catalogue; no other one exists

VARIABLES lists,       \* lists[l]: Unborn, Gone or the committed row
          entries,     \* committed wishlist_items, pairs <<l, i>>
          req,         \* req[r]: the request's local state and its answer
          net,         \* history: 201 answers less 204 answers, per pair
          handed,      \* history: the tokens answered for a list
          overlapped   \* history: lists on which two first shares overlapped

vars == <<lists, entries, req, net, handed, overlapped>>

ASSUME WishlistAssumption == Lists # {} /\ Items # {} /\ NoToken \notin Tokens

Unborn == [state |-> "unborn"]
Gone == [state |-> "gone"]
Row(owner, public, token) ==
    [state |-> "live", owner |-> owner, public |-> public, token |-> token]
LiveRows == {Row(u, p, t) : u \in Users, p \in BOOLEAN, t \in Tokens \cup {NoToken}}
Live(l) == lists[l].state = "live"

Locks == {"none", "entry", "ref", "row", "key", "drop"}
Ops == {"create", "update", "delete", "add", "remove", "share", "shared", "get"}
Changes == {"none", "name", "publish", "unpublish", "null"}
Answers == {"open", "ok", "403", "404", "409", "500"}

Pairs == Lists \X Items
Idle == [pc |-> "idle", op |-> "get", list |-> CHOOSE l \in Lists : TRUE,
         item |-> CHOOSE i \in Items : TRUE, row |-> Gone, put |-> Gone,
         lock |-> "none", change |-> "none", out |-> "open"]

TypeOK ==
    /\ lists \in [Lists -> LiveRows \cup {Unborn, Gone}]
    /\ entries \subseteq Pairs
    /\ net \in [Pairs -> Int]
    /\ handed \in [Lists -> SUBSET Tokens] /\ overlapped \subseteq Lists
    /\ req \in [Requests -> [pc : {"idle", "checked", "flushed", "done"}, op : Ops,
                             list : Lists, item : Items, row : LiveRows \cup {Gone},
                             put : LiveRows \cup {Gone}, lock : Locks,
                             change : Changes, out : Answers]]

Init ==
    /\ lists \in [Lists -> {Unborn} \cup {Row(u, p, NoToken) : u \in Users, p \in BOOLEAN}]
    /\ entries = {}
    /\ req = [r \in Requests |-> Idle]
    /\ net = [p \in Pairs |-> 0]
    /\ handed = [l \in Lists |-> {}]
    /\ overlapped = {}

----
(* Two statements on one list wait for one another: an entry's foreign key *)
(* locks the list's row against a delete and against a write of its unique *)
(* share_token; entries collide on (wishlist_id, item_id).                 *)
Conflict(a, b) ==
    {a, b} \in {{"ref", "key"}, {"ref", "drop"}, {"row"}, {"row", "key"}, {"row", "drop"},
                {"key"}, {"key", "drop"}, {"drop"}, {"entry", "drop"}}

\* Mutant: the head of each handler holds the list's lock (SELECT ... FOR SHARE).
MayLockAfterShare(r, lock) ==
    \A s \in Requests \ {r} : req[s].list = req[r].list =>
        /\ req[s].pc # "checked"
        /\ req[s].pc = "flushed" => ~Conflict(lock, req[s].lock)

MayLock(r, lock) ==
    \A s \in Requests \ {r} :
        req[s].pc = "flushed" /\ req[s].list = req[r].list =>
            /\ ~Conflict(lock, req[s].lock)
            /\ {lock, req[s].lock} \subseteq {"ref", "entry"} => req[s].item # req[r].item

Answer(r, out) == req' = [req EXCEPT ![r] = [Idle EXCEPT !.pc = "done", !.out = out]]

Flush(r, lock, put) ==
    req' = [req EXCEPT ![r].pc = "flushed", ![r].lock = lock, ![r].put = put]

Begin(r, op, l, i, change) ==
    req' = [req EXCEPT ![r] = [Idle EXCEPT !.pc = "checked", !.op = op, !.list = l, !.item = i,
                                           !.row = lists[l], !.change = change]]

(* The head of update, delete, add, remove and share: get_by_id, 404, 403. *)
Load(r, u, op, l, i, change) ==
    /\ req[r].pc = "idle"
    /\ op \in {"update", "delete", "add", "remove", "share"}
    /\ IF ~Live(l) THEN Answer(r, "404")
       ELSE IF lists[l].owner # u THEN Answer(r, "403")
       ELSE IF op = "add" /\ i \notin Stock THEN Answer(r, "404")
       ELSE Begin(r, op, l, i, change)
    /\ UNCHANGED <<lists, entries, net, handed, overlapped>>

(* GET by id: one load; a private list is shown to its owner only. *)
GetWishlist(r, u, l) ==
    /\ req[r].pc = "idle"
    /\ Answer(r, IF ~Live(l) THEN "404"
                 ELSE IF lists[l].public \/ lists[l].owner = u THEN "ok" ELSE "403")
    /\ UNCHANGED <<lists, entries, net, handed, overlapped>>

(* GET by token: the row is found by token and is_public, then fetched     *)
(* again by id with its entries; the second fetch is asserted to succeed.  *)
FindShared(r, t) ==
    /\ req[r].pc = "idle"
    /\ LET found == {l \in Lists : Live(l) /\ lists[l].token = t /\ lists[l].public}
       IN IF found = {} THEN Answer(r, "404")
          ELSE \E l \in found : Begin(r, "shared", l, Idle.item, "none")
    /\ UNCHANGED <<lists, entries, net, handed, overlapped>>

\* Mutant: the second fetch asks for a public list too.
FetchSharedPublic(r) ==
    /\ req[r].pc = "checked" /\ req[r].op = "shared"
    /\ Answer(r, IF Live(req[r].list) /\ lists[req[r].list].public THEN "ok" ELSE "500")
    /\ UNCHANGED <<lists, entries, net, handed, overlapped>>

FetchShared(r) ==
    /\ req[r].pc = "checked" /\ req[r].op = "shared"
    /\ Answer(r, IF Live(req[r].list) THEN "ok" ELSE "500")
    /\ UNCHANGED <<lists, entries, net, handed, overlapped>>

----
CreateWishlist(r, u, l, public) ==
    /\ req[r].pc = "idle" /\ lists[l] = Unborn
    /\ \A s \in Requests : req[s].pc = "flushed" => req[s].list # l
    /\ req' = [req EXCEPT ![r] = [Idle EXCEPT !.pc = "flushed", !.op = "create", !.list = l,
                                              !.put = Row(u, public, NoToken)]]
    /\ UNCHANGED <<lists, entries, net, handed, overlapped>>

(* setattr and flush: the ORM sends the columns that differ from the row   *)
(* it loaded, and raises when no row is left to update.  The answer fetches *)
(* the list again, asserting that it is there.  A column patched to null   *)
(* violates NOT NULL.                                                      *)
FlushUpdate(r) ==
    LET q == req[r]
        writes == \/ q.change \in {"name", "null"}
                  \/ q.change = "publish" /\ ~q.row.public
                  \/ q.change = "unpublish" /\ q.row.public
    IN /\ q.pc = "checked" /\ q.op = "update"
       /\ writes => MayLock(r, "row")
       /\ IF q.change = "null"
          THEN req' = [req EXCEPT ![r] = [Idle EXCEPT !.pc = "done", !.out = "500",
                                                      !.change = "null"]]
          ELSE IF ~Live(q.list) THEN Answer(r, "500")
          ELSE IF ~writes THEN Answer(r, "ok")
          ELSE Flush(r, "row", IF q.change = "name" THEN lists[q.list]
                               ELSE [lists[q.list] EXCEPT !.public = ~q.row.public])
       /\ UNCHANGED <<lists, entries, net, handed, overlapped>>

(* DELETE: the cascade takes the entries along; a row that is already gone *)
(* is a warning only, and the answer is still 204.                         *)
FlushDelete(r) ==
    /\ req[r].pc = "checked" /\ req[r].op = "delete"
    /\ MayLock(r, "drop")
    /\ IF Live(req[r].list) THEN Flush(r, "drop", Gone) ELSE Answer(r, "ok")
    /\ UNCHANGED <<lists, entries, net, handed, overlapped>>

(* Mutant: no unique constraint on (wishlist_id, item_id). *)
FlushAddNoUnique(r) ==
    LET q == req[r]
    IN /\ q.pc = "checked" /\ q.op = "add" /\ MayLock(r, "ref")
       /\ IF ~Live(q.list) THEN Answer(r, "409") ELSE Flush(r, "ref", Gone)
       /\ UNCHANGED <<lists, entries, net, handed, overlapped>>

(* INSERT: any IntegrityError, of the unique pair or of the foreign key,   *)
(* rolls the session back and is answered 409 "already in wishlist".       *)
FlushAdd(r) ==
    LET q == req[r]
    IN /\ q.pc = "checked" /\ q.op = "add"
       /\ MayLock(r, "ref")
       /\ IF <<q.list, q.item>> \in entries \/ ~Live(q.list) THEN Answer(r, "409")
          ELSE Flush(r, "ref", Gone)
       /\ UNCHANGED <<lists, entries, net, handed, overlapped>>

(* DELETE of the entry; 404 when rowcount is 0. *)
FlushRemove(r) ==
    LET q == req[r]
    IN /\ q.pc = "checked" /\ q.op = "remove"
       /\ MayLock(r, "entry")
       /\ IF <<q.list, q.item>> \notin entries THEN Answer(r, "404")
          ELSE Flush(r, "entry", Gone)
       /\ UNCHANGED <<lists, entries, net, handed, overlapped>>

\* A token never handed out nor in use: secrets.token_urlsafe does not repeat itself.
Unused(t) ==
    LET sharing == {s \in Requests : req[s].put.state = "live"}
    IN /\ t \notin {req[s].put.token : s \in sharing}
       /\ t \notin UNION {handed[l] : l \in Lists}
Fresh == CHOOSE t \in Tokens : Unused(t)

\* Mutant: every share draws a token, as docs/api.md's "regenerate" says.
FlushShareRegenerates(r) ==
    LET q == req[r]
    IN /\ q.pc = "checked" /\ q.op = "share"
       /\ MayLock(r, "key")
       /\ IF ~Live(q.list) THEN Answer(r, "500")
          ELSE Flush(r, "key", [lists[q.list] EXCEPT !.token = Fresh, !.public = TRUE])
       /\ UNCHANGED <<lists, entries, net, handed, overlapped>>

(* share_token or a fresh one, and is_public: only what differs is sent.   *)
FlushShare(r) ==
    LET q == req[r]
        row == lists[q.list]
        lock == IF q.row.token = NoToken THEN "key" ELSE "row"
    IN /\ q.pc = "checked" /\ q.op = "share"
       /\ q.row.token = NoToken \/ ~q.row.public => MayLock(r, lock)
       /\ q.row.token = NoToken => \E t \in Tokens : Unused(t)   \* a bound: they do not run out
       /\ IF q.row.token # NoToken /\ q.row.public
          THEN Flush(r, "none", q.row)
          ELSE IF ~Live(q.list) THEN Answer(r, "500")
          ELSE Flush(r, lock, Row(row.owner, row.public \/ ~q.row.public,
                                  IF q.row.token = NoToken THEN Fresh ELSE row.token))
       /\ UNCHANGED <<lists, entries, net, handed, overlapped>>

(* The unit of work commits after the endpoint; the answer stands. *)
Commit(r) ==
    LET q == req[r]
        pair == <<q.list, q.item>>
    IN /\ q.pc = "flushed"
       /\ lists' = CASE q.op = "delete" -> [lists EXCEPT ![q.list] = Gone]
                     [] q.op = "create" \/ q.lock \in {"row", "key"} ->
                            [lists EXCEPT ![q.list] = q.put]
                     [] OTHER -> lists
       /\ entries' = CASE q.op = "add" -> entries \cup {pair}
                       [] q.op = "remove" -> entries \ {pair}
                       [] q.op = "delete" -> {p \in entries : p[1] # q.list}
                       [] OTHER -> entries
       /\ net' = CASE q.op = "add" -> [net EXCEPT ![pair] = @ + 1]
                   [] q.op = "remove" -> [net EXCEPT ![pair] = @ - 1]
                   [] OTHER -> net
       /\ handed' = IF q.op = "share" THEN [handed EXCEPT ![q.list] = @ \cup {q.put.token}]
                    ELSE handed
       /\ overlapped' = IF /\ q.op = "share" /\ Live(q.list)
                           /\ q.row.token # lists[q.list].token
                        THEN overlapped \cup {q.list} ELSE overlapped
       /\ Answer(r, "ok")

----
Handle(r) == FetchShared(r) \/ FlushUpdate(r) \/ FlushDelete(r) \/ FlushAdd(r)
             \/ FlushRemove(r) \/ FlushShare(r) \/ Commit(r)

Arrive(r) ==
    \/ \E u \in Users, l \in Lists : GetWishlist(r, u, l)
    \/ \E t \in Tokens : FindShared(r, t)
    \/ \E u \in Users, l \in Lists, p \in BOOLEAN : CreateWishlist(r, u, l, p)
    \/ \E u \in Users, l \in Lists, i \in Items, c \in Changes, op \in Ops :
           (op \in {"add", "remove"} \/ i = Idle.item) /\ (op = "update" \/ c = "none")
           /\ Load(r, u, op, l, i, c)

Next == \E r \in Requests : Arrive(r) \/ Handle(r)

Fairness == \A r \in Requests : WF_vars(Handle(r))
Spec == Init /\ [][Next]_vars /\ Fairness

----
(* An item is in a list exactly when it was added there once more than it  *)
(* was removed, going by the answers that the clients were given: no two   *)
(* adds both answer 201, no two removes both answer 204 (add_item,         *)
(* remove_item and the unique pair, under concurrent requests).  And no    *)
(* entry outlives its list, though an add may race the list's delete.      *)
AnswersMatchEntries ==
    \A p \in Pairs : IF Live(p[1]) THEN net[p] = (IF p \in entries THEN 1 ELSE 0)
                     ELSE p \notin entries

(* A link that was handed out opens its list for as long as the list is    *)
(* public: publishing, unpublishing, renaming and sharing again leave the  *)
(* token alone.  Only two overlapping first shares can replace one.        *)
LinksStayGood ==
    \A l \in Lists \ overlapped : Live(l) =>
        \A t \in handed[l] : lists[l].token = t

(* A request fails with 500 (a StaleDataError, or one of the two asserts)  *)
(* only where a concurrent request has deleted a list, or where a PATCH    *)
(* sends an explicit null.                                                 *)
FailuresNeedADelete ==
    \A r \in Requests : req[r].out = "500" =>
        req[r].change = "null" \/ \E l \in Lists : lists[l] = Gone

(* Every request that has begun is answered: no wait for a row lock is     *)
(* circular.                                                               *)
EveryRequestAnswered ==
    \A r \in Requests : req[r].pc \in {"checked", "flushed"} ~> req[r].pc = "done"

====
