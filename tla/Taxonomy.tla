---- MODULE Taxonomy ----
(***************************************************************************)
(* The tag taxonomy: the operations of backend/app/services/               *)
(* taxonomy_service.py, each in a READ COMMITTED transaction of its own,   *)
(* the tables of models/taxonomy.py and the one-hour Redis copy.           *)
(*                                                                         *)
(* types, tags and tagged are committed rows; a request keeps what it has  *)
(* written in its record w until it commits.  A statement is one step, and *)
(* is enabled when the rows it needs are not locked by others; being       *)
(* chosen as a deadlock's victim, a server that dies and a failing         *)
(* statement are Abort.  No route calls get_taxonomy at this commit: its   *)
(* callers are the Readers.  Descriptions, sort orders and the tags'       *)
(* hierarchy are left out.                                                 *)
(***************************************************************************)
EXTENDS Integers, FiniteSets

CONSTANTS Types, Tags, Items, Names, Slugs,
          Admins, Taggers, Readers,
          Lists,                      \* the sets of tags that a PATCH may give an item
          Types0, Tags0, Tagged0,     \* the rows at the start
          NoRow,                      \* an id not issued yet; ids are not reissued
          Dropped,                    \* the id of a deleted row
          NoTree

VARIABLES types,    \* types[t]: NoRow, Dropped or [name, filterable]
          tags,     \* tags[g]: NoRow, Dropped or [type, slug, active]
          tagged,   \* item_tags, pairs <<i, g>>
          cache,    \* NoTree or the tree under taxonomy:filterable
          req       \* req[r]: the open transaction of r

vars == <<types, tags, tagged, cache, req>>
Rows == <<types, tags, tagged, cache>>

Requests == Admins \cup Taggers \cup Readers

TypeRow(n, f) == [name |-> n, filterable |-> f]
TagRow(t, s, a) == [type |-> t, slug |-> s, active |-> a]
TypeRows == {TypeRow(n, f) : n \in Names, f \in BOOLEAN}
TagRows == {TagRow(t, s, a) : t \in Types, s \in Slugs, a \in BOOLEAN}

(* The rows at the start satisfy the constraints of the tables. *)
ASSUME TaxonomyAssumption ==
    /\ NoRow # Dropped /\ {NoRow, Dropped} \cap (TypeRows \cup TagRows) = {}
    /\ DOMAIN Types0 \subseteq Types /\ Types0 \in [DOMAIN Types0 -> TypeRows]
    /\ DOMAIN Tags0 \subseteq Tags /\ Tags0 \in [DOMAIN Tags0 -> TagRows]
    /\ \A t, u \in DOMAIN Types0 : Types0[t].name = Types0[u].name => t = u
    /\ \A g \in DOMAIN Tags0 : Tags0[g].type \in DOMAIN Types0
    /\ \A g, h \in DOMAIN Tags0 :
           Tags0[g].type = Tags0[h].type /\ Tags0[g].slug = Tags0[h].slug => g = h
    /\ Tagged0 \subseteq Items \X DOMAIN Tags0
    /\ Lists \subseteq SUBSET Tags

HasType(t) == types[t] \notin {NoRow, Dropped}
HasTag(g) == tags[g] \notin {NoRow, Dropped}
RowsOf(g) == {p \in tagged : p[2] = g}

\* Uncommitted rows by id, and the table once they are committed.
Only(id, row) == [x \in {id} |-> row]
None == [x \in {} |-> Dropped]
Apply(written, rows) ==
    [x \in DOMAIN rows |-> IF x \in DOMAIN written THEN written[x] ELSE rows[x]]

(* Of a merge, seen is a history: the items that its UPDATE saw with the   *)
(* source, less those that have lost the target since.                     *)
NoWrites == [types |-> None, tags |-> None, add |-> {}, del |-> {}]
Idle == [pc |-> "idle", w |-> NoWrites, source |-> NoRow, target |-> NoRow,
         seen |-> {}, put |-> {}, tree |-> NoTree]

Init ==
    /\ types = [t \in Types |-> IF t \in DOMAIN Types0 THEN Types0[t] ELSE NoRow]
    /\ tags = [g \in Tags |-> IF g \in DOMAIN Tags0 THEN Tags0[g] ELSE NoRow]
    /\ tagged = Tagged0
    /\ cache = NoTree
    /\ req = [r \in Requests |-> Idle]

(* What the discovery filters show: the filterable types and their active  *)
(* tags.                                                                   *)
Filterable == {t \in Types : HasType(t) /\ types[t].filterable}
Tree == [types |-> {<<t, types[t].name>> : t \in Filterable},
         tags  |-> {<<g, tags[g].type, tags[g].slug>> : g \in {g \in Tags :
                        HasTag(g) /\ tags[g].active /\ tags[g].type \in Filterable}}]

----
(* Row locks.  A write of a row excludes other writes of it, and a delete  *)
(* or a new unique key of it also excludes rows that refer to it.          *)
Others(r) == {s \in Requests \ {r} : req[s].w # NoWrites}

RefersTo(s, g) == g \in {p[2] : p \in req[s].w.add}
NewTagOf(s, t) == \E g \in DOMAIN req[s].w.tags :
                      req[s].w.tags[g] # Dropped /\ req[s].w.tags[g].type = t

TypeFree(r, t) == \A s \in Others(r) : t \notin DOMAIN req[s].w.types
TypeUnused(r, t) == TypeFree(r, t) /\ \A s \in Others(r) : ~NewTagOf(s, t)
TagFree(r, g) == \A s \in Others(r) : g \notin DOMAIN req[s].w.tags
TagUnused(r, g) == TagFree(r, g) /\ \A s \in Others(r) : ~RefersTo(s, g)
PairsFree(r, P) == \A s \in Others(r) : P \cap (req[s].w.add \cup req[s].w.del) = {}

(* The unique constraints, which wait for an uncommitted row that has the  *)
(* key.                                                                    *)
NameFree(r, n) == \A s \in Others(r) : \A t \in DOMAIN req[s].w.types :
                      req[s].w.types[t] # Dropped => req[s].w.types[t].name # n
SlugFree(r, t, s) == \A o \in Others(r) : \A g \in DOMAIN req[o].w.tags :
                         LET row == req[o].w.tags[g]
                         IN row # Dropped => row.type # t \/ row.slug # s

NameTaken(n, except) == \E t \in Types \ except : HasType(t) /\ types[t].name = n
SlugTaken(t, s, except) == \E g \in Tags \ except :
    HasTag(g) /\ tags[g].type = t /\ tags[g].slug = s

Move(r, pc, w) == req' = [req EXCEPT ![r].pc = pc, ![r].w = w]

\* Readers come back; admins and taggers make one request each (a bound).
Ended(r) == [Idle EXCEPT !.pc = IF r \in Readers THEN "idle" ELSE "done"]
End(r) == req' = [req EXCEPT ![r] = Ended(r)]

(* A mutation writes (flush), deletes the cached tree and commits.  404,   *)
(* 409 and the integrity error that replaces them when a concurrent        *)
(* request came first all end it with nothing written.                     *)
Flush(r, allowed, w) ==
    /\ IF allowed THEN Move(r, "flushed", w) ELSE End(r)
    /\ UNCHANGED Rows

Begins(r) == r \in Admins /\ req[r].pc = "idle"

----
CreateType(r, t, n) ==
    /\ Begins(r) /\ types[t] = NoRow /\ TypeFree(r, t)
    /\ NameFree(r, n)
    /\ Flush(r, ~NameTaken(n, {}), [NoWrites EXCEPT !.types = Only(t, TypeRow(n, TRUE))])

UpdateType(r, t, n, f) ==
    /\ Begins(r) /\ HasType(t) /\ TypeFree(r, t)
    /\ NameFree(r, n)
    /\ Flush(r, ~NameTaken(n, {t}), [NoWrites EXCEPT !.types = Only(t, TypeRow(n, f))])

\* Mutant: the check without ON DELETE RESTRICT's wait for uncommitted tags.
DeleteTypeUnlocked(r, t) ==
    /\ Begins(r) /\ HasType(t) /\ TypeFree(r, t)
    /\ Flush(r, \A g \in Tags : HasTag(g) => tags[g].type # t,
             [NoWrites EXCEPT !.types = Only(t, Dropped)])

(* Refused while a tag has the type: by the check or by ON DELETE RESTRICT. *)
DeleteType(r, t) ==
    /\ Begins(r) /\ HasType(t) /\ TypeUnused(r, t)
    /\ Flush(r, \A g \in Tags : HasTag(g) => tags[g].type # t,
             [NoWrites EXCEPT !.types = Only(t, Dropped)])

CreateTag(r, g, t, s) ==
    /\ Begins(r) /\ tags[g] = NoRow /\ TagFree(r, g)
    /\ TypeFree(r, t) /\ SlugFree(r, t, s)
    /\ Flush(r, HasType(t) /\ ~SlugTaken(t, s, {}),
             [NoWrites EXCEPT !.tags = Only(g, TagRow(t, s, TRUE))])

UpdateTag(r, g, s, a) ==
    /\ Begins(r) /\ HasTag(g)
    /\ IF s = tags[g].slug THEN TagFree(r, g)
       ELSE TagUnused(r, g) /\ SlugFree(r, tags[g].type, s)
    /\ Flush(r, ~SlugTaken(tags[g].type, s, {g}),
             [NoWrites EXCEPT !.tags = Only(g, TagRow(tags[g].type, s, a))])

(* The rows of item_tags go with the tag: ON DELETE CASCADE. *)
DeleteTag(r, g) ==
    /\ Begins(r) /\ HasTag(g)
    /\ TagUnused(r, g) /\ PairsFree(r, RowsOf(g))
    /\ Flush(r, TRUE, [NoWrites EXCEPT !.tags = Only(g, Dropped), !.del = RowsOf(g)])

----
(* merge_tags: both tags are loaded; then an UPDATE, a DELETE and the      *)
(* delete of the source tag, each of which sees what is committed by then. *)
MergeLoad(r, a, b) ==
    /\ Begins(r) /\ a # b
    /\ IF HasTag(a) /\ HasTag(b)
       THEN req' = [req EXCEPT ![r].pc = "merge", ![r].source = a, ![r].target = b]
       ELSE End(r)
    /\ UNCHANGED Rows

\* Mutant: NOT IN over a list that may hold NULL moves no row.
MergeUpdateNone(r) ==
    LET a == req[r].source
    IN /\ req[r].pc = "merge"
       /\ req' = [req EXCEPT ![r].pc = "updated", ![r].seen = {p[1] : p \in RowsOf(a)}]
       /\ UNCHANGED Rows

MergeUpdate(r) ==
    LET a == req[r].source  b == req[r].target
        movable == {i \in Items : <<i, a>> \in tagged /\ <<i, b>> \notin tagged}
        w == [NoWrites EXCEPT !.del = movable \X {a}, !.add = movable \X {b}]
    IN /\ req[r].pc = "merge"
       /\ PairsFree(r, w.del \cup w.add)
       /\ movable # {} => TagFree(r, b)
       /\ IF movable # {} /\ ~HasTag(b) THEN End(r)
          ELSE req' = [req EXCEPT ![r].pc = "updated", ![r].w = w,
                                  ![r].seen = {p[1] : p \in RowsOf(a)}]
       /\ UNCHANGED Rows

MergeDeleteRows(r) ==
    LET rows == RowsOf(req[r].source) \ req[r].w.del
    IN /\ req[r].pc = "updated"
       /\ PairsFree(r, rows)
       /\ Move(r, "pruned", [req[r].w EXCEPT !.del = @ \cup rows])
       /\ UNCHANGED Rows

MergeDeleteSource(r) ==
    LET a == req[r].source
    IN /\ req[r].pc = "pruned"
       /\ TagUnused(r, a) /\ PairsFree(r, RowsOf(a) \ req[r].w.del)
       /\ Move(r, "flushed", [req[r].w EXCEPT !.tags = Only(a, Dropped), !.del = @ \cup RowsOf(a)])
       /\ UNCHANGED Rows

(* An item is tagged by another request (create_item, the CSV import). *)
TagItem(r, i, g) ==
    /\ r \in Taggers /\ req[r].pc = "idle"
    /\ PairsFree(r, {<<i, g>>}) /\ TagFree(r, g)
    /\ IF ~HasTag(g) \/ <<i, g>> \in tagged THEN End(r)
       ELSE Move(r, "cleared", [NoWrites EXCEPT !.add = {<<i, g>>}])
    /\ UNCHANGED Rows

(* A PATCH replaces an item's tags (update_item): a DELETE of its rows, and *)
(* an INSERT of those it was given.  The lock on the item that a PATCH of  *)
(* its columns takes too is left out: PATCHes of an item may overlap.      *)
ReplaceTags(r, i, G) ==
    LET w == [NoWrites EXCEPT !.del = {p \in tagged : p[1] = i}]
    IN /\ r \in Taggers /\ req[r].pc = "idle"
       /\ PairsFree(r, w.del)
       /\ req' = [req EXCEPT ![r].pc = "replacing", ![r].w = w, ![r].put = {i} \X G]
       /\ UNCHANGED Rows

InsertTags(r) ==
    LET q == req[r]
    IN /\ q.pc = "replacing"
       /\ PairsFree(r, q.put) /\ \A p \in q.put : TagFree(r, p[2])
       /\ IF \E p \in q.put : ~HasTag(p[2]) \/ p \in tagged \ q.w.del THEN End(r)
          ELSE Move(r, "cleared", [NoWrites EXCEPT !.del = q.w.del, !.add = q.put])
       /\ UNCHANGED Rows

----
(* _invalidate_taxonomy_cache: before the commit; an error is swallowed. *)
Invalidate(r) ==
    /\ req[r].pc = "flushed"
    /\ Move(r, "cleared", req[r].w)
    /\ cache' \in {NoTree, cache}
    /\ UNCHANGED <<types, tags, tagged>>

LosesTarget(s, w) == {i \in Items : <<i, req[s].target>> \in w.del \ w.add}

Commit(r) ==
    /\ req[r].pc = "cleared"
    /\ types' = Apply(req[r].w.types, types)
    /\ tags' = Apply(req[r].w.tags, tags)
    /\ tagged' = (tagged \ req[r].w.del) \cup req[r].w.add
    /\ req' = [s \in Requests |-> IF s = r THEN Ended(r) ELSE
                   [req[s] EXCEPT !.seen = @ \ LosesTarget(s, req[r].w)]]
    /\ UNCHANGED cache

Abort(r) ==
    /\ req[r].pc \notin {"idle", "done"}
    /\ End(r)
    /\ UNCHANGED Rows

(* get_taxonomy: a cached tree answers at once; else it is read, stored    *)
(* for an hour and the reader's transaction commits.  Assigning t.tags     *)
(* without the inactive tags makes those tags orphans, and the cascade     *)
(* deletes them when the transaction commits.                              *)
ReadMiss(r) ==
    /\ r \in Readers /\ req[r].pc = "idle" /\ cache = NoTree
    /\ req' = [req EXCEPT ![r].pc = "read", ![r].tree = Tree,
                          ![r].seen = {g \in Tags : /\ HasTag(g) /\ ~tags[g].active
                                                    /\ tags[g].type \in Filterable}]
    /\ UNCHANGED Rows

Store(r) ==
    /\ req[r].pc = "read"
    /\ req' = [req EXCEPT ![r].pc = "stored"]
    /\ cache' \in {req[r].tree, cache}
    /\ UNCHANGED <<types, tags, tagged>>

(* The flush of the reader's commit; a tag that is gone is skipped. *)
DeleteOrphans(r) ==
    LET gone == {g \in req[r].seen : HasTag(g)}
        rows == UNION {RowsOf(g) : g \in gone}
    IN /\ req[r].pc = "stored"
       /\ \A g \in gone : TagUnused(r, g)
       /\ PairsFree(r, rows)
       /\ Move(r, "cleared", [NoWrites EXCEPT !.tags = [g \in gone |-> Dropped], !.del = rows])
       /\ UNCHANGED Rows

\* Mutant: SET instead of SETEX.
ExpireNever == FALSE /\ UNCHANGED vars

Expire ==   \* the hour of SETEX is over
    /\ cache # NoTree
    /\ cache' = NoTree
    /\ UNCHANGED <<types, tags, tagged, req>>

----
Mutate(r) ==
    \/ \E t \in Types, n \in Names : CreateType(r, t, n)
    \/ \E t \in Types, n \in Names, f \in BOOLEAN : UpdateType(r, t, n, f)
    \/ \E t \in Types : DeleteType(r, t)
    \/ \E g \in Tags, t \in Types, s \in Slugs : CreateTag(r, g, t, s)
    \/ \E g \in Tags, s \in Slugs, a \in BOOLEAN : UpdateTag(r, g, s, a)
    \/ \E g \in Tags : DeleteTag(r, g)
    \/ \E a, b \in Tags : MergeLoad(r, a, b)
    \/ \E i \in Items, g \in Tags : TagItem(r, i, g)
    \/ \E i \in Items, G \in Lists : ReplaceTags(r, i, G)

Continue(r) ==
    \/ MergeUpdate(r) \/ MergeDeleteRows(r) \/ MergeDeleteSource(r) \/ InsertTags(r)
    \/ Invalidate(r) \/ Commit(r) \/ Store(r) \/ DeleteOrphans(r)

Next == Expire \/ \E r \in Requests : Mutate(r) \/ ReadMiss(r) \/ Continue(r) \/ Abort(r)

(* A server finishes what it has begun, or fails, and Redis expires keys. *)
Fairness == WF_vars(Expire) /\ \A r \in Requests : WF_vars(Continue(r) \/ Abort(r))
Spec == Init /\ [][Next]_vars /\ Fairness

----
(* The constraints of the tables hold however the checks of concurrent     *)
(* requests interleave with their writes: names and slugs stay unique, a   *)
(* tag has its type and a tagging its tag (create_type and create_tag      *)
(* check, then insert; delete_type checks, then deletes).                  *)
ConstraintsHold ==
    /\ \A t, u \in Types : HasType(t) /\ HasType(u) /\ types[t].name = types[u].name => t = u
    /\ \A g \in Tags : HasTag(g) =>
           /\ HasType(tags[g].type)
           /\ \A h \in Tags \ {g} : HasTag(h) /\ tags[g].type = tags[h].type =>
                  tags[g].slug # tags[h].slug
    /\ \A p \in tagged : HasTag(p[2])

MergeCommits(r) == req[r].pc = "cleared" /\ req[r].source # NoRow /\ Commit(r)
Carried(r, i) ==
    tags'[req[r].target] # Dropped /\ <<i, req[r].source>> \in tagged
        => <<i, req[r].target>> \in tagged'

(* What merge_tags saw of the source tag when it repointed the rows is not *)
(* lost: when it commits, each of those items has the target tag, unless   *)
(* the target itself has been deleted or a PATCH that replaced the item's  *)
(* tags has committed in between and taken the target from the item (that  *)
(* item, if the PATCH gave it the source, ends with neither tag).          *)
MergeKeepsSeenItems ==
    [][\A r \in Admins : MergeCommits(r) => \A i \in req[r].seen : Carried(r, i)]_vars

(* The cached tree and the tables agree for good once admins have stopped  *)
(* changing them, whichever invalidations and stores raced or failed:      *)
(* nothing but the expiry bounds how long a stale tree is served.          *)
CacheSettles == <>[](cache \in {NoTree, Tree})

(* Does not hold (docs/api.md: all rows that point to the source are       *)
(* repointed): a tagging, or the tags of a PATCH, that commit between the  *)
(* UPDATE and the DELETE of a merge are deleted.                           *)
MergeMovesEveryItem ==
    [][\A r \in Admins : MergeCommits(r) => \A i \in Items : Carried(r, i)]_vars

(* Does not hold: reading the filters deletes the inactive tags.           *)
TagsLeaveByAdmins ==
    [][\A r \in Readers : Commit(r) => tags' = tags]_vars
====
