---- MODULE ManualIngestion ----
(***************************************************************************)
(* Items put in by hand: create_item, update_item, upload_image and        *)
(* import_csv of backend/app/services/manual_ingestion_service.py, each    *)
(* called by one request in a READ COMMITTED transaction of its own, and   *)
(* the uploads of integrations/s3_client.py.                               *)
(*                                                                         *)
(* rows, tagged, tags and image are committed; what a request has written  *)
(* is in its record w until it commits.  A new item is keyless: its        *)
(* (source_site_id, source_external_id) is (NULL, NULL), and that pair is  *)
(* unique, NULLS NOT DISTINCT.  Statuses are in ReviewQueue and Discovery. *)
(***************************************************************************)
EXTENDS Naturals, Sequences, FiniteSets

CONSTANTS Scraped,     \* items that are there, with a key of their own
          NewItems,    \* ids that gen_random_uuid has not issued yet
          Tags, Tagged0, Requests,
          TagLists,    \* tag_ids of a payload
          CsvFiles,    \* sequences of rows; a row is its tag list or BadRow
          BadRow,      \* a row with no title or with a bad currency
          NoTags,      \* tag_ids left out of a PATCH
          NoImage, External

VARIABLES rows,    \* committed items
          tagged,  \* committed item_tags, pairs <<i, g>>
          tags,    \* the tags that exist
          image,   \* image[i]: NoImage, External or the upload that it shows
          bucket,  \* the uploads whose object is stored
          req,     \* req[r]: the request's local state, and its answer
          loose    \* history: the pairs that a tags-only PATCH has put in

\* The last line is a bound: an id for each request, each of which keeps one at most.
ASSUME ManualAssumption ==
    /\ Tagged0 \subseteq Scraped \X Tags /\ TagLists \subseteq Seq(Tags)
    /\ CsvFiles \subseteq Seq(Seq(Tags) \cup {BadRow})
    /\ NoTags \notin TagLists /\ {NoImage, External} \cap Requests = {}
    /\ IsFiniteSet(NewItems) /\ IsFiniteSet(Requests)
    /\ Cardinality(NewItems) >= Cardinality(Requests)

manual == <<rows, tagged, tags, image, bucket, req, loose>>
Store == <<rows, tagged, tags, image, bucket, loose>>

AllItems == Scraped \cup NewItems
NoWrites == [rows |-> {}, add |-> {}, del |-> {}, image |-> FALSE, row |-> FALSE]
Idle == [pc |-> "idle", op |-> "none", item |-> CHOOSE i \in AllItems : TRUE,
         want |-> NoTags, set |-> "none", todo |-> <<>>, scan |-> {}, slugs |-> {},
         total |-> 0, inserted |-> 0, skipped |-> 0, w |-> NoWrites,
         mine |-> {}, out |-> "open"]

ManualInit ==
    /\ rows = Scraped
    /\ tagged = Tagged0
    /\ tags = Tags
    /\ image = [i \in AllItems |-> NoImage]
    /\ bucket = {}
    /\ req = [r \in Requests |-> Idle]
    /\ loose = {}

RangeOf(s) == {s[k] : k \in DOMAIN s}
NoRepeats(s) == Cardinality(RangeOf(s)) = Len(s)

----
(* What a statement of r waits for: another transaction's lock on the row  *)
(* of the item, its uncommitted pair, or its uncommitted keyless item.     *)
Others(r) == {s \in Requests \ {r} : req[s].w # NoWrites}
RowFree(r) == \A s \in Others(r) : req[s].w.row => req[s].item # req[r].item
PairsFree(r, P) == \A s \in Others(r) : P \cap (req[s].w.add \cup req[s].w.del) = {}
KeyFree(r) == \A s \in Others(r) : req[s].w.rows = {}
KeyTaken(r) == NewItems \cap (rows \cup req[r].w.rows) # {}
\* The next id: ids that nobody has seen are interchangeable.
Unissued == NewItems \ (rows \cup UNION {req[s].w.rows \cup req[s].mine : s \in Requests})
NextId == CHOOSE i \in Unissued : TRUE

\* Commit and rollback release the locks; mine is what the request had written.
End(r, out) == req' = [req EXCEPT ![r] = [Idle EXCEPT !.pc = "done", !.out = out,
    !.op = req[r].op, !.total = req[r].total, !.inserted = req[r].inserted,
    !.skipped = req[r].skipped, !.mine = req[r].w.rows]]
Begin(r, q) == req[r].pc = "idle" /\ req' = [req EXCEPT ![r] = q]

(* POST /manual/items: the item, flushed; then its tags, flushed; then the *)
(* answer, which reads item.tags.  They were never loaded for a new item,  *)
(* and loading them there raises: the transaction is rolled back.          *)
CreateItem(r, want) ==
    /\ KeyFree(r)
    /\ Begin(r, IF KeyTaken(r)
                THEN [Idle EXCEPT !.pc = "done", !.op = "create", !.out = "500"]
                ELSE [Idle EXCEPT !.pc = "tags", !.op = "create", !.item = NextId,
                                  !.todo = want, !.w.rows = {NextId}])
    /\ UNCHANGED Store

AnswerCreated(r) ==
    /\ req[r].pc = "tags" /\ req[r].op = "create" /\ req[r].todo = <<>>
    /\ End(r, "500")
    /\ UNCHANGED Store

----
(* PATCH: load; UPDATE of the columns that differ from the loaded row, if  *)
(* any; DELETE of the item's tags, and INSERT of the new ones, if given.   *)
AfterColumns(want) == IF want = NoTags THEN "flushed" ELSE "replace"

PatchItem(r, i, set, want) ==
    LET differs == IF set = "image" /\ image[i] = External THEN "none" ELSE set
    IN /\ Begin(r, IF i \notin rows
                   THEN [Idle EXCEPT !.pc = "done", !.op = "patch", !.out = "404"]
                   ELSE [Idle EXCEPT !.op = "patch", !.item = i, !.set = differs,
                             !.want = want,
                             !.pc = IF differs = "none" THEN AfterColumns(want)
                                    ELSE "columns"])
       /\ UNCHANGED Store

(* Mutant: setattr alone; the UPDATE goes out with the last flush. *)
UpdateColumnsUnflushed(r) ==
    /\ req[r].pc = "columns"
    /\ req' = [req EXCEPT ![r].pc = AfterColumns(req[r].want),
                          ![r].w.image = req[r].set \in {"image", "upload"}]
    /\ UNCHANGED Store

UpdateColumns(r) ==
    /\ req[r].pc = "columns" /\ RowFree(r)
    /\ req' = [req EXCEPT ![r].pc = AfterColumns(req[r].want), ![r].w.row = TRUE,
                          ![r].w.image = req[r].set \in {"image", "upload"}]
    /\ UNCHANGED Store

\* The DELETE's snapshot: pairs that commit while it waits are not in it.
ScanTags(r) ==
    /\ req[r].pc = "replace"
    /\ req' = [req EXCEPT ![r].pc = "delete",
                          ![r].scan = {p \in tagged : p[1] = req[r].item}]
    /\ UNCHANGED Store

DeleteTags(r) ==
    /\ req[r].pc = "delete" /\ PairsFree(r, req[r].scan)
    /\ req' = [req EXCEPT ![r].pc = "tags", ![r].todo = req[r].want,
                          ![r].w.del = req[r].scan \cap tagged]
    /\ UNCHANGED Store

(* One INSERT each; a tag that is gone and a pair that is there, a repeated *)
(* tag included, are integrity errors.                                      *)
InsertTag(r) ==
    LET q == req[r]  g == Head(q.todo)  p == <<q.item, g>>
    IN /\ q.pc = "tags" /\ q.todo # <<>>
       /\ PairsFree(r, {p})
       /\ IF g \notin tags \/ p \in (tagged \ q.w.del) \cup q.w.add THEN End(r, "500")
          ELSE req' = [req EXCEPT ![r].todo = Tail(@), ![r].w.add = @ \cup {p}]
       /\ UNCHANGED Store

----
(* Upload: load, validate, put the object, then UPDATE the item.  A put    *)
(* that fails for the client may still have stored the object.             *)
StartUpload(r, i, valid) ==
    /\ Begin(r, IF i \notin rows \/ ~valid
                THEN [Idle EXCEPT !.pc = "done", !.op = "upload", !.out = "404"]
                ELSE [Idle EXCEPT !.pc = "put", !.op = "upload", !.item = i, !.set = "upload"])
    /\ UNCHANGED Store

PutObject(r) ==
    /\ req[r].pc = "put"
    /\ \/ bucket' = bucket \cup {r} /\ req' = [req EXCEPT ![r].pc = "columns"]
       \/ bucket' \in {bucket, bucket \cup {r}} /\ End(r, "502")
    /\ UNCHANGED <<rows, tagged, tags, image, loose>>

----
(* CSV import: the slugs are read once.  A row is checked, then inserted   *)
(* with its tags under a SAVEPOINT; what goes wrong there, a deadlock's    *)
(* end included, undoes the row and skips it.                              *)
StartCsv(r, file) ==
    /\ Begin(r, [Idle EXCEPT !.pc = "csv", !.op = "csv", !.todo = file, !.slugs = tags])
    /\ UNCHANGED Store

CsvStep(r, stored, kept) ==
    LET q == req[r]
    IN req' = [req EXCEPT ![r] = [q EXCEPT
           !.todo = Tail(q.todo), !.total = q.total + 1,
           !.inserted = q.inserted + (IF stored THEN 1 ELSE 0),
           !.skipped = q.skipped + (IF stored THEN 0 ELSE 1),
           !.w = [q.w EXCEPT !.rows = q.w.rows \cup kept,
               !.add = q.w.add \cup (IF stored THEN kept \X RangeOf(Head(q.todo)) ELSE {})]]]

CsvSkip(r) ==
    LET row == Head(req[r].todo)
    IN /\ req[r].pc = "csv" /\ req[r].todo # <<>>
       /\ IF row = BadRow THEN TRUE
          ELSE ~(RangeOf(row) \subseteq req[r].slugs) \/ ~KeyFree(r)
       /\ CsvStep(r, FALSE, {})
       /\ UNCHANGED Store

\* Mutant: no SAVEPOINT; the row of a failed tag stays in the transaction.
CsvRowNoSavepoint(r) ==
    LET row == Head(req[r].todo)
    IN /\ req[r].pc = "csv" /\ req[r].todo # <<>> /\ row # BadRow
       /\ RangeOf(row) \subseteq req[r].slugs /\ KeyFree(r)
       /\ CsvStep(r, ~KeyTaken(r) /\ NoRepeats(row) /\ RangeOf(row) \subseteq tags,
                  IF KeyTaken(r) THEN {} ELSE {NextId})
       /\ UNCHANGED Store

CsvRow(r) ==
    LET row == Head(req[r].todo)
        fits == ~KeyTaken(r) /\ NoRepeats(row) /\ RangeOf(row) \subseteq tags
    IN /\ req[r].pc = "csv" /\ req[r].todo # <<>> /\ row # BadRow
       /\ RangeOf(row) \subseteq req[r].slugs /\ KeyFree(r)
       /\ CsvStep(r, fits, IF fits THEN {NextId} ELSE {})
       /\ UNCHANGED Store

----
Ready(r) == \/ req[r].pc = "flushed"
            \/ req[r].pc = "tags" /\ req[r].op = "patch" /\ req[r].todo = <<>>
            \/ req[r].pc = "csv" /\ req[r].todo = <<>>

Commit(r) ==
    LET q == req[r]
    IN /\ Ready(r)
       /\ rows' = rows \cup q.w.rows
       /\ tagged' = (tagged \ q.w.del) \cup q.w.add
       /\ image' = IF ~q.w.image THEN image
                   ELSE [image EXCEPT ![q.item] = IF q.set = "upload" THEN r ELSE External]
       /\ loose' = (loose \ q.w.del) \cup (IF q.op = "patch" /\ q.set = "none" THEN q.w.add ELSE {})
       /\ End(r, "ok")
       /\ UNCHANGED <<tags, bucket>>

(* The server dies, or the request is a deadlock's victim: rolled back. *)
Abort(r) ==
    /\ req[r].pc \notin {"idle", "done"}
    /\ End(r, "500")
    /\ UNCHANGED Store

(* An admin deletes a tag, and with it its pairs (TaxonomyService). *)
DeleteTag(g) ==
    /\ g \in tags
    /\ \A s \in Requests : g \notin {p[2] : p \in req[s].w.add \cup req[s].w.del}
    /\ tags' = tags \ {g}
    /\ tagged' = {p \in tagged : p[2] # g}
    /\ loose' = {p \in loose : p[2] # g}
    /\ UNCHANGED <<rows, image, bucket, req>>

Arrive(r) ==
    \/ \E want \in TagLists : CreateItem(r, want)
    \/ \E i \in AllItems, set \in {"none", "title", "image"}, want \in TagLists \cup {NoTags} :
           PatchItem(r, i, set, want)
    \/ \E i \in AllItems, valid \in BOOLEAN : StartUpload(r, i, valid)
    \/ \E file \in CsvFiles : StartCsv(r, file)

Handle(r) ==
    \/ AnswerCreated(r) \/ UpdateColumns(r) \/ ScanTags(r) \/ DeleteTags(r) \/ InsertTag(r)
    \/ PutObject(r) \/ CsvSkip(r) \/ CsvRow(r)
    \/ Commit(r) \/ Abort(r)

ManualNext == (\E r \in Requests : Arrive(r) \/ Handle(r)) \/ \E g \in Tags : DeleteTag(g)
ManualSpec == ManualInit /\ [][ManualNext]_manual

----
(* What a request was answered is so, and stays so: a CSV import has       *)
(* stored as many rows as it counts inserted, and counted each row once; a *)
(* request that failed has stored none; an item shows an upload only if    *)
(* its object is there and its request was answered.  And each pair has    *)
(* its item and tag, though tags are deleted meanwhile.                    *)
AnswersStand ==
    /\ \A r \in Requests : req[r].pc = "done" /\ req[r].out = "ok" /\ req[r].op = "csv" =>
           /\ req[r].mine \subseteq rows
           /\ req[r].inserted = Cardinality(req[r].mine)
           /\ req[r].inserted + req[r].skipped = req[r].total
    /\ \A r \in Requests : req[r].pc = "done" /\ req[r].out # "ok" => req[r].mine \cap rows = {}
    /\ \A i \in AllItems : image[i] \in Requests => image[i] \in bucket /\ req[image[i]].out = "ok"
    /\ \A p \in tagged : p[1] \in rows /\ p[2] \in tags

Replaces(r) == req[r].op = "patch" /\ req[r].want # NoTags /\ Commit(r)

(* A PATCH that changes a column too replaces the item's tags atomically:  *)
(* the UPDATE goes first and its row lock keeps other such PATCHes out, so *)
(* when it commits the item has its tags, and else only what a tags-only   *)
(* PATCH, which takes no row lock, has put in meanwhile (update_item).     *)
ReplaceIsExact ==
    [][\A r \in Requests : Replaces(r) /\ req[r].set # "none" =>
           \A g \in Tags : IF g \in RangeOf(req[r].want) THEN <<req[r].item, g>> \in tagged'
                           ELSE <<req[r].item, g>> \in tagged' => <<req[r].item, g>> \in loose']_manual

(* Does not hold (the comment in update_item says "Replace tags            *)
(* atomically"): two tags-only PATCHes of one item leave the union.        *)
ReplaceIsAtomic ==
    [][\A r \in Requests : Replaces(r) =>
           {p \in tagged' : p[1] = req[r].item} = {req[r].item} \X RangeOf(req[r].want)]_manual

(* Does not hold (test_admin_endpoints.py expects both rows of its file):  *)
(* a second valid keyless row is a duplicate of the first.                 *)
EveryValidRowInserted ==
    \A r \in Requests : req[r].op = "csv" /\ req[r].out = "ok" => req[r].skipped = 0

====
