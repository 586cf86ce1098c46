---- MODULE Discovery ----
(***************************************************************************)
(* Readers of the catalogue while moderators change it: the paged feed     *)
(* (services/item_service.py, repositories/items.py, schemas/common.py)    *)
(* and the natural-language search (services/search_service.py).           *)
(*                                                                         *)
(* item[i] is the committed row: its status and published_at.  A page is   *)
(* one SELECT and one step; a search is several, with calls to OpenAI in   *)
(* between, in one READ COMMITTED transaction.  Readers take no locks and  *)
(* do not see one another, so one reader is modelled; it walks the feed or *)
(* searches.  Ids are numbers (uuids are only compared), and an item's     *)
(* price, tags, text and embedding stay as they are.                       *)
(***************************************************************************)
EXTENDS Integers, FiniteSets, FiniteSetsExt

CONSTANTS Items,            \* a set of numbers: ids
          NoId, BadId,      \* in no cursor; in one that cannot be decoded
          Dates, NoDate,    \* published_at; NULL
          PriceOf, NoPrice, TagsOf, TextHits, Embedded,   \* the fixed columns
          Filters,          \* what a client may filter by: [tags, all, min, max]
          Links,            \* the cursors of links that somebody saved
          TagSets,          \* what a profile names or keywords resolve to
          PageSizes, Limits, HybridFloor   \* HybridFloor is 8 in the code

ASSUME DiscoveryAssumption ==
    /\ Items \subseteq Int /\ IsFiniteSet(Items) /\ {NoId, BadId} \cap Items = {}
    /\ Dates \subseteq Int /\ NoDate \notin Dates /\ TextHits \subseteq Items
    /\ Links \subseteq {[at |-> NoDate, id |-> BadId]} \cup [at : Dates \cup {NoDate}, id : Items]
    /\ PageSizes \subseteq Nat \ {0} /\ Limits \subseteq Nat \ {0}

VARIABLES item, walk, search

reading == <<item, walk, search>>

\* "archived" stands for "rejected" as well: readers see neither.
Hidden == {"pending_review", "archived"}
Active(i) == item[i].status = "active"
Dated(i) == item[i].at # NoDate

FirstPage == [at |-> NoDate, id |-> NoId]
Garbage == [at |-> NoDate, id |-> BadId]
Cursors == {FirstPage, Garbage} \cup [at : Dates \cup {NoDate}, id : Items]
Unset == [tags |-> {}, all |-> FALSE, min |-> NoPrice, max |-> NoPrice]

NoWalk == [pc |-> "idle", filter |-> Unset, size |-> 0, cursor |-> FirstPage,
           shown |-> {}, again |-> FALSE, steady |-> {}]
NoSearch == [pc |-> "idle", limit |-> 0, tags |-> {}, raw |-> FALSE, clean |-> FALSE,
             keywords |-> FALSE,
             found |-> {}, answer |-> {}, mode |-> "vector", fault |-> "none",
             steady |-> {}, everActive |-> {}]

ReaderInit ==
    /\ item = [i \in Items |-> [status |-> "pending_review", at |-> NoDate]]
    /\ walk = NoWalk
    /\ search = NoSearch

----
(* Moderation, from the readers' point of view: a scraped row has a date   *)
(* while it is pending; approve and a PATCH to active date a row that has  *)
(* none; bulk_approve sets the status alone.  A row whose date changes     *)
(* counts as another one for a walk.                                       *)
Write(i, status, at) ==
    LET moved == IF Dated(i) /\ at # item[i].at THEN {i} ELSE {}
        gone == IF status = "active" THEN moved ELSE {i}
    IN /\ item' = [item EXCEPT ![i] = [status |-> status, at |-> at]]
       /\ walk' = [walk EXCEPT !.steady = @ \ gone, !.shown = @ \ moved]
       /\ search' = [search EXCEPT !.steady = @ \ gone,
                         !.everActive = IF search.pc # "idle" /\ status = "active"
                                        THEN @ \cup {i} ELSE @]

Scrape(i, d) ==
    /\ item[i] = [status |-> "pending_review", at |-> NoDate]
    /\ Write(i, "pending_review", d)

Approve(i, d) ==
    /\ ~Active(i) \/ ~Dated(i)
    /\ Write(i, "active", IF Dated(i) THEN item[i].at ELSE d)

(* The later of two approvals that both loaded the row undated. *)
Redate(i, d) ==
    /\ Active(i) /\ Dated(i) /\ d # item[i].at
    /\ Write(i, "active", d)

BulkApprove(i) ==
    /\ item[i].status = "pending_review"
    /\ Write(i, "active", item[i].at)

Hide(i, status) ==
    /\ Active(i)
    /\ Write(i, status, item[i].at)

----
(* ORDER BY published_at DESC NULLS LAST, id DESC LIMIT n.                 *)
Before(i, j) ==
    \/ Dated(i) /\ ~Dated(j)
    \/ Dated(i) /\ Dated(j) /\ item[i].at > item[j].at
    \/ item[i].at = item[j].at /\ i > j
FirstOf(S, n) == {i \in S : Cardinality({j \in S : Before(j, i)}) < n}
LastOf(S) == CHOOSE i \in S : \A j \in S \ {i} : Before(j, i)

Matches(f, i) ==
    /\ f.tags # {} => IF f.all THEN f.tags \subseteq TagsOf[i] ELSE f.tags \cap TagsOf[i] # {}
    /\ f.min # NoPrice => PriceOf[i] # NoPrice /\ PriceOf[i] >= f.min
    /\ f.max # NoPrice => PriceOf[i] # NoPrice /\ PriceOf[i] <= f.max

\* Mutant: a page is continued by date alone.
AfterByDate(c, i) == c \in {FirstPage, Garbage} \/ (c.at # NoDate /\ Dated(i) /\ item[i].at < c.at)

(* The keyset condition; a comparison with NULL is not true.  A cursor     *)
(* that cannot be decoded counts as none.                                  *)
After(c, i) ==
    \/ c \in {FirstPage, Garbage}
    \/ /\ c.at # NoDate /\ Dated(i)
       /\ item[i].at < c.at \/ (item[i].at = c.at /\ i < c.id)

(* search_by_profile with one row more than the page shows. *)
Rows(f, c, n) == FirstOf({i \in Items : Active(i) /\ Matches(f, i) /\ After(c, i)}, n)

(* The cursor is the last row shown. *)
NextCursor(page) == [at |-> item[LastOf(page)].at, id |-> LastOf(page)]

(* A walk starts at the first page or at a cursor from a shared link.      *)
BeginWalk(f, n, c) ==
    /\ walk.pc = "idle" /\ search.pc = "idle"
    /\ walk' = [NoWalk EXCEPT !.pc = "walking", !.filter = f, !.size = n, !.cursor = c,
                    !.steady = {i \in Items : Active(i) /\ Dated(i) /\ Matches(f, i) /\ After(c, i)}]
    /\ UNCHANGED <<item, search>>

(* SQLAlchemy refuses "published_at < None": a page after an undated item  *)
(* is answered 500.                                                        *)
ListItems ==
    LET c == walk.cursor
        rows == Rows(walk.filter, c, walk.size + 1)
        page == FirstOf(rows, walk.size)
        more == Cardinality(rows) > walk.size
    IN /\ walk.pc = "walking"
       /\ IF c \notin {FirstPage, Garbage} /\ c.at = NoDate
          THEN walk' = [walk EXCEPT !.pc = "failed"]
          ELSE walk' = [walk EXCEPT !.pc = IF more THEN "walking" ELSE "ended",
                            !.cursor = IF more THEN NextCursor(page) ELSE c,
                            !.again = @ \/ page \cap walk.shown # {},
                            !.shown = @ \cup page]
       /\ UNCHANGED <<item, search>>

LeaveFeed ==
    /\ walk.pc # "idle"
    /\ walk' = NoWalk
    /\ UNCHANGED <<item, search>>

----
(* Filters are extracted and the raw query is embedded, side by side.  An  *)
(* OpenAI call that fails, or an answer without usable arguments, gives no *)
(* keywords and the query itself as the cleaned one; an answer without     *)
(* choices raises.                                                         *)
Failed == [keywords |-> FALSE, clean |-> TRUE]
Extractions == {Failed} \cup [keywords : BOOLEAN, clean : BOOLEAN]

(* fault is what went wrong in a search, OpenAI's embeddings apart. *)
Fail(fault) == search' = [search EXCEPT !.pc = "failed", !.fault = fault]

BeginSearch(n, profile) ==
    /\ search.pc = "idle" /\ walk.pc = "idle"
    /\ search' = [NoSearch EXCEPT !.pc = "asked", !.limit = n, !.tags = profile,
                      !.steady = {i \in Items : Active(i)},
                      !.everActive = {i \in Items : Active(i)}]
    /\ UNCHANGED <<item, walk>>

(* asyncio.gather returns both outcomes; an extraction that raised is      *)
(* raised again, an embedding that failed is kept as none.                 *)
Gather ==
    /\ search.pc = "asked"
    /\ \/ Fail("extraction")
       \/ \E raw \in BOOLEAN, x \in Extractions :
              search' = [search EXCEPT !.pc = "extracted", !.raw = raw, !.clean = x.clean,
                                       !.keywords = x.keywords]
    /\ UNCHANGED <<item, walk>>

(* The keywords' tags, if any match, join the profile's.  There is no      *)
(* statement, which might fail, without keywords.                          *)
ResolveKeywords(keywordTags) ==
    /\ search.pc = "extracted"
    /\ keywordTags # {} => search.keywords
    /\ \/ search.keywords /\ Fail("keywords")
       \/ search' = [search EXCEPT !.pc = "resolved", !.tags = @ \cup keywordTags,
                                   !.keywords = FALSE]
    /\ UNCHANGED <<item, walk>>

\* Mutant: the failed embedding of the raw query is raised like an extraction's.
EmbedRaises ==
    /\ search.pc = "resolved"
    /\ search' = [search EXCEPT !.pc = IF search.raw THEN "embedded" ELSE "failed"]
    /\ UNCHANGED <<item, walk>>

(* A cleaned query that differs is embedded again, which may fail too. *)
Embed ==
    /\ search.pc = "resolved"
    /\ \E ok \in BOOLEAN :
           search' = [search EXCEPT !.pc = IF search.raw /\ (search.clean \/ ok)
                                           THEN "embedded" ELSE "looked"]
    /\ UNCHANGED <<item, walk>>

Nearest(tags) ==
    {i \in Items : Active(i) /\ i \in Embedded /\ (tags # {} => tags \cap TagsOf[i] # {})}

(* The order by distance is the model's choice.  A statement that fails    *)
(* is swallowed, and leaves the transaction aborted.                       *)
VectorSearch ==
    /\ search.pc = "embedded"
    /\ LET near == Nearest(search.tags)
           k == Min({search.limit, Cardinality(near)})
       IN \/ \E S \in kSubset(k, near) : search' = [search EXCEPT !.pc = "looked", !.found = S]
          \/ search' = [search EXCEPT !.pc = "looked", !.fault = "vector"]
    /\ UNCHANGED <<item, walk>>

TooFew(found, limit) == Cardinality(found) < Max({HybridFloor, limit \div 3})

\* Mutant: the full-text rows are cut to what is missing before duplicates go.
AddedEarlyCut(fts, found, limit) ==
    {S \ found : S \in kSubset(Min({Cardinality(fts), limit - Cardinality(found)}), fts)}

(* The full-text rows that the answer gets: without those found already,   *)
(* as many as the limit leaves, in the order of their rank.                *)
Added(fts, found, limit) ==
    LET new == fts \ found
    IN kSubset(Min({Cardinality(new), limit - Cardinality(found)}), new)

(* fulltext_search: the order by rank is the model's choice. *)
TextRows(limit) ==
    LET hits == {i \in TextHits : Active(i)}
    IN kSubset(Min({limit, Cardinality(hits)}), hits)

(* The full-text query is the raw one, and has the search's limit; it      *)
(* fails in the transaction that a failed vector statement aborted.        *)
Complete ==
    /\ search.pc = "looked"
    /\ IF ~TooFew(search.found, search.limit)
       THEN search' = [search EXCEPT !.pc = "answered", !.answer = search.found]
       ELSE \/ Fail(IF search.fault = "vector" THEN "vector" ELSE "text")
            \/ /\ search.fault # "vector"
               /\ \E fts \in TextRows(search.limit) :
                  \E more \in Added(fts, search.found, search.limit) :
                      search' = [search EXCEPT !.pc = "answered", !.mode = "hybrid",
                                               !.answer = search.found \cup more]
    /\ UNCHANGED <<item, walk>>

LeaveSearch ==
    /\ search.pc \in {"answered", "failed"}
    /\ search' = NoSearch
    /\ UNCHANGED <<item, walk>>

----
Moderate ==
    \E i \in Items :
        \/ \E d \in Dates : Scrape(i, d) \/ Approve(i, d) \/ Redate(i, d)
        \/ BulkApprove(i)
        \/ \E s \in Hidden : Hide(i, s)

Browse ==
    \/ \E f \in Filters, n \in PageSizes, c \in {FirstPage} \cup Links : BeginWalk(f, n, c)
    \/ ListItems \/ LeaveFeed

Handle == Gather \/ Embed \/ VectorSearch \/ Complete \/ \E tags \in TagSets : ResolveKeywords(tags)

Ask == LeaveSearch \/ \E n \in Limits, p \in TagSets : BeginSearch(n, p)

ReaderNext == Moderate \/ Browse \/ Ask \/ Handle

(* The server goes on with a search; clients and moderators need not act. *)
ReaderSpec == ReaderInit /\ [][ReaderNext]_reading /\ WF_reading(Handle)

----
ReaderTypeOK ==
    /\ item \in [Items -> [status : Hidden \cup {"active"}, at : Dates \cup {NoDate}]]
    /\ walk \in [pc : {"idle", "walking", "ended", "failed"}, filter : Filters \cup {Unset},
                 size : PageSizes \cup {0}, cursor : Cursors, shown : SUBSET Items,
                 again : BOOLEAN, steady : SUBSET Items]
    /\ search \in [pc : {"idle", "asked", "extracted", "resolved", "embedded", "looked",
                         "answered", "failed"},
                   limit : Limits \cup {0}, tags : SUBSET UNION TagSets, raw : BOOLEAN,
                   clean : BOOLEAN, keywords : BOOLEAN,
                   found : SUBSET Items, answer : SUBSET Items,
                   mode : {"vector", "hybrid"},
                   fault : {"none", "extraction", "keywords", "vector", "text"},
                   steady : SUBSET Items, everActive : SUBSET Items]

(* ADR-004: whatever moderators publish, hide or publish again meanwhile,  *)
(* a walk shows no item twice, and one that has reached the last page has  *)
(* shown every dated item after its first cursor that was active all the   *)
(* while; ties on published_at included.                                   *)
WalkIsStable ==
    /\ ~walk.again
    /\ walk.pc = "ended" => walk.steady \subseteq walk.shown

(* An answer has no more items than asked for, each of them active at some *)
(* moment of the search; one that the text search completed and that still *)
(* has room holds every item that matches the text and was active all the  *)
(* while.                                                                  *)
AnswerIsFull ==
    search.pc = "answered" =>
        /\ Cardinality(search.answer) <= search.limit
        /\ search.answer \subseteq search.everActive
        /\ search.mode = "hybrid" /\ Cardinality(search.answer) < search.limit
               => TextHits \cap search.steady \subseteq search.answer

(* Every search that is asked ends, and OpenAI's embeddings alone never    *)
(* make it fail: it ends with an error only if the extraction raised or    *)
(* one of its statements (the keywords' SELECT, the vector search, the     *)
(* full-text search) failed.                                               *)
SearchIsAnswered ==
    /\ search.pc = "asked" ~> search.pc \in {"answered", "failed"}
    /\ [](search.pc = "failed" => search.fault # "none")

(* Does not hold (docs/api.md: on the last page next_cursor is null): what *)
(* bulk_approve published without a date is never shown after a first      *)
(* page, or makes the next page fail.                                      *)
WalkShowsAll ==
    [][walk.pc = "walking" /\ walk'.pc = "ended" =>
       \A i \in Items : Active(i) /\ Matches(walk.filter, i) /\ i \notin walk'.shown
            => Dated(i)]_reading
====
