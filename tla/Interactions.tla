---- MODULE Interactions ----
(***************************************************************************)
(* Interactions and what is made of them: record_interaction of            *)
(* services/item_service.py with the counters (repositories/items.py) and  *)
(* the per-tag scores (repositories/recommendations.py), and the cached    *)
(* recommendations of services/recommendation_service.py.                  *)
(*                                                                         *)
(* counter, signal and events are committed rows of READ COMMITTED         *)
(* transactions; a request keeps its own writes, and with them the row     *)
(* locks, in its record until it commits.  Scores are in tenths.  One      *)
(* profile and one page size, so that a user has one key of the cache, and *)
(* an answer is the set of its items.                                      *)
(***************************************************************************)
EXTENDS Integers, FiniteSets, FiniteSetsExt

CONSTANTS Shoppers,                  \* the users
          Gifts, Catalogue,          \* items of Gifts \ Catalogue do not exist
          Tags, Tagged0,
          Recordings, Readers,       \* requests that record, that read
          Kinds,                     \* the kinds of interaction to look at
          MaxScore,                  \* Numeric(8, 4) in tenths: 99999
          MaxEdits,                  \* bound: edits of the catalogue
          NoRow, NoTag, NoRecs

ASSUME InteractionsAssumption ==
    /\ Kinds \subseteq {"view", "click", "save", "remove", "share", "purchase", "dismiss"}
    /\ Kinds # {} /\ Shoppers # {} /\ Gifts # {}
    /\ NoRow \notin [score : Int, count : Int]

VARIABLES tags,      \* the tags that exist
          tagged,    \* item_tags, pairs <<i, g>>
          active,    \* the items that are active
          counter,   \* counter[i][c]: view_count, click_count, save_count
          signal,    \* signal[u][g]: NoRow or [score, count]
          events,    \* user_interactions: the requests that have committed one
          cache,     \* cache[u]: NoRecs or the cached answer
          rec, read, edits

interaction == <<tags, tagged, active, counter, signal, events, cache, rec, read, edits>>
Catalog == <<tags, tagged, active>>
Rows == <<counter, signal, events>>

Weight == [view |-> 1, click |-> 5, save |-> 10, share |-> 10, purchase |-> 20,
           remove |-> -5, dismiss |-> -3]
CounterOf(k) == IF k \in {"view", "click", "save"} THEN {k} ELSE {}

(* Rows that a transaction has written, over those that are committed.     *)
NoWrite == [k \in {} |-> 0]
Write(rows, k, row) == [h \in DOMAIN rows \cup {k} |-> IF h = k THEN row ELSE rows[h]]
Over(old, rows) == [k \in DOMAIN old |-> IF k \in DOMAIN rows THEN rows[k] ELSE old[k]]

NotRecording == [pc |-> "idle", user |-> CHOOSE u \in Shoppers : TRUE,
                 item |-> CHOOSE i \in Gifts : TRUE, kind |-> CHOOSE k \in Kinds : TRUE,
                 loaded |-> 0, count |-> NoWrite,
                 tags |-> {}, todo |-> {}, want |-> NoTag, put |-> NoWrite]

NoRead == [pc |-> "idle", user |-> CHOOSE u \in Shoppers : TRUE, tops |-> {}, answer |-> {}]

InteractInit ==
    /\ tags = Tags /\ tagged = Tagged0 /\ active = Catalogue
    /\ counter = [i \in Gifts |-> [c \in {"view", "click", "save"} |-> 0]]
    /\ signal = [u \in Shoppers |-> [g \in Tags |-> NoRow]]
    /\ events = {}
    /\ cache = [u \in Shoppers |-> NoRecs]
    /\ rec = [r \in Recordings |-> NotRecording]
    /\ read = [q \in Readers |-> NoRead]
    /\ edits = 0

----
(* A row belongs to the transaction that has written it. *)
CounterFree(r, i) == \A s \in Recordings \ {r} : rec[s].item = i => rec[s].count = NoWrite
HasSignal(s, u, g) == rec[s].user = u /\ g \in DOMAIN rec[s].put
SignalFree(r, u, g) == \A s \in Recordings \ {r} : ~HasSignal(s, u, g)

Fail(r) == rec' = [rec EXCEPT ![r] = [NotRecording EXCEPT !.pc = "failed"]]

LoadItem(r, u, i, k) ==
    /\ rec[r].pc = "idle"
    /\ IF i \notin Catalogue THEN Fail(r)
       ELSE rec' = [rec EXCEPT ![r] =
                        [NotRecording EXCEPT !.pc = "loaded", !.user = u, !.item = i, !.kind = k,
                             !.loaded = IF k \in DOMAIN counter[i] THEN counter[i][k] ELSE 0]]
    /\ UNCHANGED <<Catalog, Rows, cache, read, edits>>

\* Mutant: the counter is raised on the loaded object.
IncrementLoaded(r) == rec[r].loaded + 1

(* One UPDATE that adds to the column as it is when the row is locked. *)
Incremented(r) == counter[rec[r].item][rec[r].kind] + 1

Bump(r) ==
    /\ rec[r].pc = "loaded"
    /\ IF CounterOf(rec[r].kind) = {}
       THEN rec' = [rec EXCEPT ![r].pc = "bumped"]
       ELSE /\ CounterFree(r, rec[r].item)
            /\ rec' = [rec EXCEPT ![r].pc = "bumped",
                                ![r].count = Write(@, rec[r].kind, Incremented(r))]
    /\ UNCHANGED <<Catalog, Rows, cache, read, edits>>

(* The tags as they are now; the rows to upsert are in no particular order. *)
ReadTags(r) ==
    LET T == {g \in Tags : <<rec[r].item, g>> \in tagged}
    IN /\ rec[r].pc = "bumped"
       /\ \E g \in IF T = {} THEN {NoTag} ELSE T :
              rec' = [rec EXCEPT ![r].pc = IF T = {} THEN "written" ELSE "upserting",
                                 ![r].tags = T, ![r].todo = T, ![r].want = g]
       /\ UNCHANGED <<Catalog, Rows, cache, read, edits>>

Upserted(old, k) ==
    IF old = NoRow THEN [score |-> Weight[k], count |-> 1]
    ELSE [score |-> old.score + Weight[k], count |-> old.count + 1]

(* One row of INSERT ... ON CONFLICT DO UPDATE.  The whole request fails   *)
(* when the tag is gone or the score does not fit the column.              *)
UpsertRow(r) ==
    LET u == rec[r].user  g == rec[r].want
        row == Upserted(signal[u][g], rec[r].kind)
        left == rec[r].todo \ {g}
    IN /\ rec[r].pc = "upserting"
       /\ SignalFree(r, u, g)
       /\ IF g \notin tags \/ row.score \notin -MaxScore .. MaxScore
          THEN Fail(r)
          ELSE \E h \in IF left = {} THEN {NoTag} ELSE left :
                   rec' = [rec EXCEPT ![r].pc = IF left = {} THEN "written" ELSE "upserting",
                              ![r].todo = left, ![r].want = h, ![r].put = Write(@, g, row)]
       /\ UNCHANGED <<Catalog, Rows, cache, read, edits>>

(* The unit of work inserts the event as it commits. *)
CommitInteraction(r) ==
    LET q == rec[r]
    IN /\ q.pc = "written"
       /\ counter' = [counter EXCEPT ![q.item] = Over(@, q.count)]
       /\ signal' = [signal EXCEPT ![q.user] = Over(@, q.put)]
       /\ events' = events \cup {r}
       /\ rec' = [rec EXCEPT ![r] = [NotRecording EXCEPT !.pc = "204", !.user = q.user,
                                         !.item = q.item, !.kind = q.kind, !.tags = q.tags]]
       /\ UNCHANGED <<Catalog, cache, read, edits>>

(* PostgreSQL's deadlock detector aborts one of a cycle of waiters. *)
Waits(r, s) ==
    \/ rec[r].pc = "loaded" /\ CounterOf(rec[r].kind) # {} /\ rec[s].item = rec[r].item
       /\ rec[s].count # NoWrite
    \/ rec[r].pc = "upserting" /\ HasSignal(s, rec[r].user, rec[r].want)
Deadlocked(r) ==
    \E S \in SUBSET Recordings : r \in S /\ \A a \in S : \E b \in S \ {a} : Waits(a, b)

\* Mutant: the victim's transaction stays open.
AbortNoVictim(r) == FALSE /\ UNCHANGED interaction

Abort(r) ==
    /\ rec[r].pc = "upserting" /\ Deadlocked(r)
    /\ Fail(r)
    /\ UNCHANGED <<Catalog, Rows, cache, read, edits>>

(* The server dies, or the connection does: nothing is committed. *)
Crash(r) ==
    /\ rec[r].pc \in {"loaded", "bumped", "upserting", "written"}
    /\ Fail(r)
    /\ UNCHANGED <<Catalog, Rows, cache, read, edits>>

----
(* Admins: an item is shown or hidden, tagged or untagged; a tag that goes *)
(* takes its signals along, and waits for those that are being written.    *)
Edit == edits < MaxEdits /\ edits' = edits + 1

ToggleItem(i) ==
    /\ Edit
    /\ active' = IF i \in active THEN active \ {i} ELSE active \cup {i}
    /\ UNCHANGED <<tags, tagged, Rows, cache, rec, read>>

Retag(i, g) ==
    /\ Edit /\ g \in tags
    /\ tagged' = IF <<i, g>> \in tagged THEN tagged \ {<<i, g>>} ELSE tagged \cup {<<i, g>>}
    /\ UNCHANGED <<tags, active, Rows, cache, rec, read>>

DeleteTag(g) ==
    /\ Edit /\ g \in tags
    /\ \A r \in Recordings : g \notin DOMAIN rec[r].put
    /\ tags' = tags \ {g}
    /\ tagged' = {p \in tagged : p[2] # g}
    /\ signal' = [u \in Shoppers |-> [signal[u] EXCEPT ![g] = NoRow]]
    /\ UNCHANGED <<active, counter, events, cache, rec, read>>

----
(* The top tags have a positive score.                                     *)
Liked(u) == {g \in tags : signal[u][g] # NoRow /\ signal[u][g].score > 0}

\* Items of the liked tags or, when there are none, the trending ones.
Recommended(tops) ==
    LET found == {i \in active : \E g \in tops : <<i, g>> \in tagged}
    IN IF found = {} THEN active ELSE found

(* get_recommendations answers from the cache or computes; refresh and the *)
(* worker's task always compute.                                           *)
GetRecommendations(q, u) ==
    /\ read[q].pc = "idle" /\ cache[u] = NoRecs
    /\ read' = [read EXCEPT ![q] = [NoRead EXCEPT !.pc = "computing", !.user = u]]
    /\ UNCHANGED <<Catalog, Rows, cache, rec, edits>>

ComputeForUser(q, u) ==
    /\ read[q].pc = "idle"
    /\ read' = [read EXCEPT ![q] = [NoRead EXCEPT !.pc = "computing", !.user = u]]
    /\ UNCHANGED <<Catalog, Rows, cache, rec, edits>>

TopTags(q) ==
    /\ read[q].pc = "computing"
    /\ read' = [read EXCEPT ![q].pc = "tops", ![q].tops = Liked(read[q].user)]
    /\ UNCHANGED <<Catalog, Rows, cache, rec, edits>>

FindItems(q) ==
    /\ read[q].pc = "tops"
    /\ read' = [read EXCEPT ![q].pc = "found", ![q].answer = Recommended(read[q].tops)]
    /\ UNCHANGED <<Catalog, Rows, cache, rec, edits>>

StoreRecs(q) ==   \* SETEX; the reader fails if Redis does
    /\ read[q].pc = "found"
    /\ cache' \in {[cache EXCEPT ![read[q].user] = read[q].answer], cache}
    /\ read' = [read EXCEPT ![q] = NoRead]
    /\ UNCHANGED <<Catalog, Rows, rec, edits>>

\* Mutant: SET without a time to live.
ExpireNever(u) == FALSE /\ UNCHANGED interaction

Expire(u) ==   \* CACHE_TTL_SECONDS are over
    /\ cache[u] # NoRecs
    /\ cache' = [cache EXCEPT ![u] = NoRecs]
    /\ UNCHANGED <<Catalog, Rows, rec, read, edits>>

----
Record(r) == Bump(r) \/ ReadTags(r) \/ UpsertRow(r) \/ CommitInteraction(r) \/ Abort(r)
Recommend(q) == TopTags(q) \/ FindItems(q) \/ StoreRecs(q)

Interact(r) == \E u \in Shoppers, i \in Gifts, k \in Kinds : LoadItem(r, u, i, k)
Ask(q) == \E u \in Shoppers : GetRecommendations(q, u) \/ ComputeForUser(q, u)

InteractNext ==
    \/ \E r \in Recordings : Interact(r) \/ Record(r) \/ Crash(r)
    \/ \E q \in Readers : Ask(q) \/ Recommend(q)
    \/ \E i \in Catalogue : ToggleItem(i) \/ \E g \in Tags : Retag(i, g)
    \/ \E g \in Tags : DeleteTag(g)
    \/ \E u \in Shoppers : Expire(u)

(* Servers and PostgreSQL go on; Redis expires keys.  Nobody need act.     *)
InteractFairness ==
    /\ \A r \in Recordings : WF_interaction(Record(r))
    /\ \A q \in Readers : WF_interaction(Recommend(q))
    /\ \A u \in Shoppers : WF_interaction(Expire(u))
InteractSpec == InteractInit /\ [][InteractNext]_interaction /\ InteractFairness

----
InteractTypeOK ==
    /\ tags \subseteq Tags /\ tagged \subseteq Gifts \X Tags /\ active \subseteq Catalogue
    /\ counter \in [Gifts -> [{"view", "click", "save"} -> Nat]]
    /\ events \subseteq Recordings
    /\ \A u \in Shoppers, g \in Tags : signal[u][g] = NoRow \/ signal[u][g].count \in Nat \ {0}

Sum(S) == FoldFunctionOnSet(+, 0, [r \in S |-> Weight[rec[r].kind]], S)

(* The three writes of an interaction stand or fall together, and none is  *)
(* lost to a concurrent one: the counters, the per-tag scores and their    *)
(* counts are what the recorded events add up to, whichever of them        *)
(* failed, crashed, overflowed the score or lost a deadlock.               *)
AggregatesMatchEvents ==
    /\ \A i \in Gifts, c \in {"view", "click", "save"} :
           counter[i][c] = Cardinality({r \in events : rec[r].item = i /\ rec[r].kind = c})
    /\ \A u \in Shoppers, g \in tags :
           LET E == {r \in events : rec[r].user = u /\ g \in rec[r].tags}
           IN signal[u][g] = IF E = {} THEN NoRow ELSE [score |-> Sum(E), count |-> Cardinality(E)]

(* Every interaction that has begun is answered: requests of one user that *)
(* upsert the same tags in opposite orders do not wait for ever.           *)
EveryInteractionEnds ==
    \A r \in Recordings : rec[r].pc \in {"loaded", "bumped", "upserting", "written"}
                            ~> rec[r].pc \in {"204", "failed"}

(* Once the signals and the catalogue are left alone, the cached answer is *)
(* what would be computed now, though a computation may store what it read *)
(* before an interaction committed: only the expiry puts that right.       *)
RecsSettle ==
    \A u \in Shoppers : <>[](cache[u] \in {NoRecs, Recommended(Liked(u))})
====
