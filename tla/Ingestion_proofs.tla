---- MODULE Ingestion_proofs ----
(***************************************************************************)
(* Proofs about the ways in which items come into the catalog: a scrape    *)
(* task (ScrapeTask), the crawl of a shop that feeds it (Crawl), the       *)
(* requests of an admin (ManualIngestion), the approval of an Instagram    *)
(* post (InstagramReview) and the fetch of such posts (InstagramFetch).    *)
(* The five share no state; each part has its own inductive invariant:     *)
(* IInv and CreatedInv, CrawlInv, ManualInv, ReviewInv and FetchInv.       *)
(***************************************************************************)
EXTENDS ScrapeTask, Crawl, ManualIngestion, InstagramReview, InstagramFetch,
        SetLemmas, SequenceTheorems, FiniteSetTheorems, TLAPS

----
(* Scrape tasks, for any number of jobs, messages of schedules, products,  *)
(* versions and faults and any size of a batch.                            *)

Contents == Versions \cup {NoItem}
Totals == [found : Nat, created : Nat, updated : Nat, skipped : Nat]
TaskType == [pc : {"none", "scraping", "lookup", "upsert", "checkpoint", "finishing",
                   "completed", "ended"},
             seen : SUBSET Ids, exhausted : BOOLEAN, buffer : Seq(Results),
             writes : [Ids -> Contents], aborted : BOOLEAN, tags : BOOLEAN,
             totals : Totals, dbErrors : Nat]

Typed == /\ row \in [Jobs -> Rows]
         /\ request \in [Jobs -> {"none", "flushed", "dispatched", "done"}]
         /\ message \in [Messages -> {"none", "sent", "acked"}]
         /\ catalog \in [Ids -> Contents]
         /\ task \in [Messages -> TaskType]

BufferIds(t) == {t.buffer[k].id : k \in DOMAIN t.buffer}

(* While no statement was refused, a result that was yielded is in the     *)
(* catalog, among the writes of the open transaction or still buffered,    *)
(* and is counted unless it is still buffered.                             *)
Balanced(t, stock) ==
    /\ ~t.aborted
    /\ t.totals.found + Len(t.buffer) = Cardinality(t.seen)
    /\ t.totals.found = t.totals.created + t.totals.updated + t.totals.skipped
    /\ \A e \in t.seen : stock[e] # NoItem \/ t.writes[e] # NoItem \/ e \in BufferIds(t)

\* What CompletedMeansStored says of a task that has completed.
Delivered(t, stock) ==
    t.dbErrors = 0 =>
        /\ t.totals.found = Cardinality(t.seen)
        /\ t.totals.found = t.totals.created + t.totals.updated + t.totals.skipped
        /\ \A e \in t.seen : stock[e] # NoItem

\* The task is being run.
Runs(t) == t.pc \notin {"none", "completed", "ended"}

Accounted(t, stock) ==
    /\ IsFiniteSet(t.seen)
    /\ t.pc \notin {"lookup", "upsert"} => t.writes = Nothing
    /\ t.pc \in {"checkpoint", "finishing"} => t.buffer = <<>>
    /\ t.pc = "upsert" => t.buffer # <<>>
    /\ Runs(t) /\ t.dbErrors = 0 => Balanced(t, stock)
    /\ t.pc = "completed" => Delivered(t, stock)
AllAccounted == \A m \in Messages : Accounted(task[m], catalog)

IInv == Typed /\ AllAccounted

(* A task with a fresh transaction is of the type of tasks.                *)
LEMMA NoTaskTyped ==
    /\ NoTask \in TaskType
    /\ NoTask.pc = "none" /\ NoTask.seen = {} /\ NoTask.buffer = <<>> /\ NoTask.writes = Nothing
    /\ NoTask.aborted = FALSE /\ NoTask.dbErrors = 0 /\ NoTask.totals = Zero
    /\ Zero \in Totals /\ Zero.found = 0 /\ Zero.created = 0 /\ Zero.updated = 0 /\ Zero.skipped = 0
<1>1. Zero \in Totals /\ Zero.found = 0 /\ Zero.created = 0 /\ Zero.updated = 0 /\ Zero.skipped = 0
  BY DEF Zero, Totals
<1>2. Nothing \in [Ids -> Contents] /\ <<>> \in Seq(Results)
  BY DEF Nothing, Contents
<1> QED
  BY <1>1, <1>2 DEF NoTask, TaskType

(* No job was asked for.                                                   *)
LEMMA InitIInv == Init => IInv
<1> SUFFICES ASSUME Init PROVE IInv
    OBVIOUS
<1>1. Typed
  BY NoTaskTyped DEF Init, Typed, Rows, Nothing, Contents
<1>2. AllAccounted
  BY NoTaskTyped, FS_EmptySet DEF Init, AllAccounted, Accounted, Runs
<1> QED
  BY <1>1, <1>2 DEF IInv

(* Items do not leave the catalog: what was accounted for still is.        *)
LEMMA CatalogGrows ==
    ASSUME NEW stock \in [Ids -> Contents], NEW more \in [Ids -> Contents],
           \A e \in Ids : stock[e] # NoItem => more[e] # NoItem,
           NEW t \in TaskType
    PROVE  Accounted(t, stock) => Accounted(t, more)
<1>1. t.seen \subseteq Ids
  BY DEF TaskType
<1> QED
  BY <1>1 DEF Accounted, Balanced, Delivered

(* A step of the task of m leaves the other tasks as they were.            *)
LEMMA TaskKept ==
    ASSUME IInv, NEW m \in Messages, NEW t \in TaskType,
           task' = [task EXCEPT ![m] = t],
           row' \in [Jobs -> Rows], request' = request,
           message' \in [Messages -> {"none", "sent", "acked"}],
           catalog' \in [Ids -> Contents],
           \A e \in Ids : catalog[e] # NoItem => catalog'[e] # NoItem,
           Accounted(t, catalog')
    PROVE  IInv'
<1>1. Typed /\ task \in [Messages -> TaskType] /\ catalog \in [Ids -> Contents]
  BY DEF IInv, Typed
<1>2. \A k \in Messages : task'[k] = IF k = m THEN t ELSE task[k]
  BY <1>1
<1>3. Typed'
  BY <1>1 DEF Typed
<1>4. ASSUME NEW k \in Messages \ {m} PROVE Accounted(task[k], catalog')
  <2>1. task[k] \in TaskType /\ Accounted(task[k], catalog)
    BY <1>1 DEF IInv, AllAccounted
  <2> QED
    BY <1>1, <2>1, CatalogGrows
<1>5. AllAccounted'
  BY <1>2, <1>4 DEF AllAccounted
<1> QED
  BY <1>3, <1>5 DEF IInv

(* A mark writes a status into the row of the task's job.                  *)
LEMMA MarkedTyped ==
    ASSUME IInv, NEW m \in Messages, NEW outcome \in Rows
    PROVE  Marked(m, outcome) \in [Jobs -> Rows]
<1>1. row \in [Jobs -> Rows] /\ JobOf(m) \in Jobs
  BY ScrapeAssumption DEF IInv, Typed, Messages, JobOf
<1> QED
  BY <1>1 DEF Marked

(* The admin's request, and a schedule's.                                  *)
LEMMA RequestKeeps ==
    ASSUME IInv,
           \/ \E j \in Jobs : TriggerSite(j) \/ Dispatch(j) \/ EndRequest(j)
           \/ \E m \in Resends : TriggerSchedule(m)
    PROVE  IInv'
<1>1. Jobs \subseteq Messages /\ Resends \subseteq Messages
  BY DEF Messages
<1>2. task' = task /\ catalog' = catalog
  BY DEF TriggerSite, Dispatch, EndRequest, TriggerSchedule
<1>3. /\ row' \in [Jobs -> Rows]
      /\ request' \in [Jobs -> {"none", "flushed", "dispatched", "done"}]
      /\ message' \in [Messages -> {"none", "sent", "acked"}]
  BY <1>1 DEF IInv, Typed, TriggerSite, Dispatch, EndRequest, TriggerSchedule, Rows
<1> QED
  BY <1>2, <1>3 DEF IInv, Typed, AllAccounted

(* The task starts, or ends before its adapter is asked for anything.      *)
LEMMA StartKeeps ==
    ASSUME IInv, NEW m \in Messages, Start(m)
    PROVE  IInv'
<1>1. PICK pc \in {"scraping", "ended"} :
        /\ task' = [task EXCEPT ![m] = [NoTask EXCEPT !.pc = pc]]
        /\ row' \in {row, Marked(m, "failed")}
  BY DEF Start
<1> DEFINE t == [NoTask EXCEPT !.pc = pc]
<1>2. /\ t \in TaskType /\ t.pc = pc /\ t.seen = {} /\ t.buffer = <<>> /\ t.writes = Nothing
      /\ t.aborted = FALSE /\ t.dbErrors = 0 /\ t.totals = Zero
  BY NoTaskTyped DEF TaskType
<1>3. /\ UNCHANGED <<request, catalog>> /\ catalog \in [Ids -> Contents]
      /\ message' \in [Messages -> {"none", "sent", "acked"}]
  BY DEF Start, IInv, Typed
<1>4. Accounted(t, catalog)
  <2>1. Len(t.buffer) = 0
    BY <1>2
  <2> HIDE DEF t
  <2> QED
    BY <1>2, <2>1, NoTaskTyped, FS_EmptySet DEF Accounted, Balanced, Runs
<1>5. task' = [task EXCEPT ![m] = t]
  BY <1>1
<1> HIDE DEF t
<1>6. row' \in [Jobs -> Rows]
  BY <1>1, MarkedTyped DEF IInv, Typed, Rows
<1> QED
  BY <1>2, <1>3, <1>4, <1>5, <1>6, TaskKept

----
(* What the invariant says of the task that takes a step.                  *)
LEMMA Running ==
    ASSUME IInv, NEW m \in Messages
    PROVE  /\ task \in [Messages -> TaskType] /\ task[m] \in TaskType
           /\ catalog \in [Ids -> Contents] /\ Accounted(task[m], catalog)
           /\ task[m].seen \subseteq Ids /\ task[m].buffer \in Seq(Results)
           /\ task[m].totals \in Totals /\ task[m].writes \in [Ids -> Contents]
           /\ task[m].dbErrors \in Nat
           /\ row \in [Jobs -> Rows] /\ message \in [Messages -> {"none", "sent", "acked"}]
BY DEF IInv, Typed, AllAccounted, TaskType

(* The first result of the buffer and the others. *)
LEMMA BufferSplit ==
    ASSUME NEW buffer \in Seq(Results), buffer # <<>>
    PROVE  /\ Head(buffer) \in Results /\ Tail(buffer) \in Seq(Results)
           /\ Len(Tail(buffer)) = Len(buffer) - 1 /\ Len(buffer) \in Nat
           /\ \A e : e \in {buffer[k].id : k \in DOMAIN buffer} =>
                     e = Head(buffer).id \/ e \in {Tail(buffer)[k].id : k \in DOMAIN Tail(buffer)}
<1> DEFINE rest == Tail(buffer)
<1>1. /\ rest \in Seq(Results) /\ Len(buffer) \in Nat /\ Len(buffer) > 0
      /\ Len(rest) = Len(buffer) - 1 /\ Head(buffer) = buffer[1] /\ Head(buffer) \in Results
      /\ DOMAIN buffer = 1 .. Len(buffer) /\ DOMAIN rest = 1 .. Len(rest)
      /\ \A k \in 1 .. Len(rest) : rest[k] = buffer[k + 1]
  OBVIOUS
<1>2. ASSUME NEW k \in DOMAIN buffer
      PROVE  k = 1 \/ (k - 1 \in DOMAIN rest /\ buffer[k] = rest[k - 1])
  BY <1>1
<1> HIDE DEF rest
<1>3. ASSUME NEW e, e \in {buffer[k].id : k \in DOMAIN buffer}
      PROVE  e = Head(buffer).id \/ e \in {rest[k].id : k \in DOMAIN rest}
  BY <1>1, <1>2, <1>3
<1> QED
  BY <1>1, <1>3 DEF rest

(* A task that ends, by itself or not, with its open transaction undone.   *)
LEMMA EndKeeps ==
    ASSUME IInv, NEW m \in Messages, Runs(task[m]), NEW pc \in {"completed", "ended"},
           task' = [task EXCEPT ![m] = Closed(task[m], pc)],
           UNCHANGED <<request, message, catalog>>,
           row' \in {row, Marked(m, "failed"), Marked(m, "completed")},
           pc = "completed" => task[m].pc = "finishing"
    PROVE  IInv'
<1> DEFINE t == Closed(task[m], pc)
<1>1. /\ t \in TaskType /\ t.pc = pc /\ t.writes = Nothing /\ t.seen = task[m].seen
      /\ t.totals = task[m].totals /\ t.dbErrors = task[m].dbErrors
  <2>1. Nothing \in [Ids -> Contents] /\ <<>> \in Seq(Results)
    BY DEF Nothing, Contents
  <2> QED
    BY <2>1, Running DEF Closed, FreshTransaction, TaskType
<1>2. IsFiniteSet(t.seen)
  BY <1>1, Running DEF Accounted
<1>3. task[m].pc = "finishing" => Delivered(t, catalog)
  <2> SUFFICES ASSUME task[m].pc = "finishing", t.dbErrors = 0 PROVE Delivered(t, catalog)
      BY DEF Delivered
  <2>1. /\ Balanced(task[m], catalog) /\ task[m].buffer = <<>> /\ task[m].writes = Nothing
    BY <1>1, Running DEF Accounted, Runs
  <2>2. Len(task[m].buffer) = 0 /\ BufferIds(task[m]) = {}
    BY <2>1 DEF BufferIds
  <2>3. \A e \in task[m].seen : catalog[e] # NoItem
    BY <2>1, <2>2, Running DEF Balanced, Nothing
  <2> HIDE DEF t
  <2> QED
    BY <1>1, <2>1, <2>2, <2>3, Running DEF Balanced, Delivered, Totals
<1> HIDE DEF t
<1>4. Accounted(t, catalog)
  BY <1>1, <1>2, <1>3 DEF Accounted, Runs
<1>5. task' = [task EXCEPT ![m] = t]
  BY DEF t
<1>6. row' \in [Jobs -> Rows]
  BY Running, MarkedTyped DEF Rows
<1> QED
  BY <1>1, <1>4, <1>5, <1>6, Running, TaskKept

(* The adapter yields a new product, or has no more of them.               *)
LEMMA YieldKeeps ==
    ASSUME IInv, NEW m \in Messages, NEW result \in Results, Yield(m, result)
    PROVE  IInv'
<1> DEFINE filled == Append(task[m].buffer, result)
           t == [task[m] EXCEPT !.seen = @ \cup {result.id}, !.buffer = filled,
                                !.pc = IF BatchFull(filled) THEN "lookup" ELSE @]
<1>1. /\ task[m].pc = "scraping" /\ result.id \notin task[m].seen
      /\ UNCHANGED <<row, request, message, catalog>>
  BY DEF Yield
<1>2. result.id \in Ids /\ filled \in Seq(Results)
  <2>1. result.id \in Ids
    BY DEF Results
  <2>2. filled \in Seq(Results)
    BY Running
  <2> QED
    BY <2>1, <2>2
<1>3. task' = [task EXCEPT ![m] = t]
  BY Running DEF Yield, TaskType
<1>4. /\ t \in TaskType /\ t.pc \in {"scraping", "lookup"}
      /\ t.seen = task[m].seen \cup {result.id} /\ t.buffer = filled
      /\ t.writes = task[m].writes /\ t.aborted = task[m].aborted
      /\ t.totals = task[m].totals /\ t.dbErrors = task[m].dbErrors
  BY <1>1, <1>2, Running DEF TaskType
<1>5. Len(filled) = Len(task[m].buffer) + 1 /\ Len(task[m].buffer) \in Nat
  BY Running
<1>6. BufferIds(task[m]) \cup {result.id} \subseteq {filled[k].id : k \in DOMAIN filled}
  <2>1. /\ DOMAIN filled = 1 .. (Len(task[m].buffer) + 1) /\ Len(task[m].buffer) \in Nat
        /\ DOMAIN task[m].buffer = 1 .. Len(task[m].buffer)
        /\ filled[Len(task[m].buffer) + 1] = result
        /\ \A k \in 1 .. Len(task[m].buffer) : filled[k] = task[m].buffer[k]
    BY Running
  <2> HIDE DEF filled
  <2>2. \A k \in DOMAIN task[m].buffer : k \in DOMAIN filled /\ filled[k] = task[m].buffer[k]
    BY <2>1
  <2>3. Len(task[m].buffer) + 1 \in DOMAIN filled
    BY <2>1
  <2> QED
    BY <2>1, <2>2, <2>3 DEF BufferIds
<1>7. IsFiniteSet(task[m].seen) /\ task[m].writes = Nothing
  BY <1>1, Running DEF Accounted, Runs
<1>8. IsFiniteSet(t.seen) /\ Cardinality(t.seen) = Cardinality(task[m].seen) + 1
  BY <1>1, <1>4, <1>7, FS_AddElement
<1> HIDE DEF filled, t
<1>9. t.dbErrors = 0 => Balanced(t, catalog)
  <2> SUFFICES ASSUME t.dbErrors = 0 PROVE Balanced(t, catalog)
      OBVIOUS
  <2>1. Balanced(task[m], catalog)
    BY <1>1, <1>4, Running DEF Accounted, Runs
  <2>2. t.totals.found + Len(t.buffer) = Cardinality(t.seen)
    BY <1>4, <1>5, <1>8, <2>1, Running DEF Balanced, Totals
  <2>3. \A e \in t.seen : catalog[e] # NoItem \/ t.writes[e] # NoItem \/ e \in BufferIds(t)
    <3>1. BufferIds(t) = {filled[k].id : k \in DOMAIN filled}
      BY <1>4 DEF BufferIds
    <3>2. BufferIds(task[m]) \subseteq BufferIds(t) /\ result.id \in BufferIds(t)
      BY <1>6, <3>1
    <3> QED
      BY <1>4, <2>1, <3>2 DEF Balanced
  <2> QED
    BY <1>4, <2>1, <2>2, <2>3 DEF Balanced
<1>10. Accounted(t, catalog)
  BY <1>4, <1>7, <1>8, <1>9 DEF Accounted, Runs
<1> QED
  BY <1>1, <1>3, <1>4, <1>10, Running, TaskKept

(* The adapter has no more results: what is buffered is still looked up.   *)
LEMMA AdapterEndsKeeps ==
    ASSUME IInv, NEW m \in Messages, AdapterEnds(m)
    PROVE  IInv'
<1> DEFINE t == [task[m] EXCEPT !.exhausted = TRUE, !.pc = AfterAdapter(task[m])]
<1>1. task[m].pc = "scraping" /\ UNCHANGED <<row, request, message, catalog>>
  BY DEF AdapterEnds
<1>2. task' = [task EXCEPT ![m] = t]
  BY Running DEF AdapterEnds, TaskType
<1>3. /\ t \in TaskType /\ t.pc = AfterAdapter(task[m]) /\ t.seen = task[m].seen
      /\ t.buffer = task[m].buffer /\ t.writes = task[m].writes /\ t.aborted = task[m].aborted
      /\ t.totals = task[m].totals /\ t.dbErrors = task[m].dbErrors
  BY Running DEF TaskType, AfterAdapter
<1>4. (t.pc = "finishing" /\ t.buffer = <<>>) \/ t.pc = "lookup"
  BY <1>3 DEF AfterAdapter
<1> HIDE DEF t
<1>5. Accounted(t, catalog)
  BY <1>1, <1>3, <1>4, Running DEF Accounted, Runs, Balanced, BufferIds
<1> QED
  BY <1>1, <1>2, <1>3, <1>4, <1>5, Running, TaskKept

(* A result leaves the buffer: on file already, or written, or refused.    *)
LEMMA ResultKept ==
    ASSUME IInv, NEW m \in Messages, NEW t \in TaskType,
           task[m].pc \in {"lookup", "upsert"}, task[m].buffer # <<>>, t.pc = "lookup",
           t.seen = task[m].seen, t.buffer = Tail(task[m].buffer),
           t.totals.found = task[m].totals.found + 1,
           t.dbErrors = 0 =>
               /\ task[m].dbErrors = 0 /\ t.aborted = task[m].aborted
               /\ t.totals.found = t.totals.created + t.totals.updated + t.totals.skipped
               /\ catalog[Head(task[m].buffer).id] # NoItem
                     \/ t.writes[Head(task[m].buffer).id] # NoItem
               /\ \A e \in Ids : task[m].writes[e] # NoItem => t.writes[e] # NoItem
    PROVE  Accounted(t, catalog)
<1> DEFINE old == task[m]
<1>1. /\ Accounted(old, catalog) /\ old.buffer \in Seq(Results) /\ old.seen \subseteq Ids
      /\ old.totals \in Totals
  BY Running
<1>2. /\ Len(t.buffer) = Len(old.buffer) - 1 /\ Len(old.buffer) \in Nat
      /\ \A e : e \in BufferIds(old) => e = Head(old.buffer).id \/ e \in BufferIds(t)
  BY <1>1, BufferSplit DEF BufferIds
<1> HIDE DEF old
<1>3. ASSUME t.dbErrors = 0
      PROVE  Balanced(t, catalog)
  <2>1. Balanced(old, catalog)
    BY <1>1, <1>3 DEF Accounted, Runs, old
  <2>2. t.totals.found + Len(t.buffer) = Cardinality(t.seen)
    <3>1. old.totals.found \in Nat
      BY <1>1 DEF Totals
    <3>2. old.totals.found + Len(old.buffer) = Cardinality(old.seen)
      BY <2>1 DEF Balanced
    <3> QED
      BY <1>2, <3>1, <3>2 DEF old
  <2>3. ASSUME NEW e \in t.seen
        PROVE  catalog[e] # NoItem \/ t.writes[e] # NoItem \/ e \in BufferIds(t)
    <3>1. e \in Ids /\ e \in old.seen
      BY <1>1 DEF old
    <3>2. catalog[e] # NoItem \/ old.writes[e] # NoItem \/ e \in BufferIds(old)
      BY <2>1, <3>1 DEF Balanced
    <3> QED
      BY <1>2, <1>3, <3>1, <3>2 DEF old
  <2> QED
    BY <1>3, <2>1, <2>2, <2>3 DEF Balanced, old
<1> QED
  BY <1>1, <1>3 DEF Accounted, Runs, old

----
(* The totals after a skip and after a refused statement.                  *)
LEMMA SkipCounted ==
    ASSUME NEW o \in TaskType
    PROVE  LET sum == [o.totals EXCEPT !.found = @ + 1, !.skipped = @ + 1] IN
           /\ sum \in Totals
           /\ sum.found = o.totals.found + 1 /\ sum.skipped = o.totals.skipped + 1
           /\ sum.created = o.totals.created /\ sum.updated = o.totals.updated
           /\ [o EXCEPT !.buffer = Tail(@), !.totals.found = @ + 1, !.totals.skipped = @ + 1]
                = [o EXCEPT !.buffer = Tail(@), !.totals = sum]
<1>1. o.totals \in Totals
  BY DEF TaskType
<1>2. o.totals.found + 1 \in Nat /\ o.totals.skipped + 1 \in Nat
  BY <1>1 DEF Totals
<1>3. \A a, b \in Nat : [o.totals EXCEPT !.found = a, !.skipped = b] \in Totals
  BY <1>1 DEF Totals
<1>4. [o.totals EXCEPT !.found = @ + 1, !.skipped = @ + 1] \in Totals
  BY <1>2, <1>3
<1>5. [o EXCEPT !.buffer = Tail(@), !.totals.found = @ + 1, !.totals.skipped = @ + 1]
        = [o EXCEPT !.buffer = Tail(@),
                    !.totals = [o.totals EXCEPT !.found = @ + 1, !.skipped = @ + 1]]
  BY DEF TaskType, Totals
<1> QED
  BY <1>1, <1>4, <1>5 DEF Totals

LEMMA RefusedCounted ==
    ASSUME NEW o \in TaskType
    PROVE  LET sum == [o.totals EXCEPT !.found = @ + 1] IN
           sum \in Totals /\ sum.found = o.totals.found + 1
<1>1. o.totals \in Totals
  BY DEF TaskType
<1> QED
  BY <1>1 DEF Totals

LEMMA UpsertCounted ==
    ASSUME NEW o \in TaskType, o.buffer # <<>>, NEW created \in BOOLEAN, NEW hasTags \in BOOLEAN
    PROVE  LET t == Upserted(o, created, hasTags)
               result == Head(o.buffer) IN
           /\ t \in TaskType /\ t.pc = "lookup" /\ t.seen = o.seen
           /\ t.buffer = Tail(o.buffer) /\ t.aborted = o.aborted /\ t.dbErrors = o.dbErrors
           /\ t.totals.found = o.totals.found + 1
           /\ o.totals.found = o.totals.created + o.totals.updated + o.totals.skipped
                => t.totals.found = t.totals.created + t.totals.updated + t.totals.skipped
           /\ t.writes[result.id] # NoItem
           /\ \A e \in Ids : o.writes[e] # NoItem => t.writes[e] # NoItem
<1> DEFINE result == Head(o.buffer)
           f == o.totals.found + 1
           c == IF created THEN o.totals.created + 1 ELSE o.totals.created
           u == IF created THEN o.totals.updated ELSE o.totals.updated + 1
           g == o.tags \/ hasTags
           sum == [o.totals EXCEPT !.found = @ + 1,
                                   !.created = IF created THEN @ + 1 ELSE @,
                                   !.updated = IF created THEN @ ELSE @ + 1]
           writes == [o.writes EXCEPT ![result.id] = result.version]
           t == [o EXCEPT !.pc = "lookup", !.buffer = Tail(@), !.writes = writes,
                          !.tags = @ \/ hasTags, !.totals = sum]
<1>1. o.totals \in Totals /\ o.buffer \in Seq(Results) /\ o.writes \in [Ids -> Contents]
      /\ g \in BOOLEAN
  BY DEF TaskType
<1>2. result \in Results /\ Tail(o.buffer) \in Seq(Results)
  BY <1>1, BufferSplit
<1>3. result.id \in Ids /\ result.version \in Contents /\ result.version # NoItem
  BY <1>2, ScrapeAssumption DEF Results, Contents
<1>4. /\ f \in Nat /\ c \in Nat /\ u \in Nat /\ o.totals.skipped \in Nat
      /\ c + u = o.totals.created + o.totals.updated + 1
      /\ o.totals.created \in Nat /\ o.totals.updated \in Nat /\ o.totals.found \in Nat
  <2>1. /\ o.totals.created \in Nat /\ o.totals.updated \in Nat /\ o.totals.found \in Nat
        /\ o.totals.skipped \in Nat
    BY <1>1 DEF Totals
  <2>2. CASE created
    BY <2>1, <2>2
  <2>3. CASE ~created
    BY <2>1, <2>3
  <2> QED
    BY <2>2, <2>3
<1>5. writes \in [Ids -> Contents] /\ writes[result.id] # NoItem
      /\ \A e \in Ids : o.writes[e] # NoItem => writes[e] # NoItem
  BY <1>1, <1>3
<1>6. Upserted(o, created, hasTags) = t
  BY DEF Upserted
<1> HIDE DEF g, writes, result
<1>7. /\ sum \in Totals /\ sum.found = f /\ sum.skipped = o.totals.skipped
      /\ sum.created = c /\ sum.updated = u
  <2>1. sum = [o.totals EXCEPT !.found = f, !.created = c, !.updated = u]
    OBVIOUS
  <2> HIDE DEF f, c, u, sum
  <2>2. LET s == [o.totals EXCEPT !.found = f, !.created = c, !.updated = u] IN
        /\ s \in Totals /\ s.found = f /\ s.skipped = o.totals.skipped
        /\ s.created = c /\ s.updated = u
    BY <1>1, <1>4 DEF Totals
  <2> QED
    BY <2>1, <2>2
<1> HIDE DEF sum, f
<1>8. /\ t \in TaskType /\ t.pc = "lookup" /\ t.seen = o.seen /\ t.writes = writes
      /\ t.buffer = Tail(o.buffer) /\ t.aborted = o.aborted /\ t.dbErrors = o.dbErrors
      /\ t.totals = sum
  BY <1>1, <1>2, <1>5, <1>7 DEF TaskType
<1> HIDE DEF t, c, u
<1>9. sum.found = o.totals.found + 1
  BY <1>7 DEF f
<1>10. o.totals.found = o.totals.created + o.totals.updated + o.totals.skipped
         => sum.found = sum.created + sum.updated + sum.skipped
  BY <1>4, <1>7, <1>9
<1> QED
  BY <1>5, <1>6, <1>8, <1>9, <1>10 DEF result

(* Which row an upsert writes, and when it counts an item as created.      *)
LEMMA UpsertCreates ==
    ASSUME NEW o \in TaskType, NEW created \in BOOLEAN, NEW hasTags \in BOOLEAN
    PROVE  /\ \A e \in Ids : Upserted(o, created, hasTags).writes[e] # NoItem
                                 => e = Head(o.buffer).id \/ o.writes[e] # NoItem
           /\ created => Upserted(o, created, hasTags).totals.created = o.totals.created + 1
           /\ ~created => Upserted(o, created, hasTags).totals.created = o.totals.created
<1>1. o.totals \in Totals /\ o.writes \in [Ids -> Contents]
  BY DEF TaskType
<1> DEFINE writes == [o.writes EXCEPT ![Head(o.buffer).id] = Head(o.buffer).version]
           sum == [o.totals EXCEPT !.found = @ + 1,
                                   !.created = IF created THEN @ + 1 ELSE @,
                                   !.updated = IF created THEN @ ELSE @ + 1]
<1>2. /\ Upserted(o, created, hasTags).writes = writes
      /\ Upserted(o, created, hasTags).totals = sum
  BY DEF Upserted, TaskType
<1>3. \A e \in Ids : writes[e] # NoItem => e = Head(o.buffer).id \/ o.writes[e] # NoItem
  BY <1>1
<1>4. sum.created = IF created THEN o.totals.created + 1 ELSE o.totals.created
  BY <1>1 DEF Totals
<1> HIDE DEF writes, sum
<1> QED
  BY <1>2, <1>3, <1>4

(* Content that is on file is skipped; other content is to be upserted.    *)
LEMMA LookUpKeeps ==
    ASSUME IInv, NEW m \in Messages, LookUp(m)
    PROVE  IInv'
<1> DEFINE old == task[m]
           result == Head(old.buffer)
<1>1. /\ old.pc = "lookup" /\ old.buffer # <<>> /\ UNCHANGED <<row, request, message, catalog>>
  BY DEF LookUp
<1>2. result \in Results /\ Tail(old.buffer) \in Seq(Results)
  BY <1>1, Running, BufferSplit
<1>3. CASE Visible(m, result.id) = result.version
  <2> DEFINE sum == [old.totals EXCEPT !.found = @ + 1, !.skipped = @ + 1]
             t == [old EXCEPT !.buffer = Tail(@), !.totals = sum]
  <2>1. task' = [task EXCEPT ![m] = t]
    <3>1. task' = [task EXCEPT ![m] = [old EXCEPT !.buffer = Tail(@), !.totals.found = @ + 1,
                                                  !.totals.skipped = @ + 1]]
      BY <1>3 DEF LookUp
    <3> QED
      BY <3>1, Running, SkipCounted
  <2>0. /\ sum \in Totals
        /\ sum.found = old.totals.found + 1 /\ sum.skipped = old.totals.skipped + 1
        /\ sum.created = old.totals.created /\ sum.updated = old.totals.updated
    BY Running, SkipCounted
  <2> HIDE DEF sum
  <2>2. /\ t \in TaskType /\ t.pc = "lookup" /\ t.seen = old.seen /\ t.writes = old.writes
        /\ t.buffer = Tail(old.buffer) /\ t.aborted = old.aborted /\ t.dbErrors = old.dbErrors
        /\ t.totals.found = old.totals.found + 1 /\ t.totals.skipped = old.totals.skipped + 1
        /\ t.totals.created = old.totals.created /\ t.totals.updated = old.totals.updated
    BY <1>1, <1>2, <2>0, Running DEF TaskType
  <2>3. catalog[result.id] # NoItem \/ old.writes[result.id] # NoItem
    BY <1>2, <1>3, ScrapeAssumption DEF Visible, Results
  <2>4. t.dbErrors = 0 => t.totals.found = t.totals.created + t.totals.updated + t.totals.skipped
    BY <1>1, <2>2, Running DEF Accounted, Runs, Balanced, Totals
  <2> HIDE DEF t
  <2>5. Accounted(t, catalog)
    BY <1>1, <2>2, <2>3, <2>4, ResultKept
  <2> QED
    BY <1>1, <2>1, <2>2, <2>5, Running, TaskKept
<1>4. CASE Visible(m, result.id) # result.version
  <2> DEFINE t == [old EXCEPT !.pc = "upsert"]
  <2>1. task' = [task EXCEPT ![m] = t]
    BY <1>4, Running DEF LookUp, TaskType
  <2>2. /\ t \in TaskType /\ t.pc = "upsert" /\ t.seen = old.seen /\ t.writes = old.writes
        /\ t.buffer = old.buffer /\ t.aborted = old.aborted /\ t.dbErrors = old.dbErrors
        /\ t.totals = old.totals
    BY Running DEF TaskType
  <2> HIDE DEF t
  <2>3. Accounted(t, catalog)
    BY <1>1, <2>2, Running DEF Accounted, Runs, Balanced, BufferIds
  <2> QED
    BY <1>1, <2>1, <2>2, <2>3, Running, TaskKept
<1> QED
  BY <1>3, <1>4

(* The upsert writes the row, and counts it as created or updated.         *)
LEMMA UpsertKeeps ==
    ASSUME IInv, NEW m \in Messages, Upsert(m)
    PROVE  IInv'
<1> DEFINE old == task[m]
           created == catalog[Head(old.buffer).id] = NoItem
<1>1. /\ old.pc = "upsert" /\ old.buffer # <<>> /\ UNCHANGED <<row, request, message, catalog>>
  BY Running DEF Upsert, Accounted, Runs
<1>2. PICK hasTags \in Categorised(created) :
        task' = [task EXCEPT ![m] = Upserted(task[m], created, hasTags)]
  BY DEF Upsert
<1>3. hasTags \in BOOLEAN /\ created \in BOOLEAN
  BY DEF Categorised, Suggested
<1> DEFINE t == Upserted(old, created, hasTags)
<1>4. old \in TaskType
  BY Running
<1>5. /\ t \in TaskType /\ t.pc = "lookup" /\ t.seen = old.seen
      /\ t.buffer = Tail(old.buffer) /\ t.aborted = old.aborted /\ t.dbErrors = old.dbErrors
      /\ t.totals.found = old.totals.found + 1
      /\ old.totals.found = old.totals.created + old.totals.updated + old.totals.skipped
           => t.totals.found = t.totals.created + t.totals.updated + t.totals.skipped
      /\ t.writes[Head(old.buffer).id] # NoItem
      /\ \A e \in Ids : old.writes[e] # NoItem => t.writes[e] # NoItem
  BY <1>1, <1>3, <1>4, UpsertCounted
<1>6. t.dbErrors = 0 => t.totals.found = t.totals.created + t.totals.updated + t.totals.skipped
  BY <1>1, <1>5, Running DEF Accounted, Runs, Balanced
<1>7. task' = [task EXCEPT ![m] = t]
  BY <1>2
<1> HIDE DEF t
<1>8. Accounted(t, catalog)
  BY <1>1, <1>5, <1>6, ResultKept
<1> QED
  BY <1>1, <1>5, <1>7, <1>8, Running, TaskKept

(* A statement that is refused is counted, and the task owes no more.      *)
LEMMA UpsertFailsKeeps ==
    ASSUME IInv, NEW m \in Messages, UpsertFails(m)
    PROVE  IInv'
<1> DEFINE old == task[m]
           sum == [old.totals EXCEPT !.found = @ + 1]
           t == [old EXCEPT !.pc = "lookup", !.buffer = Tail(@), !.writes = Nothing,
                            !.aborted = TRUE, !.totals = sum, !.dbErrors = @ + 1]
<1>1. /\ old.pc = "upsert" /\ old.buffer # <<>> /\ UNCHANGED <<row, request, message, catalog>>
  BY Running DEF UpsertFails, Accounted, Runs
<1>2. Tail(old.buffer) \in Seq(Results) /\ Nothing \in [Ids -> Contents]
  BY <1>1, Running, BufferSplit DEF Nothing, Contents
<1>3. task' = [task EXCEPT ![m] = t]
  BY Running DEF UpsertFails, TaskType, Totals
<1>0. sum \in Totals /\ sum.found = old.totals.found + 1
  BY Running, RefusedCounted
<1> HIDE DEF sum
<1>4. /\ t \in TaskType /\ t.pc = "lookup" /\ t.seen = old.seen /\ t.dbErrors = old.dbErrors + 1
      /\ t.buffer = Tail(old.buffer) /\ t.totals.found = old.totals.found + 1
  <2>1. old.dbErrors + 1 \in Nat /\ old \in TaskType
    BY Running
  <2> HIDE DEF old
  <2> QED
    BY <1>0, <1>2, <2>1 DEF TaskType
<1>5. t.dbErrors # 0
  BY <1>4, Running
<1> HIDE DEF t
<1>6. Accounted(t, catalog)
  BY <1>1, <1>4, <1>5, ResultKept
<1> QED
  BY <1>1, <1>3, <1>4, <1>6, Running, TaskKept

(* The batch is committed: its writes are in the catalog.                  *)
LEMMA CommitKeeps ==
    ASSUME IInv, NEW m \in Messages, CommitBatch(m)
    PROVE  IInv'
<1> DEFINE old == task[m]
           t == [FreshTransaction(old) EXCEPT !.pc = NextStage(old)]
<1>1. /\ old.pc = "lookup" /\ old.buffer = <<>> /\ UNCHANGED <<row, request, message>>
      /\ catalog' = [e \in Ids |-> Visible(m, e)]
      /\ task' = [task EXCEPT ![m] = t]
  BY DEF CommitBatch
<1>2. /\ t \in TaskType /\ t.pc \in {"finishing", "checkpoint"} /\ t.seen = old.seen
      /\ t.buffer = <<>> /\ t.writes = Nothing /\ t.aborted = FALSE
      /\ t.totals = old.totals /\ t.dbErrors = old.dbErrors
  <2>1. Nothing \in [Ids -> Contents]
    BY DEF Nothing, Contents
  <2> QED
    BY <1>1, <2>1, Running DEF FreshTransaction, NextStage, TaskType
<1> HIDE DEF t
<1>3. /\ catalog' \in [Ids -> Contents]
      /\ \A e \in Ids : catalog[e] # NoItem \/ old.writes[e] # NoItem => catalog'[e] # NoItem
  BY <1>1, Running DEF Visible
<1>4. BufferIds(old) = {} /\ Len(old.buffer) = 0
  BY <1>1 DEF BufferIds
<1>5. t.dbErrors = 0 => Balanced(t, catalog')
  <2> SUFFICES ASSUME t.dbErrors = 0 PROVE Balanced(t, catalog')
      OBVIOUS
  <2>1. Balanced(old, catalog) /\ old.seen \subseteq Ids
    BY <1>1, <1>2, Running DEF Accounted, Runs
  <2> QED
    BY <1>1, <1>2, <1>3, <1>4, <2>1 DEF Balanced
<1>6. Accounted(t, catalog')
  BY <1>2, <1>5, Running DEF Accounted, Runs
<1> QED
  BY <1>1, <1>2, <1>3, <1>6, Running, TaskKept

(* Progress is published, or the task fails on the way.                    *)
LEMMA CheckpointKeeps ==
    ASSUME IInv, NEW m \in Messages, Checkpoint(m)
    PROVE  IInv'
<1>1. task[m].pc = "checkpoint" /\ UNCHANGED <<request, message, catalog>>
  BY DEF Checkpoint
<1>2. CASE task' = [task EXCEPT ![m].pc = "scraping"] /\ row' = row
  <2> DEFINE t == [task[m] EXCEPT !.pc = "scraping"]
  <2>1. task' = [task EXCEPT ![m] = t]
    BY <1>2, Running DEF TaskType
  <2>2. /\ t \in TaskType /\ t.pc = "scraping" /\ t.seen = task[m].seen
        /\ t.buffer = task[m].buffer /\ t.writes = task[m].writes /\ t.aborted = task[m].aborted
        /\ t.totals = task[m].totals /\ t.dbErrors = task[m].dbErrors
    BY Running DEF TaskType
  <2> HIDE DEF t
  <2>3. Accounted(t, catalog)
    BY <1>1, <2>2, Running DEF Accounted, Runs, Balanced, BufferIds
  <2> QED
    BY <1>1, <1>2, <2>1, <2>2, <2>3, Running, TaskKept
<1>3. CASE task' = [task EXCEPT ![m] = Ended(@)] /\ row' = Marked(m, "failed")
  BY <1>1, <1>3, EndKeeps DEF Ended, Runs
<1> QED
  BY <1>2, <1>3 DEF Checkpoint

----
(* Every step keeps the invariant. *)
LEMMA NextIInv == IInv /\ [Next]_vars => IInv'
<1> SUFFICES ASSUME IInv, [Next]_vars PROVE IInv'
    OBVIOUS
<1>1. CASE (\E j \in Jobs : RequestStep(j)) \/ (\E m \in Resends : TriggerSchedule(m))
  BY <1>1, RequestKeeps DEF RequestStep
<1>2. ASSUME NEW m \in Messages, TaskStep(m) \/ FailTask(m) \/ Crash(m)
      PROVE  IInv'
  <2>1. CASE Start(m)
    BY <2>1, StartKeeps
  <2>2. CASE AdapterEnds(m) \/ \E result \in Results : Yield(m, result)
    BY <2>2, AdapterEndsKeeps, YieldKeeps
  <2>3. CASE LookUp(m) \/ Upsert(m) \/ UpsertFails(m) \/ CommitBatch(m) \/ Checkpoint(m)
    BY <2>3, LookUpKeeps, UpsertKeeps, UpsertFailsKeeps, CommitKeeps, CheckpointKeeps
  <2>4. CASE LookUpRaises(m) \/ CommitRaises(m) \/ Crash(m)
    BY <2>4, EndKeeps DEF LookUpRaises, CommitRaises, Crash, Ended, Runs
  <2>5. CASE FailTask(m) \/ Finish(m)
    BY <2>5, EndKeeps DEF FailTask, Finish, Ended, Runs
  <2> QED
    BY <1>2, <2>1, <2>2, <2>3, <2>4, <2>5 DEF TaskStep
<1>3. CASE UNCHANGED vars
  BY <1>3 DEF vars, IInv, Typed, AllAccounted
<1> QED
  BY <1>1, <1>2, <1>3 DEF Next

LEMMA Invariance == Spec => []IInv
BY InitIInv, NextIInv, PTL DEF Spec

(* A task that completed without a database error accounts for every       *)
(* result its adapter yielded, and all of them are in the catalog, however *)
(* often its job is run and whatever runs beside it.                       *)
THEOREM CompletedIsStored == Spec => []CompletedMeansStored
<1>1. IInv => CompletedMeansStored
  <2> SUFFICES ASSUME IInv, NEW m \in Messages, task[m].pc = "completed", task[m].dbErrors = 0
               PROVE  LET t == task[m].totals IN
                          /\ t.found = Cardinality(task[m].seen)
                          /\ t.found = t.created + t.updated + t.skipped
                          /\ task[m].seen \subseteq Stored
      BY DEF CompletedMeansStored
  <2>1. Delivered(task[m], catalog) /\ task[m].seen \subseteq Ids
    BY Running DEF Accounted
  <2> QED
    BY <2>1 DEF Delivered, Stored
<1> QED
  BY <1>1, Invariance, PTL

----
(* The results in a buffer are of different products, which the task has   *)
(* seen and has not written yet; what it has written, it has seen.         *)
Unwritten(t) ==
    /\ \A k, l \in DOMAIN t.buffer : t.buffer[k].id = t.buffer[l].id => k = l
    /\ \A e \in BufferIds(t) : e \in t.seen /\ t.writes[e] = NoItem
    /\ \A e \in Ids : t.writes[e] # NoItem => e \in t.seen
AllUnwritten == \A m \in Messages : Unwritten(task[m])

\* The lock of a row is one task's.
OneWriter ==
    \A m, k \in Messages : \A e \in Ids :
        m = k \/ task[m].writes[e] = NoItem \/ task[k].writes[e] = NoItem

(* The tasks whose totals count, or will when they complete; and what they *)
(* report as created can be dealt out to them: owner[e] is the task that   *)
(* has created e, in the catalog or in its open transaction.               *)
Counts(m) == task[m].dbErrors = 0 /\ (Runs(task[m]) \/ task[m].pc = "completed")
CreatedIn(t, stock, o) == {e \in Ids : o[e] /\ (stock[e] # NoItem \/ t.writes[e] # NoItem)}
Owned(owner, m) == [e \in Ids |-> owner[e] = m]
Dealt(owner) ==
    \A m \in Messages : Counts(m) =>
        task[m].totals.created <= Cardinality(CreatedIn(task[m], catalog, Owned(owner, m)))

CreatedInv ==
    /\ IInv /\ AllUnwritten /\ OneWriter
    /\ \E owner \in [Ids -> Messages \cup {NoItem}] : Dealt(owner)

LEMMA CreatedIsFinite ==
    ASSUME NEW t, NEW stock, NEW o
    PROVE  /\ IsFiniteSet(CreatedIn(t, stock, o))
           /\ Cardinality(CreatedIn(t, stock, o)) \in Nat
<1>1. CreatedIn(t, stock, o) \in SUBSET Ids
  BY DEF CreatedIn
<1> QED
  BY <1>1, ScrapeAssumption, FS_Subset, FS_CardinalityType

(* What was created stays so. *)
LEMMA CreatedGrows ==
    ASSUME NEW t, NEW u, NEW stock, NEW more, NEW o,
           \A e \in Ids : stock[e] # NoItem \/ t.writes[e] # NoItem
                              => more[e] # NoItem \/ u.writes[e] # NoItem
    PROVE  Cardinality(CreatedIn(t, stock, o)) <= Cardinality(CreatedIn(u, more, o))
<1>1. CreatedIn(t, stock, o) \in SUBSET CreatedIn(u, more, o)
  BY DEF CreatedIn
<1> QED
  BY <1>1, CreatedIsFinite, FS_Subset

(* A step of m that creates nothing keeps the shares of all. *)
LEMMA DealtKept ==
    ASSUME CreatedInv, NEW m \in Messages, NEW t \in TaskType, task' = [task EXCEPT ![m] = t],
           \A e \in Ids : catalog[e] # NoItem => catalog'[e] # NoItem,
           NEW owner, Dealt(owner),
           Counts(m)' =>
               \/ t.totals.created = 0
               \/ /\ Counts(m) /\ t.totals.created = task[m].totals.created
                  /\ \A e \in Ids : task[m].writes[e] # NoItem
                                        => catalog'[e] # NoItem \/ t.writes[e] # NoItem
    PROVE  Dealt(owner)'
<1>1. task \in [Messages -> TaskType]
  BY DEF CreatedInv, IInv, Typed
<1>2. \A k \in Messages : task'[k] = IF k = m THEN t ELSE task[k]
  BY <1>1
<1>3. ASSUME NEW k \in Messages, Counts(k)'
      PROVE  task'[k].totals.created <=
                Cardinality(CreatedIn(task'[k], catalog', Owned(owner, k)))
  <2> DEFINE before == CreatedIn(task[k], catalog, Owned(owner, k))
             after == CreatedIn(task'[k], catalog', Owned(owner, k))
  <2>0. Cardinality(before) \in Nat /\ Cardinality(after) \in Nat
        /\ task[k].totals.created \in Nat
    <3>1. task[k].totals.created \in Nat
      BY <1>1 DEF TaskType, Totals
    <3> QED
      BY <3>1, CreatedIsFinite
  <2>1. CASE k # m
    <3>1. Counts(k) /\ task'[k] = task[k]
      BY <1>2, <1>3, <2>1 DEF Counts
    <3>2. task[k].totals.created <= Cardinality(before)
      BY <3>1 DEF Dealt
    <3>3. Cardinality(before) <= Cardinality(after)
      BY <3>1, CreatedGrows
    <3> HIDE DEF before, after
    <3>4. task[k].totals.created <= Cardinality(after)
      BY <2>0, <3>2, <3>3
    <3> QED
      BY <3>1, <3>4 DEF after
  <2>2. CASE k = m /\ t.totals.created = 0
    <3>1. task'[k] = t
      BY <1>2, <2>2
    <3> QED
      BY <2>0, <2>2, <3>1
  <2>3. CASE k = m /\ t.totals.created # 0
    <3>1. task'[k] = t /\ Counts(m) /\ t.totals.created = task[k].totals.created
          /\ \A e \in Ids : catalog[e] # NoItem \/ task[k].writes[e] # NoItem
                               => catalog'[e] # NoItem \/ t.writes[e] # NoItem
      BY <1>2, <1>3, <2>3
    <3>2. task[k].totals.created <= Cardinality(before)
      BY <2>3, <3>1 DEF Dealt
    <3>3. Cardinality(before) <= Cardinality(after)
      BY <3>1, CreatedGrows
    <3> HIDE DEF before, after
    <3>4. t.totals.created <= Cardinality(after)
      BY <2>0, <3>1, <3>2, <3>3
    <3> QED
      BY <3>1, <3>4 DEF after
  <2> QED
    BY <2>1, <2>2, <2>3
<1> QED
  BY <1>3 DEF Dealt

LEMMA TallyKept ==
    ASSUME CreatedInv, IInv', NEW m \in Messages, NEW t \in TaskType,
           task' = [task EXCEPT ![m] = t],
           \A e \in Ids : catalog[e] # NoItem => catalog'[e] # NoItem,
           Unwritten(t),
           \A e \in Ids : t.writes[e] # NoItem
                              => \A k \in Messages \ {m} : task[k].writes[e] = NoItem,
           \E owner \in [Ids -> Messages \cup {NoItem}] : Dealt(owner)'
    PROVE  CreatedInv'
<1>1. task \in [Messages -> TaskType]
  BY DEF CreatedInv, IInv, Typed
<1>2. \A k \in Messages : task'[k] = IF k = m THEN t ELSE task[k]
  BY <1>1
<1>3. AllUnwritten'
  <2>1. \A k \in Messages : Unwritten(task'[k])
    BY <1>2 DEF CreatedInv, AllUnwritten
  <2> QED
    BY <2>1 DEF AllUnwritten
<1>4. OneWriter'
  BY <1>2 DEF CreatedInv, OneWriter
<1> QED
  BY <1>3, <1>4 DEF CreatedInv

(* A step of m that creates nothing.                                       *)
LEMMA QuietStep ==
    ASSUME CreatedInv, IInv', NEW m \in Messages, NEW t \in TaskType,
           task' = [task EXCEPT ![m] = t],
           \A e \in Ids : catalog[e] # NoItem => catalog'[e] # NoItem,
           Unwritten(t),
           \A e \in Ids : t.writes[e] # NoItem
                              => \A k \in Messages \ {m} : task[k].writes[e] = NoItem,
           Counts(m)' =>
               \/ t.totals.created = 0
               \/ /\ Counts(m) /\ t.totals.created = task[m].totals.created
                  /\ \A e \in Ids : task[m].writes[e] # NoItem
                                        => catalog'[e] # NoItem \/ t.writes[e] # NoItem
    PROVE  CreatedInv'
<1>1. PICK owner \in [Ids -> Messages \cup {NoItem}] : Dealt(owner)
  BY DEF CreatedInv
<1>2. Dealt(owner)'
  BY <1>1, DealtKept
<1>3. \E o \in [Ids -> Messages \cup {NoItem}] : Dealt(o)'
  BY <1>2
<1> QED
  BY <1>3, TallyKept

(* No job was asked for: nothing is created, and nothing dealt out.        *)
LEMMA InitCreatedInv == Init => CreatedInv
<1> SUFFICES ASSUME Init PROVE CreatedInv
    OBVIOUS
<1>1. task = [m \in Messages |-> NoTask]
  BY DEF Init
<1>2. \A e \in Ids : NoTask.writes[e] = NoItem
  BY NoTaskTyped DEF Nothing
<1>3. AllUnwritten
  BY <1>1, <1>2, NoTaskTyped DEF AllUnwritten, Unwritten, BufferIds
<1>4. OneWriter
  BY <1>1, <1>2 DEF OneWriter
<1>5. Dealt([e \in Ids |-> NoItem])
  BY <1>1, NoTaskTyped DEF Dealt, Counts, Runs
<1> QED
  BY <1>3, <1>4, <1>5, InitIInv DEF CreatedInv

(* A request touches no task.                                              *)
LEMMA RequestTally ==
    ASSUME CreatedInv, IInv', UNCHANGED <<task, catalog>>
    PROVE  CreatedInv'
<1>1. PICK owner \in [Ids -> Messages \cup {NoItem}] : Dealt(owner)
  BY DEF CreatedInv
<1>2. Dealt(owner)'
  BY <1>1 DEF Dealt, Counts
<1>3. AllUnwritten' /\ OneWriter'
  BY DEF CreatedInv, AllUnwritten, OneWriter
<1> QED
  BY <1>2, <1>3 DEF CreatedInv

\* What the invariant says of one task.
LEMMA TaskTally ==
    ASSUME CreatedInv, NEW m \in Messages
    PROVE  /\ IInv /\ Unwritten(task[m]) /\ task[m] \in TaskType /\ task[m].writes \in [Ids -> Contents]
           /\ task \in [Messages -> TaskType]
           /\ \A e \in Ids : task[m].writes[e] # NoItem
                  => \A k \in Messages \ {m} : task[k].writes[e] = NoItem
<1>1. IInv
  BY DEF CreatedInv
<1>2. task \in [Messages -> TaskType]
  BY <1>1 DEF IInv, Typed
<1> QED
  BY <1>1, <1>2, Running DEF CreatedInv, AllUnwritten, OneWriter

(* A task without a transaction and without a buffer.                      *)
LEMMA UnwrittenWhenEmpty ==
    ASSUME NEW t \in TaskType, t.buffer = <<>>, t.writes = Nothing
    PROVE  Unwritten(t) /\ \A e \in Ids : t.writes[e] = NoItem
BY DEF Unwritten, BufferIds, Nothing

(* A result leaves the buffer, and at most its row is written.             *)
LEMMA UnwrittenTail ==
    ASSUME NEW o \in TaskType, NEW t \in TaskType, Unwritten(o), o.buffer # <<>>,
           t.buffer = Tail(o.buffer), t.seen = o.seen,
           \A e \in Ids : t.writes[e] # NoItem
               => e = Head(o.buffer).id \/ o.writes[e] # NoItem
    PROVE  Unwritten(t) /\ o.writes[Head(o.buffer).id] = NoItem /\ Head(o.buffer).id \in o.seen
<1> DEFINE rest == Tail(o.buffer)
<1>1. o.buffer \in Seq(Results)
  BY DEF TaskType
<1>2. /\ Len(o.buffer) \in Nat /\ Len(o.buffer) > 0
      /\ Len(rest) = Len(o.buffer) - 1 /\ Head(o.buffer) = o.buffer[1]
      /\ DOMAIN o.buffer = 1 .. Len(o.buffer) /\ DOMAIN rest = 1 .. Len(rest)
      /\ \A k \in 1 .. Len(rest) : rest[k] = o.buffer[k + 1] /\ rest[k] \in Results
  BY <1>1
<1>3. 1 \in DOMAIN o.buffer
      /\ \A k \in DOMAIN rest : k + 1 \in DOMAIN o.buffer /\ rest[k] = o.buffer[k + 1]
                                 /\ k + 1 # 1 /\ k \in Int
  BY <1>2
<1> HIDE DEF rest
<1>4. Head(o.buffer).id \in BufferIds(o)
  BY <1>2, <1>3 DEF BufferIds
<1>5. \A k, l \in DOMAIN rest : rest[k].id = rest[l].id => k = l
  <2> SUFFICES ASSUME NEW k \in DOMAIN rest, NEW l \in DOMAIN rest, rest[k].id = rest[l].id
               PROVE  k = l
    OBVIOUS
  <2>1. k + 1 = l + 1
    BY <1>3 DEF Unwritten
  <2> QED
    BY <1>3, <2>1
<1>6. ASSUME NEW k \in DOMAIN rest
      PROVE  rest[k].id \in BufferIds(o) /\ rest[k].id # Head(o.buffer).id /\ rest[k].id \in Ids
  <2>1. k + 1 \in DOMAIN o.buffer /\ rest[k] = o.buffer[k + 1] /\ k + 1 # 1 /\ rest[k] \in Results
    BY <1>2, <1>3
  <2> QED
    BY <1>2, <1>3, <2>1 DEF BufferIds, Unwritten, Results
<1>7. t.buffer = rest
  BY DEF rest
<1>8. \A e \in BufferIds(t) : e \in t.seen /\ t.writes[e] = NoItem
  BY <1>6, <1>7 DEF BufferIds, Unwritten
<1>9. \A e \in Ids : t.writes[e] # NoItem => e \in t.seen
  BY <1>4 DEF Unwritten
<1> QED
  BY <1>4, <1>5, <1>7, <1>8, <1>9 DEF Unwritten

(* The task starts, with nothing created.                                  *)
LEMMA StartTally ==
    ASSUME CreatedInv, IInv', NEW m \in Messages, Start(m)
    PROVE  CreatedInv'
<1>1. PICK pc \in {"scraping", "ended"} : task' = [task EXCEPT ![m] = [NoTask EXCEPT !.pc = pc]]
  BY DEF Start
<1> DEFINE t == [NoTask EXCEPT !.pc = pc]
<1>2. /\ t \in TaskType /\ t.buffer = <<>> /\ t.writes = Nothing /\ t.totals.created = 0
  BY NoTaskTyped DEF TaskType
<1>3. catalog' = catalog
  BY DEF Start
<1>4. task' = [task EXCEPT ![m] = t]
  BY <1>1
<1> HIDE DEF t
<1>5. Unwritten(t) /\ \A e \in Ids : t.writes[e] = NoItem
  BY <1>2, UnwrittenWhenEmpty
<1> QED
  BY <1>2, <1>3, <1>4, <1>5, QuietStep

(* The task ends: what it reports, if it completes, was committed.         *)
LEMMA EndTally ==
    ASSUME CreatedInv, IInv', NEW m \in Messages, Runs(task[m]), NEW pc \in {"completed", "ended"},
           task' = [task EXCEPT ![m] = Closed(task[m], pc)], catalog' = catalog,
           pc = "completed" => task[m].pc = "finishing"
    PROVE  CreatedInv'
<1> DEFINE t == Closed(task[m], pc)
<1>1. /\ t \in TaskType /\ t.pc = pc /\ t.writes = Nothing /\ t.buffer = <<>>
      /\ t.totals = task[m].totals /\ t.dbErrors = task[m].dbErrors
  <2>1. Nothing \in [Ids -> Contents] /\ <<>> \in Seq(Results)
    BY DEF Nothing, Contents
  <2> QED
    BY <2>1, TaskTally DEF Closed, FreshTransaction, TaskType
<1>2. task' = [task EXCEPT ![m] = t]
  OBVIOUS
<1> HIDE DEF t
<1>3. Unwritten(t) /\ \A e \in Ids : t.writes[e] = NoItem
  BY <1>1, UnwrittenWhenEmpty
<1>4. ASSUME Counts(m)'
      PROVE  Counts(m) /\ \A e \in Ids : task[m].writes[e] = NoItem
  <2>1. task'[m] = t
    BY <1>2, TaskTally
  <2>2. task[m].dbErrors = 0 /\ task[m].pc = "finishing"
    BY <1>1, <1>4, <2>1 DEF Counts, Runs
  <2>3. task[m].writes = Nothing
    BY <2>2, TaskTally, Running DEF Accounted
  <2> QED
    BY <2>2, <2>3 DEF Counts, Runs, Nothing
<1> QED
  BY <1>1, <1>2, <1>3, <1>4, QuietStep

(* A result is buffered: of a product the task has not seen.               *)
LEMMA YieldTally ==
    ASSUME CreatedInv, IInv', NEW m \in Messages, NEW result \in Results, Yield(m, result)
    PROVE  CreatedInv'
<1> DEFINE filled == Append(task[m].buffer, result)
           t == [task[m] EXCEPT !.seen = @ \cup {result.id}, !.buffer = filled,
                                !.pc = IF BatchFull(filled) THEN "lookup" ELSE @]
<1>1. /\ task[m].pc = "scraping" /\ result.id \notin task[m].seen
      /\ catalog' = catalog
  BY DEF Yield
<1>2. result.id \in Ids /\ filled \in Seq(Results)
  <2>1. result.id \in Ids
    BY DEF Results
  <2>2. filled \in Seq(Results)
    BY TaskTally DEF TaskType
  <2> QED
    BY <2>1, <2>2
<1>3. task' = [task EXCEPT ![m] = t]
  BY TaskTally DEF Yield, TaskType
<1>4. /\ t \in TaskType /\ t.pc \in {"scraping", "lookup"}
      /\ t.seen = task[m].seen \cup {result.id} /\ t.buffer = filled
      /\ t.writes = task[m].writes /\ t.totals = task[m].totals
      /\ t.dbErrors = task[m].dbErrors
  BY <1>1, <1>2, TaskTally DEF TaskType
<1> DEFINE n == Len(task[m].buffer)
<1>5. /\ n \in Nat /\ DOMAIN filled = 1 .. (n + 1) /\ DOMAIN task[m].buffer = 1 .. n
      /\ filled[n + 1] = result /\ \A k \in 1 .. n : filled[k] = task[m].buffer[k]
  BY TaskTally DEF TaskType
<1> HIDE DEF filled, t, n
<1>6. \A k \in DOMAIN filled :
         (k = n + 1 /\ filled[k] = result)
           \/ (k \in DOMAIN task[m].buffer /\ filled[k] = task[m].buffer[k])
  BY <1>5
<1>7. Unwritten(task[m])
  BY TaskTally
<1>8. \A k \in DOMAIN task[m].buffer : task[m].buffer[k].id \in task[m].seen
  BY <1>7 DEF Unwritten, BufferIds
<1>9. \A k, l \in DOMAIN filled : filled[k].id = filled[l].id => k = l
  BY <1>1, <1>6, <1>7, <1>8 DEF Unwritten
<1>10. task[m].writes[result.id] = NoItem
  BY <1>1, <1>2, <1>7 DEF Unwritten
<1>11. \A e \in BufferIds(t) : e = result.id \/ e \in BufferIds(task[m])
  BY <1>4, <1>6 DEF BufferIds
<1>12. Unwritten(t)
  <2>1. \A e \in BufferIds(t) : e \in t.seen /\ t.writes[e] = NoItem
    BY <1>4, <1>7, <1>10, <1>11 DEF Unwritten
  <2>2. \A e \in Ids : t.writes[e] # NoItem => e \in t.seen
    BY <1>4, <1>7 DEF Unwritten
  <2> QED
    BY <1>4, <1>9, <2>1, <2>2 DEF Unwritten
<1>13. Counts(m)' => Counts(m)
  BY <1>1, <1>3, <1>4, TaskTally DEF Counts, Runs
<1>14. \A e \in Ids : t.writes[e] # NoItem
                          => \A k \in Messages \ {m} : task[k].writes[e] = NoItem
  BY <1>4, TaskTally
<1> QED
  BY <1>1, <1>3, <1>4, <1>12, <1>13, <1>14, QuietStep

(* A step within the task that neither writes nor buffers anything.        *)
LEMMA StayTally ==
    ASSUME CreatedInv, IInv', NEW m \in Messages, NEW t \in TaskType,
           task' = [task EXCEPT ![m] = t], catalog' = catalog,
           Runs(task[m]), t.seen = task[m].seen,
           t.buffer = task[m].buffer \/ (task[m].buffer # <<>> /\ t.buffer = Tail(task[m].buffer)),
           t.writes = task[m].writes, t.dbErrors = task[m].dbErrors,
           t.totals.created = task[m].totals.created
    PROVE  CreatedInv'
<1>1. Unwritten(task[m]) /\ task[m] \in TaskType
  BY TaskTally
<1>2. Counts(m)' => Counts(m)
  BY TaskTally DEF Counts, Runs
<1>3. \A e \in Ids : t.writes[e] # NoItem
                         => \A k \in Messages \ {m} : task[k].writes[e] = NoItem
  BY TaskTally
<1>4. CASE t.buffer = task[m].buffer
  <2>1. Unwritten(t)
    BY <1>1, <1>4 DEF Unwritten, BufferIds
  <2> QED
    BY <1>2, <1>3, <2>1, QuietStep
<1>5. CASE task[m].buffer # <<>> /\ t.buffer = Tail(task[m].buffer)
  <2>1. Unwritten(t)
    BY <1>1, <1>5, UnwrittenTail
  <2> QED
    BY <1>2, <1>3, <2>1, QuietStep
<1> QED
  BY <1>4, <1>5

(* The lookup goes on to the upsert, or skips what is on file.             *)
LEMMA LookUpTally ==
    ASSUME CreatedInv, IInv', NEW m \in Messages, LookUp(m)
    PROVE  CreatedInv'
<1> DEFINE old == task[m]
           result == Head(old.buffer)
           sum == [old.totals EXCEPT !.found = @ + 1, !.skipped = @ + 1]
<1>1. /\ old.pc = "lookup" /\ old.buffer # <<>> /\ catalog' = catalog
      /\ old \in TaskType
  BY TaskTally DEF LookUp
<1>2. CASE Visible(m, result.id) = result.version
  <2> DEFINE t == [old EXCEPT !.buffer = Tail(@), !.totals = sum]
  <2>1. task' = [task EXCEPT ![m] = t]
    <3>1. task' = [task EXCEPT ![m] = [old EXCEPT !.buffer = Tail(@), !.totals.found = @ + 1,
                                                  !.totals.skipped = @ + 1]]
      BY <1>2 DEF LookUp
    <3> QED
      BY <1>1, <3>1, SkipCounted
  <2>2. sum \in Totals /\ sum.created = old.totals.created
    BY <1>1, SkipCounted
  <2>3. Tail(old.buffer) \in Seq(Results)
    BY <1>1, BufferSplit DEF TaskType
  <2> HIDE DEF sum
  <2>4. /\ t \in TaskType /\ t.seen = old.seen /\ t.writes = old.writes
        /\ t.buffer = Tail(old.buffer) /\ t.dbErrors = old.dbErrors
        /\ t.totals.created = old.totals.created
    BY <1>1, <2>2, <2>3 DEF TaskType
  <2> HIDE DEF t
  <2> QED
    BY <1>1, <2>1, <2>4, StayTally DEF Runs
<1>3. CASE Visible(m, result.id) # result.version
  <2> DEFINE t == [old EXCEPT !.pc = "upsert"]
  <2>1. task' = [task EXCEPT ![m] = t]
    BY <1>3, TaskTally DEF LookUp, TaskType
  <2>2. /\ t \in TaskType /\ t.seen = old.seen /\ t.writes = old.writes
        /\ t.buffer = old.buffer /\ t.dbErrors = old.dbErrors /\ t.totals = old.totals
    BY <1>1 DEF TaskType
  <2> HIDE DEF t
  <2> QED
    BY <1>1, <2>1, <2>2, StayTally DEF Runs
<1> QED
  BY <1>2, <1>3

(* The adapter has no more results; the progress is published.             *)
LEMMA AdapterEndsTally ==
    ASSUME CreatedInv, IInv', NEW m \in Messages, AdapterEnds(m)
    PROVE  CreatedInv'
<1> DEFINE t == [task[m] EXCEPT !.exhausted = TRUE, !.pc = AfterAdapter(task[m])]
<1>1. task[m].pc = "scraping" /\ catalog' = catalog
  BY DEF AdapterEnds
<1>2. task' = [task EXCEPT ![m] = t]
  BY TaskTally DEF AdapterEnds, TaskType
<1>3. /\ t \in TaskType /\ t.seen = task[m].seen /\ t.buffer = task[m].buffer
      /\ t.writes = task[m].writes /\ t.totals = task[m].totals
      /\ t.dbErrors = task[m].dbErrors
  BY TaskTally DEF TaskType, AfterAdapter
<1> HIDE DEF t
<1> QED
  BY <1>1, <1>2, <1>3, StayTally DEF Runs

LEMMA CheckpointTally ==
    ASSUME CreatedInv, IInv', NEW m \in Messages, Checkpoint(m)
    PROVE  CreatedInv'
<1>1. task[m].pc = "checkpoint" /\ catalog' = catalog
  BY DEF Checkpoint
<1>2. CASE task' = [task EXCEPT ![m].pc = "scraping"]
  <2> DEFINE t == [task[m] EXCEPT !.pc = "scraping"]
  <2>1. task' = [task EXCEPT ![m] = t]
    BY <1>2, TaskTally DEF TaskType
  <2>2. /\ t \in TaskType /\ t.seen = task[m].seen /\ t.buffer = task[m].buffer
        /\ t.writes = task[m].writes /\ t.totals = task[m].totals
        /\ t.dbErrors = task[m].dbErrors
    BY TaskTally DEF TaskType
  <2> HIDE DEF t
  <2> QED
    BY <1>1, <1>2, <2>1, <2>2, StayTally DEF Runs
<1>3. CASE task' = [task EXCEPT ![m] = Ended(@)]
  BY <1>1, <1>3, EndTally DEF Ended, Runs
<1> QED
  BY <1>2, <1>3 DEF Checkpoint

(* A task that had a statement refused reports nothing that counts.        *)
LEMMA UpsertFailsTally ==
    ASSUME CreatedInv, IInv', NEW m \in Messages, UpsertFails(m)
    PROVE  CreatedInv'
<1> DEFINE old == task[m]
           sum == [old.totals EXCEPT !.found = @ + 1]
           t == [old EXCEPT !.pc = "lookup", !.buffer = Tail(@), !.writes = Nothing,
                            !.aborted = TRUE, !.totals = sum, !.dbErrors = @ + 1]
<1>1. /\ old.pc = "upsert" /\ old.buffer # <<>> /\ catalog' = catalog
      /\ old \in TaskType /\ Unwritten(old)
  BY TaskTally, Running DEF UpsertFails, Accounted
<1>2. Tail(old.buffer) \in Seq(Results) /\ Nothing \in [Ids -> Contents]
  BY <1>1, BufferSplit DEF Nothing, Contents, TaskType
<1>3. task' = [task EXCEPT ![m] = t]
  BY TaskTally DEF UpsertFails, TaskType, Totals
<1>4. sum \in Totals /\ old.dbErrors + 1 \in Nat /\ old.dbErrors + 1 # 0
  BY <1>1, RefusedCounted DEF TaskType
<1> HIDE DEF sum, old
<1>5. /\ t \in TaskType /\ t.seen = old.seen /\ t.writes = Nothing
      /\ t.buffer = Tail(old.buffer) /\ t.dbErrors = old.dbErrors + 1
  BY <1>1, <1>2, <1>4 DEF TaskType
<1> HIDE DEF t
<1>6. \A e \in Ids : t.writes[e] = NoItem
  BY <1>5 DEF Nothing
<1>7. Unwritten(t)
  BY <1>1, <1>5, <1>6, UnwrittenTail
<1>8. ~Counts(m)'
  BY <1>3, <1>4, <1>5, TaskTally DEF Counts, Runs
<1> QED
  BY <1>1, <1>3, <1>5, <1>6, <1>7, <1>8, QuietStep

(* A commit moves what the task has created into the catalog.              *)
LEMMA CommitTally ==
    ASSUME CreatedInv, IInv', NEW m \in Messages, CommitBatch(m)
    PROVE  CreatedInv'
<1> DEFINE old == task[m]
           t == [FreshTransaction(old) EXCEPT !.pc = NextStage(old)]
<1>1. /\ old.pc = "lookup" /\ old.buffer = <<>> 
      /\ catalog' = [e \in Ids |-> Visible(m, e)]
      /\ task' = [task EXCEPT ![m] = t]
  BY DEF CommitBatch
<1>2. /\ t \in TaskType /\ t.buffer = <<>> /\ t.writes = Nothing
      /\ t.totals = old.totals /\ t.dbErrors = old.dbErrors
  <2>1. Nothing \in [Ids -> Contents]
    BY DEF Nothing, Contents
  <2> QED
    BY <1>1, <2>1, TaskTally DEF FreshTransaction, NextStage, TaskType
<1> HIDE DEF t
<1>3. \A e \in Ids : catalog[e] # NoItem \/ old.writes[e] # NoItem => catalog'[e] # NoItem
  BY <1>1, TaskTally DEF Visible
<1>4. Unwritten(t) /\ \A e \in Ids : t.writes[e] = NoItem
  BY <1>2, UnwrittenWhenEmpty
<1>5. Counts(m)' => Counts(m)
  BY <1>1, <1>2, TaskTally DEF Counts, Runs
<1> QED
  BY <1>1, <1>2, <1>3, <1>4, <1>5, QuietStep

(* The item that an upsert creates was no one's: neither in the catalog    *)
(* nor in an open transaction.  From now on it is the share of m.          *)
LEMMA CreationIsDealt ==
    ASSUME CreatedInv, NEW m \in Messages, NEW t \in TaskType, task' = [task EXCEPT ![m] = t],
           catalog' = catalog, Runs(task[m]),
           t.dbErrors = task[m].dbErrors, t.totals.created = task[m].totals.created + 1,
           NEW e \in Ids, catalog[e] = NoItem, \A k \in Messages : task[k].writes[e] = NoItem,
           t.writes[e] # NoItem, \A d \in Ids : task[m].writes[d] # NoItem => t.writes[d] # NoItem,
           NEW owner \in [Ids -> Messages \cup {NoItem}], Dealt(owner)
    PROVE  Dealt([owner EXCEPT ![e] = m])'
<1> DEFINE new == [owner EXCEPT ![e] = m]
<1>1. \A k \in Messages : task'[k] = IF k = m THEN t ELSE task[k]
  BY TaskTally
<1>2. ASSUME NEW k \in Messages, Counts(k)'
      PROVE  task'[k].totals.created <= Cardinality(CreatedIn(task'[k], catalog', Owned(new, k)))
  <2> DEFINE before == CreatedIn(task[k], catalog, Owned(owner, k))
             after == CreatedIn(task'[k], catalog', Owned(new, k))
  <2>1. /\ task[k].totals.created \in Nat
        /\ IsFiniteSet(before) /\ Cardinality(before) \in Nat
        /\ IsFiniteSet(after) /\ Cardinality(after) \in Nat
    <3>1. task[k].totals.created \in Nat
      BY TaskTally DEF TaskType, Totals
    <3> QED
      BY <3>1, CreatedIsFinite
  <2>2. Counts(k)
    BY <1>1, <1>2, TaskTally DEF Counts, Runs
  <2>3. task[k].totals.created <= Cardinality(before)
    BY <2>2 DEF Dealt
  <2>4. e \notin before
    BY DEF CreatedIn
  <2>5. \A d \in Ids : d # e => new[d] = owner[d]
    OBVIOUS
  <2>6. before \subseteq after
    BY <1>1, <2>4, <2>5 DEF CreatedIn, Owned
  <2>7. CASE k = m
    <3>1. e \in after
      BY <1>1, <2>7 DEF CreatedIn, Owned
    <3>2. before \cup {e} \in SUBSET after
      BY <2>6, <3>1
    <3>3. IsFiniteSet(before \cup {e}) /\ Cardinality(before \cup {e}) = Cardinality(before) + 1
      BY <2>1, <2>4, FS_AddElement
    <3>4. Cardinality(before \cup {e}) <= Cardinality(after)
      BY <2>1, <3>2, FS_Subset
    <3>5. task'[k].totals.created = task[k].totals.created + 1
      BY <1>1, <2>7
    <3> HIDE DEF before, after
    <3>6. task'[k].totals.created <= Cardinality(after)
      BY <2>1, <2>3, <3>3, <3>4, <3>5
    <3> QED
      BY <3>6 DEF after
  <2>8. CASE k # m
    <3>1. Cardinality(before) <= Cardinality(after)
      BY <2>1, <2>6, FS_Subset
    <3>2. task'[k] = task[k]
      BY <1>1, <2>8
    <3> HIDE DEF before, after
    <3>3. task'[k].totals.created <= Cardinality(after)
      BY <2>1, <2>3, <3>1, <3>2
    <3> QED
      BY <3>3 DEF after
  <2> QED
    BY <2>7, <2>8
<1> QED
  BY <1>2 DEF Dealt

(* An upsert takes the lock of its row, and creates the item or updates it. *)
LEMMA UpsertTally ==
    ASSUME CreatedInv, IInv', NEW m \in Messages, Upsert(m)
    PROVE  CreatedInv'
<1> DEFINE old == task[m]
           created == catalog[Head(old.buffer).id] = NoItem
<1>1. /\ old.pc = "upsert" /\ old.buffer # <<>> /\ catalog' = catalog
      /\ old \in TaskType /\ Unwritten(old)
  BY TaskTally, Running DEF Upsert, Accounted
<1>2. PICK hasTags \in Categorised(created) :
        task' = [task EXCEPT ![m] = Upserted(task[m], created, hasTags)]
  BY DEF Upsert
<1>3. hasTags \in BOOLEAN /\ created \in BOOLEAN
  BY DEF Categorised, Suggested
<1> DEFINE t == Upserted(old, created, hasTags)
<1> HIDE DEF created
<1>4. PICK e \in Ids : e = Head(old.buffer).id
  <2>1. old.buffer \in Seq(Results)
    BY <1>1 DEF TaskType
  <2> QED
    BY <1>1, <2>1, BufferSplit DEF Results
<1>5. /\ t \in TaskType /\ t.seen = old.seen
      /\ t.buffer = Tail(old.buffer) /\ t.dbErrors = old.dbErrors
      /\ t.writes[e] # NoItem
      /\ \A d \in Ids : old.writes[d] # NoItem => t.writes[d] # NoItem
  BY <1>1, <1>3, <1>4, UpsertCounted
<1>6. /\ \A d \in Ids : t.writes[d] # NoItem => d = e \/ old.writes[d] # NoItem
      /\ created => t.totals.created = old.totals.created + 1
      /\ ~created => t.totals.created = old.totals.created
  BY <1>1, <1>3, <1>4, UpsertCreates
<1>7. task' = [task EXCEPT ![m] = t]
  BY <1>2
<1> HIDE DEF t
<1>8. Unwritten(t) /\ old.writes[e] = NoItem
  BY <1>1, <1>4, <1>5, <1>6, UnwrittenTail
<1>9. \A k \in Messages \ {m} : task[k].writes[e] = NoItem
  BY <1>4 DEF Upsert, FreeToUpsert, WrittenByOther
<1>10. \A d \in Ids : t.writes[d] # NoItem => \A k \in Messages \ {m} : task[k].writes[d] = NoItem
  BY <1>6, <1>9, TaskTally
<1>11. CASE ~created
  <2>1. Counts(m)' => Counts(m)
    BY <1>1, <1>5, <1>7, TaskTally DEF Counts, Runs
  <2>2. t.totals.created = old.totals.created
    BY <1>6, <1>11
  <2> QED
    BY <1>1, <1>5, <1>7, <1>8, <1>10, <2>1, <2>2, QuietStep
<1>12. CASE created
  <2>1. PICK owner \in [Ids -> Messages \cup {NoItem}] : Dealt(owner)
    BY DEF CreatedInv
  <2>2. \A k \in Messages : task[k].writes[e] = NoItem
    BY <1>8, <1>9
  <2>3. t.totals.created = old.totals.created + 1
    BY <1>6, <1>12
  <2>4. Dealt([owner EXCEPT ![e] = m])'
    <3>1. catalog[e] = NoItem
      BY <1>4, <1>12 DEF created
    <3> QED
      BY <1>1, <1>5, <1>7, <3>1, <2>1, <2>2, <2>3, CreationIsDealt DEF Runs
  <2>5. [owner EXCEPT ![e] = m] \in [Ids -> Messages \cup {NoItem}]
    BY <1>4
  <2>6. \E o \in [Ids -> Messages \cup {NoItem}] : Dealt(o)'
    BY <2>4, <2>5
  <2> QED
    BY <1>1, <1>5, <1>7, <1>8, <1>10, <2>6, TallyKept
<1> QED
  BY <1>11, <1>12

----
LEMMA CreatedInvKept == CreatedInv /\ [Next]_vars => CreatedInv'
<1> SUFFICES ASSUME CreatedInv, [Next]_vars PROVE CreatedInv'
    OBVIOUS
<1>1. IInv'
  BY NextIInv DEF CreatedInv
<1>2. CASE (\E j \in Jobs : RequestStep(j)) \/ (\E m \in Resends : TriggerSchedule(m))
  <2>1. UNCHANGED <<task, catalog>>
    BY <1>2 DEF RequestStep, TriggerSite, Dispatch, EndRequest, TriggerSchedule
  <2> QED
    BY <1>1, <2>1, RequestTally
<1>3. ASSUME NEW m \in Messages, TaskStep(m) \/ FailTask(m) \/ Crash(m)
      PROVE  CreatedInv'
  <2>1. CASE Start(m)
    BY <1>1, <2>1, StartTally
  <2>2. CASE AdapterEnds(m) \/ \E result \in Results : Yield(m, result)
    BY <1>1, <2>2, AdapterEndsTally, YieldTally
  <2>3. CASE LookUp(m) \/ Upsert(m) \/ UpsertFails(m) \/ CommitBatch(m) \/ Checkpoint(m)
    BY <1>1, <2>3, LookUpTally, UpsertTally, UpsertFailsTally, CommitTally, CheckpointTally
  <2>4. CASE LookUpRaises(m) \/ CommitRaises(m) \/ Crash(m)
    BY <1>1, <2>4, EndTally DEF LookUpRaises, CommitRaises, Crash, Ended, Runs
  <2>5. CASE FailTask(m) \/ Finish(m)
    BY <1>1, <2>5, EndTally DEF FailTask, Finish, Ended, Runs
  <2> QED
    BY <1>3, <2>1, <2>2, <2>3, <2>4, <2>5 DEF TaskStep
<1>4. CASE UNCHANGED vars
  BY <1>1, <1>4, RequestTally DEF vars
<1> QED
  BY <1>2, <1>3, <1>4 DEF Next

LEMMA CreatedInvHolds == Spec => []CreatedInv
BY InitCreatedInv, CreatedInvKept, PTL DEF Spec

(* Tasks that race for the same new products do not report more of them as *)
(* created, over all tasks that completed without a database error, than   *)
(* there are rows in the catalog.                                          *)
THEOREM NoneCreatedTwice == Spec => []CreatedOnce
<1>1. CreatedInv => CreatedOnce
  <2> SUFFICES ASSUME CreatedInv PROVE CreatedOnce
    OBVIOUS
  <2> DEFINE D == {m \in Messages : task[m].pc = "completed" /\ task[m].dbErrors = 0}
             w == [m \in Messages |-> task[m].totals.created]
  <2>1. PICK owner \in [Ids -> Messages \cup {NoItem}] : Dealt(owner)
    BY DEF CreatedInv
  <2>2. IsFiniteSet(D) /\ D \in SUBSET Messages
    BY ScrapeAssumption, FS_Union, FS_Subset DEF Messages
  <2>3. Stored \in SUBSET Ids
    BY DEF Stored
  <2>4. IsFiniteSet(Stored) /\ Cardinality(Stored) \in Nat
    BY <2>3, ScrapeAssumption, FS_Subset, FS_CardinalityType
  <2>5. w \in [Messages -> Int]
    BY TaskTally DEF TaskType, Totals
  <2>6. ASSUME NEW m \in D
        PROVE  w[m] <= Cardinality({e \in Stored : owner[e] = m})
    <3>1. Counts(m) /\ task[m].pc = "completed"
      BY TaskTally DEF Counts, Runs
    <3>2. task[m].writes = Nothing
      BY <3>1, TaskTally, Running DEF Accounted
    <3>3. CreatedIn(task[m], catalog, Owned(owner, m)) = {e \in Stored : owner[e] = m}
      BY <3>2 DEF CreatedIn, Owned, Stored, Nothing
    <3> QED
      BY <2>1, <3>1, <3>3 DEF Dealt
  <2> HIDE DEF D, w
  <2>7. SumOf(w, D) <= Cardinality({e \in Stored : owner[e] \in D})
    BY <2>2, <2>4, <2>5, <2>6, SumOfParts
  <2>8. {e \in Stored : owner[e] \in D} \in SUBSET Stored
    OBVIOUS
  <2>9. Cardinality({e \in Stored : owner[e] \in D}) <= Cardinality(Stored)
        /\ Cardinality({e \in Stored : owner[e] \in D}) \in Nat
    BY <2>4, <2>8, FS_Subset, FS_CardinalityType
  <2>10. SumOf(w, D) \in Int
    BY <2>2, <2>5, SumType
  <2>11. SumOf(w, D) <= Cardinality(Stored)
    BY <2>4, <2>7, <2>9, <2>10
  <2>12. CreatedBy(D) = SumOf(w, D)
    BY DEF CreatedBy, SumOf, w
  <2> QED
    BY <2>11, <2>12 DEF CreatedOnce, D
<1> QED
  BY <1>1, CreatedInvHolds, PTL

----
(* Crawls, for any site, any number of pages and any length of them.       *)

Adapters == {"generic_html", "etsy", "amazon"}
Anchors == UNION {ToSet(l) : l \in Listings}
Urls == {Canonical(a, h) : a \in Adapters, h \in Anchors \ {BadHref}}
Products == UNION {Parses(a, u) : a \in Adapters, u \in Urls}

CrawlTypeOK ==
    crawl \in [pc : {"idle", "page", "links", "item", "yielding", "ended", "closed"},
               adapter : Adapters, page : Nat, pages : Nat, links : Seq(Anchors),
               seen : SUBSET Urls, url : Urls \cup {BadHref}, yielded : Seq(Products),
               tried : SUBSET Urls, again : BOOLEAN, offered : SUBSET Urls]

\* What the page at hand still offers.
Pending == {Canonical(crawl.adapter, h) : h \in Usable(crawl.links)}

(* Remembering a url and trying it come together, with the item between    *)
(* them; nothing is offered but what is remembered or still pending; and   *)
(* a page is fetched only when the links of the last one are used up.      *)
Remembered ==
    /\ crawl.pc \notin {"item", "closed"} => crawl.seen = crawl.tried
    /\ crawl.pc = "item" => /\ crawl.url \notin crawl.tried
                            /\ crawl.seen = crawl.tried \cup {crawl.url}
    /\ crawl.offered = crawl.seen \cup Pending
    /\ crawl.pc \in {"idle", "page", "ended"} => crawl.links = <<>>

YieldedWereTried == \A k \in DOMAIN crawl.yielded : crawl.yielded[k].url \in crawl.tried

CrawlInv == /\ CrawlTypeOK /\ Remembered /\ YieldedWereTried
        /\ ~crawl.again /\ IsInjective(crawl.yielded)

----
(* The links of a page are its first link and the others. *)
LEMMA UsableSplit ==
    ASSUME NEW S, NEW links \in Seq(S), links # <<>>
    PROVE  Usable(links) = Usable(Tail(links)) \cup ({Head(links)} \ {BadHref})
<1> DEFINE rest == Tail(links)
<1>1. /\ rest \in Seq(S) /\ Len(links) \in Nat /\ Len(links) > 0
      /\ Len(rest) = Len(links) - 1 /\ Head(links) = links[1]
      /\ DOMAIN links = 1 .. Len(links) /\ DOMAIN rest = 1 .. Len(rest)
      /\ \A k \in 1 .. Len(rest) : rest[k] = links[k + 1]
  OBVIOUS
<1>2. ASSUME NEW k \in DOMAIN links
      PROVE  k = 1 \/ (k - 1 \in DOMAIN rest /\ links[k] = rest[k - 1])
  BY <1>1
<1>3. ASSUME NEW k \in DOMAIN rest
      PROVE  k + 1 \in DOMAIN links /\ links[k + 1] = rest[k]
  BY <1>1
<1>4. 1 \in DOMAIN links
  BY <1>1
<1> HIDE DEF rest
<1>5. Usable(links) \subseteq Usable(rest) \cup ({links[1]} \ {BadHref})
  BY <1>2 DEF Usable
<1>6. Usable(rest) \cup ({links[1]} \ {BadHref}) \subseteq Usable(links)
  BY <1>3, <1>4 DEF Usable
<1> QED
  BY <1>1, <1>5, <1>6 DEF rest

(* A page of the site offers hrefs that are among the anchors.             *)
LEMMA PageIsTyped ==
    ASSUME NEW links \in Listings
    PROVE  links \in Seq(Anchors) /\ Usable(links) \subseteq Anchors \ {BadHref}
<1>1. ToSet(links) \subseteq Anchors
  BY DEF Anchors
<1>2. links \in Seq(ToSet(links))
  BY CrawlAssumption
<1>3. links \in Seq(Anchors)
  BY <1>1, <1>2
<1> QED
  BY <1>1, <1>3 DEF Usable, ToSet

(* A result of the parser is None or the item of the url it was fetched    *)
(* from.                                                                   *)
LEMMA ParsedUrl ==
    ASSUME NEW a \in Adapters, NEW u \in Urls, NEW item \in Parses(a, u), item # None
    PROVE  item \in Products /\ item.url = u
<1>1. item = [id |-> ExternalId(a, u), url |-> u]
  BY DEF Parses
<1>2. item \in Products
  BY DEF Products
<1> QED
  BY <1>1, <1>2

(* A result that differs from those before keeps them apart.               *)
LEMMA InjectiveAppend ==
    ASSUME NEW S, NEW s \in Seq(S), NEW e \in S, IsInjective(s),
           \A k \in DOMAIN s : s[k] # e
    PROVE  IsInjective(Append(s, e))
<1>1. /\ DOMAIN s = 1 .. Len(s) /\ Len(s) \in Nat
      /\ DOMAIN Append(s, e) = 1 .. (Len(s) + 1)
      /\ Append(s, e)[Len(s) + 1] = e
      /\ \A k \in 1 .. Len(s) : Append(s, e)[k] = s[k]
  OBVIOUS
<1>2. ASSUME NEW j \in DOMAIN Append(s, e), NEW k \in DOMAIN Append(s, e),
             Append(s, e)[j] = Append(s, e)[k]
      PROVE  j = k
  <2>1. CASE j = Len(s) + 1 /\ k = Len(s) + 1
    BY <2>1
  <2>2. CASE j # Len(s) + 1 /\ k # Len(s) + 1
    BY <1>1, <1>2, <2>2 DEF IsInjective
  <2>3. CASE (j = Len(s) + 1) # (k = Len(s) + 1)
    BY <1>1, <1>2, <2>3
  <2> QED
    BY <2>1, <2>2, <2>3
<1> QED
  BY <1>2 DEF IsInjective

----
(* Nothing has been fetched.                                               *)
LEMMA InitCrawlInv == CrawlInit => CrawlInv
<1> SUFFICES ASSUME CrawlInit PROVE CrawlInv
    OBVIOUS
<1>1. Usable(<<>>) = {} /\ <<>> \in Seq(Anchors) /\ <<>> \in Seq(Products)
  BY DEF Usable
<1>2. CrawlTypeOK
  BY <1>1 DEF CrawlInit, Fresh, CrawlTypeOK, Adapters
<1>3. Remembered
  BY <1>1 DEF CrawlInit, Fresh, Remembered, Pending
<1>4. YieldedWereTried /\ ~crawl.again /\ IsInjective(crawl.yielded)
  BY DEF CrawlInit, Fresh, YieldedWereTried, IsInjective
<1> QED
  BY <1>2, <1>3, <1>4 DEF CrawlInv

(* A crawl begins with nothing remembered, and ends at once for the stub.  *)
LEMMA StartCrawlKeeps ==
    ASSUME CrawlInv, NEW a \in Adapters, NEW n \in 0 .. MaxPages, StartCrawl(a, n)
    PROVE  CrawlInv'
<1>1. /\ Usable(<<>>) = {} /\ <<>> \in Seq(Anchors) /\ <<>> \in Seq(Products)
      /\ n \in Nat
  BY CrawlAssumption DEF Usable
<1>2. crawl' = [pc |-> IF a = "amazon" THEN "ended" ELSE "page", adapter |-> a, page |-> 1,
                pages |-> n, links |-> <<>>, seen |-> {}, url |-> BadHref, yielded |-> <<>>,
                tried |-> {}, again |-> FALSE, offered |-> {}]
  BY DEF StartCrawl, Fresh
<1>3. CrawlTypeOK'
  BY <1>1, <1>2 DEF CrawlTypeOK
<1>4. Remembered'
  BY <1>1, <1>2 DEF Remembered, Pending
<1>5. YieldedWereTried' /\ ~crawl'.again /\ IsInjective(crawl'.yielded)
  BY <1>2 DEF YieldedWereTried, IsInjective
<1> QED
  BY <1>3, <1>4, <1>5 DEF CrawlInv

(* The hrefs of a page that was fetched are pending, and count as offered. *)
LEMMA FetchKeeps ==
    ASSUME CrawlInv, FetchPage
    PROVE  CrawlInv'
<1>1. crawl.pc = "page" /\ crawl.seen = crawl.tried /\ crawl.links = <<>>
  BY DEF FetchPage, CrawlInv, Remembered
<1>2. Pending = {}
  BY <1>1 DEF Pending, Usable
<1>3. CASE crawl' = [crawl EXCEPT !.page = @ + 1]
  BY <1>1, <1>3 DEF CrawlInv, CrawlTypeOK, Remembered, Pending, YieldedWereTried
<1>4. ASSUME NEW links \in Listings,
             crawl' = [crawl EXCEPT !.pc = "links", !.links = links,
                           !.offered = @ \cup {Canonical(crawl.adapter, h) : h \in Usable(links)}]
      PROVE  CrawlInv'
  <2>1. links \in Seq(Anchors) /\ Usable(links) \subseteq Anchors \ {BadHref}
    BY PageIsTyped
  <2>2. {Canonical(crawl.adapter, h) : h \in Usable(links)} \subseteq Urls
    BY <2>1 DEF Urls, CrawlInv, CrawlTypeOK
  <2>3. CrawlTypeOK'
    BY <1>4, <2>1, <2>2 DEF CrawlInv, CrawlTypeOK
  <2>4. Remembered'
    BY <1>1, <1>2, <1>4 DEF CrawlInv, CrawlTypeOK, Remembered, Pending
  <2>5. YieldedWereTried' /\ ~crawl'.again /\ IsInjective(crawl'.yielded)
    BY <1>4 DEF CrawlInv, CrawlTypeOK, YieldedWereTried
  <2> QED
    BY <2>3, <2>4, <2>5 DEF CrawlInv
<1> QED
  BY <1>3, <1>4 DEF FetchPage

(* A link that is skipped was no link or is remembered: nothing that was   *)
(* offered gets lost.                                                      *)
LEMMA SkipKeeps ==
    ASSUME CrawlInv, SkipLink
    PROVE  CrawlInv'
<1> DEFINE h == Head(crawl.links)
<1>1. /\ crawl.pc = "links" /\ crawl.links \in Seq(Anchors) /\ crawl.links # <<>>
      /\ h # BadHref => Canonical(crawl.adapter, h) \in crawl.seen
      /\ crawl' = [crawl EXCEPT !.links = Tail(@)]
  BY DEF SkipLink, CrawlInv, CrawlTypeOK
<1>2. Usable(crawl.links) = Usable(Tail(crawl.links)) \cup ({h} \ {BadHref})
  BY <1>1, UsableSplit
<1>3. Tail(crawl.links) \in Seq(Anchors)
  BY <1>1
<1> HIDE DEF h
<1>4. CrawlTypeOK'
  BY <1>1, <1>3 DEF CrawlInv, CrawlTypeOK
<1>5. crawl.seen \cup Pending = crawl'.seen \cup Pending'
  BY <1>1, <1>2 DEF CrawlInv, CrawlTypeOK, Pending
<1>6. Remembered'
  BY <1>1, <1>5 DEF CrawlInv, CrawlTypeOK, Remembered
<1>7. YieldedWereTried' /\ ~crawl'.again /\ IsInjective(crawl'.yielded)
  BY <1>1 DEF CrawlInv, CrawlTypeOK, YieldedWereTried
<1> QED
  BY <1>4, <1>6, <1>7 DEF CrawlInv

(* A link that is followed is new, and remembered before it is fetched.    *)
LEMMA FollowKeeps ==
    ASSUME CrawlInv, FollowLink
    PROVE  CrawlInv'
<1> DEFINE h == Head(crawl.links)
           url == Canonical(crawl.adapter, h)
<1>1. /\ crawl.pc = "links" /\ crawl.links \in Seq(Anchors) /\ crawl.links # <<>>
      /\ h # BadHref /\ url \notin crawl.seen
      /\ crawl' = [crawl EXCEPT !.pc = "item", !.links = Tail(@), !.seen = @ \cup {url},
                                !.url = url]
  BY DEF FollowLink, CrawlInv, CrawlTypeOK
<1>2. Usable(crawl.links) = Usable(Tail(crawl.links)) \cup {h}
  BY <1>1, UsableSplit
<1>3. Tail(crawl.links) \in Seq(Anchors) /\ h \in Anchors
  BY <1>1
<1>4. url \in Urls
  BY <1>1, <1>3 DEF Urls, CrawlInv, CrawlTypeOK
<1>5. Pending = {Canonical(crawl.adapter, g) : g \in Usable(Tail(crawl.links))} \cup {url}
  BY <1>2 DEF Pending
<1> HIDE DEF h, url
<1>6. CrawlTypeOK'
  BY <1>1, <1>3, <1>4 DEF CrawlInv, CrawlTypeOK
<1>7. crawl'.seen = crawl.seen \cup {url} /\ Pending = Pending' \cup {url}
  BY <1>1, <1>5 DEF CrawlInv, CrawlTypeOK, Pending
<1>8. Remembered'
  BY <1>1, <1>7 DEF CrawlInv, CrawlTypeOK, Remembered
<1>9. YieldedWereTried' /\ ~crawl'.again /\ IsInjective(crawl'.yielded)
  BY <1>1 DEF CrawlInv, CrawlTypeOK, YieldedWereTried
<1> QED
  BY <1>6, <1>8, <1>9 DEF CrawlInv

(* A product is tried for the first time, and its item differs from those  *)
(* yielded before, for they were made of urls tried before.                *)
LEMMA ParseKeeps ==
    ASSUME CrawlInv, ParseItem
    PROVE  CrawlInv'
<1>1. PICK item \in Parses(crawl.adapter, crawl.url) :
        crawl' = [crawl EXCEPT !.pc = IF item = None THEN "links" ELSE "yielding",
                     !.yielded = IF item = None THEN @ ELSE Append(@, item),
                     !.again = @ \/ crawl.url \in crawl.tried,
                     !.tried = @ \cup {crawl.url}]
  BY DEF ParseItem
<1>2. /\ crawl.pc = "item" /\ crawl.url \notin crawl.tried /\ ~crawl.again
      /\ crawl.seen = crawl.tried \cup {crawl.url} /\ crawl.seen \subseteq Urls
      /\ crawl.yielded \in Seq(Products) /\ IsInjective(crawl.yielded)
  BY DEF ParseItem, CrawlInv, Remembered, CrawlTypeOK
<1>3. crawl.url \in Urls /\ crawl.adapter \in Adapters
  BY <1>2 DEF CrawlInv, CrawlTypeOK
<1>4. item # None => item \in Products /\ item.url = crawl.url
  BY <1>3, ParsedUrl
<1>5. /\ crawl'.yielded \in Seq(Products) /\ IsInjective(crawl'.yielded)
      /\ \A k \in DOMAIN crawl'.yielded : crawl'.yielded[k].url \in crawl.tried \cup {crawl.url}
  <2>1. CASE item = None
    BY <1>1, <1>2, <2>1 DEF CrawlInv, CrawlTypeOK, YieldedWereTried
  <2>2. CASE item # None
    <3>1. crawl'.yielded = Append(crawl.yielded, item)
      BY <1>1, <2>2 DEF CrawlInv, CrawlTypeOK
    <3>2. \A k \in DOMAIN crawl.yielded : crawl.yielded[k] # item
      BY <1>2, <1>4, <2>2 DEF CrawlInv, YieldedWereTried
    <3>3. IsInjective(crawl'.yielded)
      BY <1>2, <1>4, <2>2, <3>1, <3>2, InjectiveAppend
    <3>4. \A k \in DOMAIN Append(crawl.yielded, item) :
            Append(crawl.yielded, item)[k] = item \/ (k \in DOMAIN crawl.yielded
                /\ Append(crawl.yielded, item)[k] = crawl.yielded[k])
      BY <1>2, <1>4, <2>2
    <3>5. \A k \in DOMAIN crawl.yielded : crawl.yielded[k].url \in crawl.tried
      BY DEF CrawlInv, YieldedWereTried
    <3> QED
      BY <1>2, <1>4, <2>2, <3>1, <3>3, <3>4, <3>5
  <2> QED
    BY <2>1, <2>2
<1>6. /\ crawl'.pc \in {"links", "yielding"} /\ crawl'.tried = crawl.tried \cup {crawl.url}
      /\ crawl'.again = FALSE /\ crawl'.seen = crawl.seen /\ crawl'.links = crawl.links
      /\ crawl'.adapter = crawl.adapter /\ crawl'.offered = crawl.offered
  BY <1>1, <1>2 DEF CrawlInv, CrawlTypeOK
<1>7. CrawlTypeOK'
  BY <1>1, <1>2, <1>3, <1>5, <1>6 DEF CrawlInv, CrawlTypeOK
<1>8. Remembered'
  BY <1>2, <1>6 DEF CrawlInv, Remembered, Pending
<1>9. YieldedWereTried'
  BY <1>5, <1>6 DEF YieldedWereTried
<1> QED
  BY <1>5, <1>6, <1>7, <1>8, <1>9 DEF CrawlInv

(* The other steps only move the generator on. *)
LEMMA MoveKeeps ==
    ASSUME CrawlInv, EndCrawl \/ NextPage \/ Resume \/ Close \/ UNCHANGED crawl
    PROVE  CrawlInv'
<1>1. /\ CrawlTypeOK'
      /\ crawl'.adapter = crawl.adapter /\ crawl'.links = crawl.links
      /\ crawl'.seen = crawl.seen /\ crawl'.yielded = crawl.yielded
      /\ crawl'.tried = crawl.tried /\ crawl'.again = crawl.again
      /\ crawl'.offered = crawl.offered /\ crawl'.url = crawl.url
  <2> USE DEF CrawlInv, CrawlTypeOK
  <2>1. CASE EndCrawl
    BY <2>1 DEF EndCrawl
  <2>2. CASE NextPage
    <3>1. crawl' = [crawl EXCEPT !.pc = "page", !.page = @ + 1] /\ crawl.page + 1 \in Nat
      BY <2>2 DEF NextPage
    <3> QED
      BY <3>1
  <2>3. CASE Resume
    BY <2>3 DEF Resume
  <2>4. CASE Close
    BY <2>4 DEF Close
  <2>5. CASE UNCHANGED crawl
    BY <2>5
  <2> QED
    BY <2>1, <2>2, <2>3, <2>4, <2>5
<1>2. \/ crawl'.pc = crawl.pc \/ crawl'.pc = "closed"
      \/ crawl'.pc = "page" /\ crawl.pc = "links" /\ crawl.links = <<>>
      \/ crawl'.pc = "links" /\ crawl.pc = "yielding"
      \/ crawl'.pc = "ended" /\ crawl.pc = "page"
  BY DEF CrawlInv, CrawlTypeOK, EndCrawl, NextPage, Resume, Close
<1>3. Pending' = Pending
  BY <1>1 DEF Pending
<1>4. Remembered'
  BY <1>1, <1>2, <1>3 DEF CrawlInv, Remembered
<1> QED
  BY <1>1, <1>4 DEF CrawlInv, YieldedWereTried

(* What ScrapeTask takes from an adapter: a product is tried and yielded   *)
(* once, and a crawl that ends has tried all that its pages linked to.     *)
THEOREM CrawlOnceAndAll == CrawlSpec => []CrawlIsExact
<1>1. CrawlInv => CrawlIsExact
  <2> SUFFICES ASSUME CrawlInv PROVE CrawlIsExact
      OBVIOUS
  <2>1. ~crawl.again /\ IsInjective(crawl.yielded)
    BY DEF CrawlInv
  <2>2. \A item \in ToSet(crawl.yielded) : item.url \in crawl.tried
    BY DEF CrawlInv, YieldedWereTried, ToSet
  <2>3. crawl.pc = "ended" => crawl.tried = crawl.offered
    <3>1. Usable(<<>>) = {}
      BY DEF Usable
    <3> QED
      BY <3>1 DEF CrawlInv, Remembered, Pending
  <2> QED
    BY <2>1, <2>2, <2>3 DEF CrawlIsExact
<1>2. CrawlInv /\ [CrawlNext]_crawl => CrawlInv'
  BY StartCrawlKeeps, FetchKeeps, SkipKeeps, FollowKeeps, ParseKeeps, MoveKeeps
     DEF CrawlNext, Advance, Adapters
<1> QED
  BY <1>1, <1>2, InitCrawlInv, PTL DEF CrawlSpec

----
(* Requests of admins, for any number of them, of items and of tags, and   *)
(* any CSV files.                                                          *)

Writes == [rows : SUBSET NewItems, add : SUBSET (AllItems \X Tags),
           del : SUBSET (AllItems \X Tags), image : BOOLEAN, row : BOOLEAN]
Requested ==
    [pc : {"idle", "tags", "columns", "flushed", "replace", "delete", "put", "csv", "done"},
     op : {"none", "create", "patch", "upload", "csv"}, item : AllItems,
     want : TagLists \cup {NoTags}, set : {"none", "title", "image", "upload"},
     todo : Seq(Tags) \cup Seq(Seq(Tags) \cup {BadRow}), scan : SUBSET (AllItems \X Tags),
     slugs : SUBSET Tags, total : Nat, inserted : Nat, skipped : Nat, w : Writes,
     mine : SUBSET NewItems, out : {"open", "ok", "404", "500", "502"}]
ManualTyped ==
    /\ rows \subseteq AllItems /\ tagged \subseteq AllItems \X Tags /\ tags \subseteq Tags
    /\ image \in [AllItems -> Requests \cup {NoImage, External}] /\ bucket \subseteq Requests
    /\ loose \subseteq AllItems \X Tags
    /\ req \in [Requests -> Requested]

(* Which steps each kind of request takes, and what it has written before  *)
(* each: the row of the item first, then its tags.                         *)
StepsInOrder(q) ==
    /\ q.pc \in {"idle", "done"} => q.w = NoWrites
    /\ q.pc = "idle" => q.op = "none"
    /\ q.pc # "done" => q.mine = {} /\ q.out = "open"
    /\ q.pc \in {"columns", "flushed"} => q.op \in {"patch", "upload"}
    /\ q.pc = "put" => q.op = "upload"
    /\ q.pc \in {"replace", "delete"} => q.op = "patch"
    /\ q.pc = "tags" => q.op \in {"create", "patch"} /\ q.todo \in Seq(Tags)
    /\ q.pc # "done" => (q.pc = "csv" <=> q.op = "csv")
    /\ q.pc = "csv" => q.todo \in Seq(Seq(Tags) \cup {BadRow})
    /\ q.pc # "done" /\ q.op = "upload" => q.want = NoTags /\ q.set = "upload"
    /\ q.op = "patch" => q.set # "upload"
    /\ q.pc = "flushed" => q.want = NoTags
    /\ q.pc \in {"replace", "delete", "tags"} /\ q.op = "patch" => q.want \in TagLists
    /\ q.pc = "delete" => \A p \in q.scan : p[1] = q.item
    /\ q.pc \in {"put", "columns", "flushed", "replace", "delete"} =>
          q.w.rows = {} /\ q.w.add = {} /\ q.w.del = {}
    /\ q.op = "patch" /\ q.set # "none" /\ q.pc \in {"flushed", "replace", "delete", "tags"}
           => q.w.row
    /\ q.w.row \/ q.w.image => q.op \in {"patch", "upload"} /\ q.pc # "put"

(* What a request has written fits the tables, whatever commits meanwhile. *)
WritesFit(q) ==
    /\ q.op \in {"patch", "upload"} => q.w.rows = {}
    /\ \A p \in q.w.add : p[2] \in tags /\ p[1] \in rows \cup q.w.rows
    /\ q.op = "patch" => \A p \in q.w.add \cup q.w.del : p[1] = q.item
    /\ q.op # "patch" => q.w.del = {} /\ \A p \in q.w.add : p[1] \in q.w.rows
    /\ q.op \in {"patch", "upload"} /\ q.pc # "done" => q.item \in rows
    /\ q.op = "create" /\ q.pc = "tags" => q.w.rows = {q.item}
    /\ (q.w.rows \cup q.mine) \cap rows = {} \/ (q.pc = "done" /\ q.out = "ok")
    /\ \A x, y \in q.w.rows \cup q.mine : x = y

(* An import has stored what it counts, as far as it has come. *)
Counted(q) ==
    q.pc = "csv" => /\ q.inserted = Cardinality(q.w.rows)
                    /\ q.inserted + q.skipped = q.total

(* A PATCH of a column and the tags, between its DELETE and its commit:    *)
(* the pairs of its item are deleted, its own, or loose.                   *)
Replacing(q) ==
    q.op = "patch" /\ q.set # "none" =>
        /\ q.pc = "delete" =>
              \A p \in tagged : p[1] = q.item => p \in q.scan \cup loose
        /\ q.pc = "tags" =>
              /\ \A p \in tagged : p[1] = q.item => p \in q.w.del \cup loose
              /\ \A p \in q.w.add : p[2] \in RangeOf(q.want)
              /\ RangeOf(q.todo) \subseteq RangeOf(q.want)
              /\ \A g \in RangeOf(q.want) :
                    <<q.item, g>> \in q.w.add \/ g \in RangeOf(q.todo)

Kept(q) == StepsInOrder(q) /\ WritesFit(q) /\ Counted(q) /\ Replacing(q)
RequestsKept == \A r \in Requests : Kept(req[r])

\* Ids are a request's own, and so is the lock on a row.
Apart(q, p) == /\ q.w.rows \cap (p.w.rows \cup p.mine) = {}
               /\ q.w.row /\ p.w.row => q.item # p.item
AllApart == \A r, s \in Requests : r # s => Apart(req[r], req[s])

UploadStored(r, q) == q.set = "upload" /\ q.pc \notin {"idle", "put", "done"} => r \in bucket
UploadsStored == \A r \in Requests : UploadStored(r, req[r])

ManualInv == ManualTyped /\ RequestsKept /\ AllApart /\ UploadsStored /\ AnswersStand

----
LEMMA IdleRequest ==
  ASSUME NEW r \in Requests
  PROVE  /\ Idle \in Requested /\ Idle.w = NoWrites /\ NoWrites \in Writes
         /\ Idle.pc = "idle" /\ Idle.op = "none" /\ Idle.out = "open" /\ Idle.mine = {}
         /\ Idle.set = "none" /\ Idle.want = NoTags /\ Idle.todo = <<>>
         /\ Idle.inserted = 0 /\ Idle.skipped = 0 /\ Idle.total = 0
         /\ NoWrites.rows = {} /\ NoWrites.add = {} /\ NoWrites.del = {}
         /\ ~NoWrites.image /\ ~NoWrites.row
<1>1. AllItems # {}
  <2>1. IsFiniteSet(Requests) /\ Requests # {} /\ IsFiniteSet(NewItems)
        /\ Cardinality(NewItems) >= Cardinality(Requests)
    BY ManualAssumption
  <2>2. Cardinality(Requests) # 0 /\ Cardinality(Requests) \in Nat
    BY <2>1, FS_EmptySet, FS_CardinalityType
  <2>3. Cardinality(NewItems) # 0
    BY <2>1, <2>2, FS_CardinalityType
  <2> QED
    BY <2>1, <2>3, FS_EmptySet DEF AllItems
<1>2. (CHOOSE i \in AllItems : TRUE) \in AllItems
  BY <1>1
<1>3. <<>> \in Seq(Tags)
  OBVIOUS
<1>4. NoWrites \in Writes
  BY DEF NoWrites, Writes
<1>5. Idle \in Requested
  BY <1>2, <1>3, <1>4 DEF Idle, Requested
<1> QED
  BY <1>4, <1>5 DEF Idle, NoWrites

(* The invariant again after a step of one request that commits nothing.   *)
LEMMA ManualOwnStep ==
  ASSUME ManualInv, NEW r \in Requests, req[r].pc # "done", NEW q \in Requested,
         UNCHANGED <<rows, tagged, tags, image, loose>>,
         bucket \subseteq bucket', bucket' \subseteq Requests,
         req' = [req EXCEPT ![r] = q], Kept(q),
         \A s \in Requests \ {r} : Apart(q, req[s]) /\ Apart(req[s], q),
         q.set = "upload" /\ q.pc \notin {"idle", "put", "done"} => r \in bucket',
         q.pc = "done" => q.out # "ok"
  PROVE  ManualInv'
<1>0. /\ req'[r] = q /\ req' \in [Requests -> Requested]
      /\ \A s \in Requests \ {r} : req'[s] = req[s]
  BY DEF ManualInv, ManualTyped
<1>1. ManualTyped'
  BY <1>0 DEF ManualInv, ManualTyped
<1>2. RequestsKept'
  <2>1. \A s \in Requests : Kept(req'[s])
    BY <1>0 DEF ManualInv, RequestsKept
  <2> QED
    BY <2>1 DEF RequestsKept, Kept, StepsInOrder, WritesFit, Counted, Replacing
<1>3. AllApart'
  BY <1>0 DEF ManualInv, AllApart, Apart
<1>4. UploadsStored'
  BY <1>0 DEF ManualInv, UploadsStored, UploadStored
<1>5. AnswersStand'
  <2>1. \A s \in Requests : req'[s].pc = "done" /\ req'[s].out = "ok" => s # r
    BY <1>0
  <2>2. req'[r].pc = "done" => req'[r].mine \cap rows = {}
    BY <1>0 DEF Kept, WritesFit
  <2>3. req[r].out # "ok"
    BY DEF ManualInv, RequestsKept, Kept, StepsInOrder
  <2>4. \A s \in Requests : req'[s].pc = "done" /\ req'[s].out = "ok" /\ req'[s].op = "csv" =>
           /\ req'[s].mine \subseteq rows'
           /\ req'[s].inserted = Cardinality(req'[s].mine)
           /\ req'[s].inserted + req'[s].skipped = req'[s].total
    BY <1>0, <2>1 DEF ManualInv, AnswersStand
  <2>5. \A s \in Requests : req'[s].pc = "done" /\ req'[s].out # "ok" => req'[s].mine \cap rows' = {}
    BY <1>0, <2>2 DEF ManualInv, AnswersStand
  <2>6. \A i \in AllItems : image'[i] \in Requests =>
           image'[i] \in bucket' /\ req'[image'[i]].out = "ok"
    BY <1>0, <2>3 DEF ManualInv, AnswersStand
  <2>7. \A p \in tagged' : p[1] \in rows' /\ p[2] \in tags'
    BY DEF ManualInv, AnswersStand
  <2> QED
    BY <2>4, <2>5, <2>6, <2>7 DEF AnswersStand
<1> QED
  BY <1>1, <1>2, <1>3, <1>4, <1>5 DEF ManualInv

LEMMA KeptFacts ==
  ASSUME ManualInv, NEW r \in Requests
  PROVE  /\ req[r] \in Requested /\ req[r].w \in Writes /\ Kept(req[r])
         /\ UploadStored(r, req[r])
         /\ \A s \in Requests \ {r} : Apart(req[r], req[s]) /\ Apart(req[s], req[r])
BY DEF ManualInv, ManualTyped, RequestsKept, AllApart, UploadsStored, Requested

(* A request that is answered has nothing left to write: with the id that  *)
(* it had taken, if any, its record is as good as a fresh one.             *)
LEMMA EndFacts ==
  ASSUME ManualInv, NEW r \in Requests, NEW out \in {"ok", "404", "500", "502"}, End(r, out)
  PROVE  \E q \in Requested :
            /\ req' = [req EXCEPT ![r] = q]
            /\ q.pc = "done" /\ q.out = out /\ q.w = NoWrites /\ q.mine = req[r].w.rows
            /\ q.op = req[r].op /\ q.set = "none" /\ q.total = req[r].total
            /\ q.inserted = req[r].inserted /\ q.skipped = req[r].skipped
<1> DEFINE q == [Idle EXCEPT !.pc = "done", !.out = out,
      !.op = req[r].op, !.total = req[r].total, !.inserted = req[r].inserted,
      !.skipped = req[r].skipped, !.mine = req[r].w.rows]
<1>1. req[r] \in Requested /\ req[r].w \in Writes
  BY KeptFacts
<1>2. /\ q.pc = "done" /\ q.out = out /\ q.w = NoWrites /\ q.mine = req[r].w.rows
      /\ q.op = req[r].op /\ q.set = "none" /\ q.total = req[r].total
      /\ q.inserted = req[r].inserted /\ q.skipped = req[r].skipped
  BY IdleRequest DEF Requested
<1>4. q \in Requested
  <2>1. req[r].w.rows \in SUBSET NewItems
    BY <1>1 DEF Writes
  <2> QED
    BY <1>1, <2>1, IdleRequest DEF Requested
<1>3. req' = [req EXCEPT ![r] = q]
  BY DEF End
<1> HIDE DEF q
<1> QED
  BY <1>2, <1>3, <1>4

(* What an answered request leaves behind is kept, and apart from others.  *)
LEMMA DoneKept ==
  ASSUME ManualInv, NEW r \in Requests, req[r].pc # "done", NEW q \in Requested,
         q.pc = "done", q.w = NoWrites, q.mine \subseteq req[r].w.rows, q.set = "none"
  PROVE  /\ Kept(q)
         /\ \A s \in Requests \ {r} : Apart(q, req[s]) /\ Apart(req[s], q)
<1>1. /\ NoWrites.rows = {} /\ NoWrites.add = {} /\ NoWrites.del = {}
      /\ ~NoWrites.image /\ ~NoWrites.row
  BY IdleRequest
<1>2. Kept(req[r])
  BY KeptFacts
<1>3. StepsInOrder(q)
  BY <1>1 DEF StepsInOrder
<1>4. WritesFit(q)
  <2>1. q.mine \cap rows = {} /\ \A x, y \in q.mine : x = y
    BY <1>2 DEF Kept, WritesFit
  <2> QED
    BY <1>1, <2>1 DEF WritesFit
<1>5. Counted(q) /\ Replacing(q)
  BY DEF Counted, Replacing
<1>6. \A s \in Requests \ {r} : Apart(q, req[s]) /\ Apart(req[s], q)
  BY <1>1, KeptFacts DEF Apart
<1> QED
  BY <1>3, <1>4, <1>5, <1>6 DEF Kept

LEMMA EndStep ==
  ASSUME ManualInv, NEW r \in Requests, req[r].pc # "done",
         NEW out \in {"404", "500", "502"}, End(r, out),
         UNCHANGED <<rows, tagged, tags, image, loose>>,
         bucket \subseteq bucket', bucket' \subseteq Requests
  PROVE  ManualInv'
<1>1. PICK q \in Requested :
        /\ req' = [req EXCEPT ![r] = q]
        /\ q.pc = "done" /\ q.out = out /\ q.w = NoWrites /\ q.mine = req[r].w.rows
        /\ q.set = "none"
  BY EndFacts
<1>2. /\ Kept(q)
      /\ \A s \in Requests \ {r} : Apart(q, req[s]) /\ Apart(req[s], q)
  BY <1>1, DoneKept
<1> QED
  BY <1>1, <1>2, ManualOwnStep

(* A request that is refused at once. *)
LEMMA RefusedStep ==
  ASSUME ManualInv, NEW r \in Requests, NEW q \in Requested, Begin(r, q), UNCHANGED Store,
         q.pc = "done", q.out # "ok", q.w = NoWrites, q.mine = {}, q.set = "none"
  PROVE  ManualInv'
<1>1. req[r].pc # "done" /\ req' = [req EXCEPT ![r] = q]
  BY DEF Begin
<1>2. /\ Kept(q)
      /\ \A s \in Requests \ {r} : Apart(q, req[s]) /\ Apart(req[s], q)
  BY <1>1, DoneKept
<1>3. bucket' = bucket /\ bucket \subseteq Requests /\ UNCHANGED <<rows, tagged, tags, image, loose>>
  BY DEF Store, ManualInv, ManualTyped
<1> QED
  BY <1>1, <1>2, <1>3, ManualOwnStep

LEMMA InitManualInv == ManualInit => ManualInv
<1> SUFFICES ASSUME ManualInit PROVE ManualInv
  OBVIOUS
<1>1. ASSUME NEW r \in Requests
      PROVE  /\ req[r] = Idle /\ Idle \in Requested /\ Kept(Idle) /\ UploadStored(r, Idle)
             /\ \A s \in Requests : Apart(req[r], req[s])
  <2>1. req[r] = Idle /\ \A s \in Requests : req[s] = Idle
    BY DEF ManualInit
  <2>2. Kept(Idle)
    BY IdleRequest DEF Kept, StepsInOrder, WritesFit, Counted, Replacing
  <2>3. UploadStored(r, Idle) /\ Apart(Idle, Idle)
    BY IdleRequest DEF UploadStored, Apart
  <2> QED
    BY <2>1, <2>2, <2>3, IdleRequest
<1>2. ManualTyped
  <2>1. req \in [Requests -> Requested]
    BY <1>1 DEF ManualInit
  <2> QED
    BY <2>1, ManualAssumption DEF ManualInit, ManualTyped, AllItems
<1>3. RequestsKept /\ AllApart /\ UploadsStored
  BY <1>1 DEF RequestsKept, AllApart, UploadsStored
<1>4. AnswersStand
  <2>1. \A r \in Requests : req[r].pc # "done"
    BY <1>1, IdleRequest
  <2>2. \A i \in AllItems : image[i] \notin Requests
    BY ManualAssumption DEF ManualInit
  <2>3. \A p \in tagged : p[1] \in rows /\ p[2] \in tags
    BY ManualAssumption DEF ManualInit
  <2> QED
    BY <2>1, <2>2, <2>3 DEF AnswersStand
<1> QED
  BY <1>2, <1>3, <1>4 DEF ManualInv

----
(* The invariant again after a statement that only the request itself sees. *)
LEMMA StatementStep ==
  ASSUME ManualInv, NEW r \in Requests, req[r].pc # "done", NEW q \in Requested,
         UNCHANGED Store, req' = [req EXCEPT ![r] = q], q.pc # "done",
         Kept(q), UploadStored(r, q),
         \A s \in Requests \ {r} : Apart(q, req[s]) /\ Apart(req[s], q)
  PROVE  ManualInv'
<1>1. bucket' = bucket /\ bucket \subseteq Requests /\ UNCHANGED <<rows, tagged, tags, image, loose>>
  BY DEF Store, ManualInv, ManualTyped
<1> QED
  BY <1>1, ManualOwnStep DEF UploadStored

(* The members of a sequence are its first and those of the rest. *)
LEMMA RangeSplit ==
  ASSUME NEW T, NEW s \in Seq(T)
  PROVE  /\ RangeOf(s) \subseteq T
         /\ s = <<>> => RangeOf(s) = {}
         /\ s # <<>> => RangeOf(s) = {Head(s)} \cup RangeOf(Tail(s))
                        /\ Head(s) \in T /\ Tail(s) \in Seq(T)
<1>1. RangeOf(s) \subseteq T /\ (s = <<>> => RangeOf(s) = {})
  BY DEF RangeOf
<1>2. CASE s # <<>>
  <2>1. /\ Tail(s) \in Seq(T) /\ Len(Tail(s)) = Len(s) - 1 /\ Head(s) = s[1] /\ Head(s) \in T
        /\ \A k \in 1 .. Len(Tail(s)) : Tail(s)[k] = s[k + 1]
    BY <1>2, HeadTailProperties
  <2>2. Len(s) \in Nat /\ Len(s) # 0 /\ DOMAIN s = 1 .. Len(s)
        /\ DOMAIN Tail(s) = 1 .. Len(Tail(s))
    BY <1>2, <2>1, EmptySeq, LenProperties
  <2>3. ASSUME NEW k \in DOMAIN s PROVE s[k] \in {Head(s)} \cup RangeOf(Tail(s))
    <3>1. CASE k = 1
      BY <2>1, <3>1
    <3>2. CASE k # 1
      <4>1. k - 1 \in DOMAIN Tail(s) /\ Tail(s)[k - 1] = s[k]
        BY <2>1, <2>2, <3>2
      <4> QED
        BY <4>1 DEF RangeOf
    <3> QED
      BY <3>1, <3>2
  <2>4. ASSUME NEW k \in DOMAIN Tail(s) PROVE Tail(s)[k] \in RangeOf(s)
    <3>1. k + 1 \in DOMAIN s /\ Tail(s)[k] = s[k + 1]
      BY <2>1, <2>2
    <3> QED
      BY <3>1 DEF RangeOf
  <2>5. 1 \in DOMAIN s
    BY <2>2
  <2>6. Head(s) \in RangeOf(s)
    BY <2>1, <2>5 DEF RangeOf
  <2>7. RangeOf(s) \subseteq {Head(s)} \cup RangeOf(Tail(s))
    BY <2>3 DEF RangeOf
  <2>8. RangeOf(Tail(s)) \subseteq RangeOf(s)
    BY <2>4 DEF RangeOf
  <2> QED
    BY <1>1, <2>1, <2>6, <2>7, <2>8
<1> QED
  BY <1>1, <1>2

(* The ids suffice: each other request holds or held one at most, so that  *)
(* if no keyless item is there, a request that has none finds an id.       *)
LEMMA IdsSuffice ==
  ASSUME ManualInv, NEW r \in Requests, req[r].pc # "done", ~KeyTaken(r)
  PROVE  /\ NextId \in NewItems /\ NextId \notin rows
         /\ \A s \in Requests : NextId \notin req[s].w.rows \cup req[s].mine
         /\ req[r].w.rows = {} /\ req[r].mine = {}
<1> DEFINE Used(s) == req[s].w.rows \cup req[s].mine
<1>1. req[r].mine = {} /\ req[r].w.rows \subseteq NewItems
  BY KeptFacts DEF Kept, StepsInOrder, Writes
<1>2. req[r].w.rows = {} /\ NewItems \cap rows = {}
  BY <1>1 DEF KeyTaken
<1>3. ASSUME Unissued = {} PROVE FALSE
  <2> DEFINE f == [i \in NewItems |-> CHOOSE s \in Requests \ {r} : i \in Used(s)]
  <2>1. \A i \in NewItems : \E s \in Requests \ {r} : i \in Used(s)
    <3>1. \A i \in NewItems : \E s \in Requests : i \in Used(s)
      BY <1>2, <1>3 DEF Unissued
    <3> QED
      BY <1>1, <1>2, <3>1
  <2>2. \A i \in NewItems : f[i] \in Requests \ {r} /\ i \in Used(f[i])
    BY <2>1
  <2>3. f \in [NewItems -> Requests \ {r}]
    BY <2>2
  <2>4. \A s \in Requests : \A x, y \in Used(s) : x = y
    BY KeptFacts DEF Kept, WritesFit
  <2> HIDE DEF f, Used
  <2>5. \A i, j \in NewItems : f[i] = f[j] => i = j
    BY <2>2, <2>4
  <2>6. f \in Injection(NewItems, Requests \ {r})
    BY <2>3, <2>5 DEF Injection, IsInjective
  <2>7. /\ IsFiniteSet(Requests) /\ IsFiniteSet(NewItems)
        /\ Cardinality(NewItems) >= Cardinality(Requests)
    BY ManualAssumption
  <2>8. /\ IsFiniteSet(Requests \ {r})
        /\ Cardinality(Requests \ {r}) = Cardinality(Requests) - 1
        /\ Cardinality(Requests) \in Nat /\ Cardinality(NewItems) \in Nat
    BY <2>7, FS_RemoveElement, FS_CardinalityType
  <2>9. Cardinality(NewItems) <= Cardinality(Requests \ {r})
    BY <2>6, <2>8, FS_Injection
  <2> QED
    BY <2>7, <2>8, <2>9
<1>4. NextId \in Unissued
  BY <1>3 DEF NextId
<1> HIDE DEF Used
<1> QED
  BY <1>1, <1>2, <1>4 DEF Unissued

(* No other request has an uncommitted item when the key is free. *)
LEMMA KeyFreeFacts ==
  ASSUME ManualInv, NEW r \in Requests, KeyFree(r), NEW s \in Requests \ {r}
  PROVE  req[s].w.rows = {}
BY IdleRequest DEF KeyFree, Others

LEMMA CreateItemStep ==
  ASSUME ManualInv, NEW r \in Requests, NEW want \in TagLists, CreateItem(r, want)
  PROVE  ManualInv'
<1> USE IdleRequest
<1>0. req[r].pc = "idle" /\ UNCHANGED Store /\ want \in Seq(Tags)
  BY ManualAssumption DEF CreateItem, Begin
<1>1. CASE KeyTaken(r)
  <2> DEFINE q == [Idle EXCEPT !.pc = "done", !.op = "create", !.out = "500"]
  <2>1. /\ q \in Requested /\ q.pc = "done" /\ q.out = "500" /\ q.w = NoWrites
        /\ q.mine = {} /\ q.set = "none"
    BY DEF Requested
  <2>2. Begin(r, q)
    BY <1>1 DEF CreateItem
  <2> HIDE DEF q
  <2> QED
    BY <1>0, <2>1, <2>2, RefusedStep
<1>2. CASE ~KeyTaken(r)
  <2> DEFINE q == [Idle EXCEPT !.pc = "tags", !.op = "create", !.item = NextId,
                               !.todo = want, !.w.rows = {NextId}]
             w == [NoWrites EXCEPT !.rows = {NextId}]
  <2>0. /\ NextId \in NewItems /\ NextId \notin rows /\ NextId \in AllItems
        /\ \A s \in Requests : NextId \notin req[s].w.rows \cup req[s].mine
    BY <1>0, <1>2, IdsSuffice DEF AllItems
  <2>1. w \in Writes /\ w.rows = {NextId} /\ w.add = {} /\ w.del = {} /\ ~w.image /\ ~w.row
    BY <2>0 DEF Writes
  <2>2. req' = [req EXCEPT ![r] = q]
    BY <1>2 DEF CreateItem, Begin
  <2>3. q = [Idle EXCEPT !.pc = "tags", !.op = "create", !.item = NextId,
                         !.todo = want, !.w = w]
    OBVIOUS
  <2> HIDE DEF w, q
  <2>4. /\ q.pc = "tags" /\ q.op = "create" /\ q.item = NextId /\ q.todo = want /\ q.w = w
        /\ q.mine = {} /\ q.out = "open" /\ q.set = "none"
    BY <2>3 DEF Requested
  <2>5. q \in Requested
    BY <1>0, <2>0, <2>1, <2>3 DEF Requested
  <2>6. Kept(q)
    BY <1>0, <2>0, <2>1, <2>4 DEF Kept, StepsInOrder, WritesFit, Counted, Replacing
  <2>7. \A s \in Requests \ {r} : Apart(q, req[s]) /\ Apart(req[s], q)
    BY <2>0, <2>1, <2>4 DEF Apart
  <2>8. UploadStored(r, q)
    BY <2>4 DEF UploadStored
  <2> QED
    BY <1>0, <2>2, <2>4, <2>5, <2>6, <2>7, <2>8, StatementStep
<1> QED
  BY <1>1, <1>2

LEMMA AnswerCreatedStep ==
  ASSUME ManualInv, NEW r \in Requests, AnswerCreated(r)
  PROVE  ManualInv'
<1>1. /\ req[r].pc # "done" /\ End(r, "500") /\ UNCHANGED <<rows, tagged, tags, image, loose>>
      /\ bucket' = bucket /\ bucket \subseteq Requests
  BY DEF AnswerCreated, Store, ManualInv, ManualTyped
<1> QED
  BY <1>1, EndStep

LEMMA PatchItemStep ==
  ASSUME ManualInv, NEW r \in Requests, NEW i \in AllItems,
         NEW set \in {"none", "title", "image"}, NEW want \in TagLists \cup {NoTags},
         PatchItem(r, i, set, want)
  PROVE  ManualInv'
<1> USE IdleRequest
<1>0. req[r].pc = "idle" /\ UNCHANGED Store
  BY DEF PatchItem, Begin
<1>1. CASE i \notin rows
  <2> DEFINE q == [Idle EXCEPT !.pc = "done", !.op = "patch", !.out = "404"]
  <2>1. /\ q \in Requested /\ q.pc = "done" /\ q.out = "404" /\ q.w = NoWrites
        /\ q.mine = {} /\ q.set = "none"
    BY DEF Requested
  <2>2. Begin(r, q)
    BY <1>1 DEF PatchItem
  <2> HIDE DEF q
  <2> QED
    BY <1>0, <2>1, <2>2, RefusedStep
<1>2. CASE i \in rows
  <2> DEFINE differs == IF set = "image" /\ image[i] = External THEN "none" ELSE set
             pc == IF differs = "none" THEN AfterColumns(want) ELSE "columns"
             q == [Idle EXCEPT !.op = "patch", !.item = i, !.set = differs, !.want = want,
                               !.pc = pc]
  <2>1. /\ differs \in {"none", "title", "image"} /\ pc \in {"flushed", "replace", "columns"}
        /\ pc = "flushed" => want = NoTags
        /\ pc = "replace" => want \in TagLists
        /\ pc # "columns" => differs = "none"
    BY DEF AfterColumns
  <2>2. req' = [req EXCEPT ![r] = q]
    BY <1>2 DEF PatchItem, Begin
  <2> HIDE DEF differs, pc
  <2>3. /\ q.pc = pc /\ q.op = "patch" /\ q.item = i /\ q.set = differs /\ q.want = want
        /\ q.w = NoWrites /\ q.mine = {} /\ q.out = "open" /\ q \in Requested
    BY <2>1 DEF Requested
  <2> HIDE DEF q
  <2>4. Kept(q)
    BY <1>2, <2>1, <2>3 DEF Kept, StepsInOrder, WritesFit, Counted, Replacing
  <2>5. \A s \in Requests \ {r} : Apart(q, req[s]) /\ Apart(req[s], q)
    BY <2>3 DEF Apart
  <2>6. UploadStored(r, q)
    BY <2>1, <2>3 DEF UploadStored
  <2> QED
    BY <1>0, <2>1, <2>2, <2>3, <2>4, <2>5, <2>6, StatementStep
<1> QED
  BY <1>1, <1>2

LEMMA UpdateColumnsStep ==
  ASSUME ManualInv, NEW r \in Requests, UpdateColumns(r)
  PROVE  ManualInv'
<1>0. /\ req[r].pc = "columns" /\ RowFree(r) /\ UNCHANGED Store
      /\ req[r] \in Requested /\ req[r].w \in Writes /\ Kept(req[r]) /\ UploadStored(r, req[r])
  BY KeptFacts DEF UpdateColumns
<1> DEFINE shown == req[r].set \in {"image", "upload"}
           w == [req[r].w EXCEPT !.row = TRUE, !.image = shown]
           q == [req[r] EXCEPT !.pc = AfterColumns(req[r].want), !.w = w]
<1>2. req' = [req EXCEPT ![r] = q]
  BY DEF UpdateColumns
<1>10. shown \in BOOLEAN
  OBVIOUS
<1> HIDE DEF shown
<1>1. /\ w \in Writes /\ w.rows = req[r].w.rows /\ w.add = req[r].w.add /\ w.del = req[r].w.del
      /\ w.row
  BY <1>0, <1>10 DEF Writes
<1> HIDE DEF w
<1>3. AfterColumns(req[r].want) \in {"flushed", "replace"}
      /\ (AfterColumns(req[r].want) = "flushed" <=> req[r].want = NoTags)
  BY DEF AfterColumns
<1>4. /\ q \in Requested /\ q.w = w /\ q.pc = AfterColumns(req[r].want)
      /\ q.op = req[r].op /\ q.item = req[r].item /\ q.set = req[r].set /\ q.want = req[r].want
      /\ q.mine = req[r].mine /\ q.out = req[r].out
  BY <1>0, <1>1, <1>3 DEF Requested
<1> HIDE DEF q
<1>5. req[r].want \in TagLists \cup {NoTags}
  BY <1>0 DEF Requested
<1>6. StepsInOrder(q)
  BY <1>0, <1>1, <1>3, <1>4, <1>5 DEF Kept, StepsInOrder
<1>7. WritesFit(q)
  BY <1>0, <1>1, <1>3, <1>4 DEF Kept, StepsInOrder, WritesFit
<1>8. Counted(q) /\ Replacing(q) /\ UploadStored(r, q)
  BY <1>0, <1>3, <1>4 DEF Counted, Replacing, UploadStored
<1>9. \A s \in Requests \ {r} : Apart(q, req[s]) /\ Apart(req[s], q)
  <2>1. ASSUME NEW s \in Requests \ {r}, req[s].w.row PROVE req[s].item # req[r].item
    BY <1>0, <2>1, IdleRequest DEF RowFree, Others
  <2> QED
    BY <1>1, <1>4, <2>1, KeptFacts DEF Apart
<1> QED
  BY <1>0, <1>2, <1>3, <1>4, <1>6, <1>7, <1>8, <1>9, StatementStep DEF Kept

LEMMA ScanTagsStep ==
  ASSUME ManualInv, NEW r \in Requests, ScanTags(r)
  PROVE  ManualInv'
<1> DEFINE scan == {p \in tagged : p[1] = req[r].item}
           q == [req[r] EXCEPT !.pc = "delete", !.scan = scan]
<1>0. /\ req[r].pc = "replace" /\ UNCHANGED Store
      /\ req[r] \in Requested /\ Kept(req[r]) /\ UploadStored(r, req[r])
      /\ scan \subseteq AllItems \X Tags
  BY KeptFacts DEF ScanTags, ManualInv, ManualTyped
<1>1. req' = [req EXCEPT ![r] = q]
  BY DEF ScanTags
<1>2. \A p : p \in scan <=> p \in tagged /\ p[1] = req[r].item
  OBVIOUS
<1> HIDE DEF scan
<1>3. /\ q \in Requested /\ q.w = req[r].w /\ q.pc = "delete" /\ q.scan = scan
      /\ q.op = req[r].op /\ q.item = req[r].item /\ q.set = req[r].set /\ q.want = req[r].want
      /\ q.mine = req[r].mine /\ q.out = req[r].out
  BY <1>0 DEF Requested
<1> HIDE DEF q
<1>4. StepsInOrder(q)
  BY <1>0, <1>2, <1>3 DEF Kept, StepsInOrder
<1>5. WritesFit(q)
  BY <1>0, <1>3 DEF Kept, StepsInOrder, WritesFit
<1>6. Counted(q) /\ Replacing(q) /\ UploadStored(r, q)
  BY <1>0, <1>2, <1>3 DEF Counted, Replacing, UploadStored
<1>7. \A s \in Requests \ {r} : Apart(q, req[s]) /\ Apart(req[s], q)
  BY <1>3, KeptFacts DEF Apart
<1> QED
  BY <1>0, <1>1, <1>3, <1>4, <1>5, <1>6, <1>7, StatementStep DEF Kept

LEMMA DeleteTagsStep ==
  ASSUME ManualInv, NEW r \in Requests, DeleteTags(r)
  PROVE  ManualInv'
<1> DEFINE w == [req[r].w EXCEPT !.del = req[r].scan \cap tagged]
           q == [req[r] EXCEPT !.pc = "tags", !.todo = req[r].want, !.w = w]
<1>0. /\ req[r].pc = "delete" /\ UNCHANGED Store
      /\ req[r] \in Requested /\ req[r].w \in Writes /\ Kept(req[r]) /\ UploadStored(r, req[r])
      /\ req[r].scan \subseteq AllItems \X Tags
  BY KeptFacts DEF DeleteTags, Requested
<1>1. /\ w \in Writes /\ w.rows = req[r].w.rows /\ w.add = req[r].w.add
      /\ w.del = req[r].scan \cap tagged /\ w.row = req[r].w.row /\ w.image = req[r].w.image
  BY <1>0 DEF Writes
<1>2. req' = [req EXCEPT ![r] = q]
  BY DEF DeleteTags
<1> HIDE DEF w
<1>3. req[r].want \in TagLists /\ req[r].want \in Seq(Tags) /\ req[r].op = "patch"
  BY <1>0, ManualAssumption DEF Kept, StepsInOrder
<1>4. /\ q \in Requested /\ q.w = w /\ q.pc = "tags" /\ q.todo = req[r].want
      /\ q.op = req[r].op /\ q.item = req[r].item /\ q.set = req[r].set /\ q.want = req[r].want
      /\ q.mine = req[r].mine /\ q.out = req[r].out
  BY <1>0, <1>1, <1>3 DEF Requested
<1> HIDE DEF q
<1>5. StepsInOrder(q)
  BY <1>0, <1>1, <1>3, <1>4 DEF Kept, StepsInOrder
<1>6. WritesFit(q)
  BY <1>0, <1>1, <1>3, <1>4 DEF Kept, StepsInOrder, WritesFit
<1>7. Counted(q) /\ UploadStored(r, q)
  BY <1>0, <1>4 DEF Counted, UploadStored
<1>8. Replacing(q)
  BY <1>0, <1>1, <1>4 DEF Kept, StepsInOrder, Replacing
<1>9. \A s \in Requests \ {r} : Apart(q, req[s]) /\ Apart(req[s], q)
  BY <1>1, <1>4, KeptFacts DEF Apart
<1> QED
  BY <1>0, <1>2, <1>4, <1>5, <1>6, <1>7, <1>8, <1>9, StatementStep DEF Kept

LEMMA InsertTagStep ==
  ASSUME ManualInv, NEW r \in Requests, InsertTag(r)
  PROVE  ManualInv'
<1> DEFINE g == Head(req[r].todo)
           p == <<req[r].item, g>>
           w == [req[r].w EXCEPT !.add = req[r].w.add \cup {p}]
           q == [req[r] EXCEPT !.todo = Tail(req[r].todo), !.w = w]
<1>0. /\ req[r].pc = "tags" /\ req[r].todo # <<>> /\ UNCHANGED Store
      /\ req[r] \in Requested /\ req[r].w \in Writes /\ Kept(req[r]) /\ UploadStored(r, req[r])
  BY KeptFacts DEF InsertTag
<1>1. CASE End(r, "500")
  <2>1. /\ UNCHANGED <<rows, tagged, tags, image, loose>>
        /\ bucket' = bucket /\ bucket \subseteq Requests
    BY <1>0 DEF Store, ManualInv, ManualTyped
  <2> QED
    BY <1>0, <1>1, <2>1, EndStep
<1>2. CASE /\ g \in tags
           /\ req' = [req EXCEPT ![r].todo = Tail(@), ![r].w.add = @ \cup {p}]
  <2>1. /\ g \in Tags /\ Tail(req[r].todo) \in Seq(Tags)
        /\ RangeOf(req[r].todo) = {g} \cup RangeOf(Tail(req[r].todo))
    BY <1>0, RangeSplit DEF Kept, StepsInOrder
  <2>2. req' = [req EXCEPT ![r] = q]
    BY <1>0, <1>2 DEF ManualInv, ManualTyped
  <2>3. p \in AllItems \X Tags /\ p[1] = req[r].item /\ p[2] = g
    BY <1>0, <2>1 DEF Requested
  <2>4. g \in tags
    BY <1>2
  <2> HIDE DEF p, g
  <2>5. /\ w \in Writes /\ w.rows = req[r].w.rows /\ w.add = req[r].w.add \cup {p}
        /\ w.del = req[r].w.del /\ w.row = req[r].w.row /\ w.image = req[r].w.image
    BY <1>0, <2>3 DEF Writes
  <2> HIDE DEF w
  <2>6. /\ q \in Requested /\ q.w = w /\ q.pc = "tags" /\ q.todo = Tail(req[r].todo)
        /\ q.op = req[r].op /\ q.item = req[r].item /\ q.set = req[r].set
        /\ q.want = req[r].want /\ q.mine = req[r].mine /\ q.out = req[r].out
    BY <1>0, <2>1, <2>5 DEF Requested
  <2> HIDE DEF q
  <2>7. StepsInOrder(q)
    BY <1>0, <2>1, <2>5, <2>6 DEF Kept, StepsInOrder
  <2>8. req[r].item \in rows \cup req[r].w.rows
        /\ (req[r].op # "patch" => req[r].item \in req[r].w.rows)
    BY <1>0 DEF Kept, StepsInOrder, WritesFit
  <2>9. WritesFit(q)
    BY <1>0, <2>3, <2>4, <2>5, <2>6, <2>8 DEF Kept, WritesFit
  <2>10. Counted(q) /\ UploadStored(r, q)
    BY <1>0, <2>6 DEF Counted, UploadStored
  <2>11. Replacing(q)
    <3> SUFFICES ASSUME req[r].op = "patch", req[r].set # "none" PROVE Replacing(q)
      BY <2>6 DEF Replacing
    <3>1. /\ \A x \in tagged : x[1] = req[r].item => x \in req[r].w.del \cup loose
          /\ \A x \in req[r].w.add : x[2] \in RangeOf(req[r].want)
          /\ RangeOf(req[r].todo) \subseteq RangeOf(req[r].want)
          /\ \A h \in RangeOf(req[r].want) :
                <<req[r].item, h>> \in req[r].w.add \/ h \in RangeOf(req[r].todo)
      BY <1>0 DEF Kept, Replacing
    <3>2. \A x \in w.add : x[2] \in RangeOf(req[r].want)
      BY <2>1, <2>3, <2>5, <3>1
    <3>3. \A h \in RangeOf(req[r].want) :
             <<req[r].item, h>> \in w.add \/ h \in RangeOf(Tail(req[r].todo))
      BY <2>1, <2>5, <3>1 DEF p
    <3> QED
      BY <2>1, <2>5, <2>6, <3>1, <3>2, <3>3 DEF Replacing
  <2>12. \A s \in Requests \ {r} : Apart(q, req[s]) /\ Apart(req[s], q)
    BY <2>5, <2>6, KeptFacts DEF Apart
  <2> QED
    BY <1>0, <2>2, <2>6, <2>7, <2>9, <2>10, <2>11, <2>12, StatementStep DEF Kept
<1> QED
  BY <1>1, <1>2 DEF InsertTag

LEMMA StartUploadStep ==
  ASSUME ManualInv, NEW r \in Requests, NEW i \in AllItems, NEW valid \in BOOLEAN,
         StartUpload(r, i, valid)
  PROVE  ManualInv'
<1> USE IdleRequest
<1>0. req[r].pc = "idle" /\ UNCHANGED Store
  BY DEF StartUpload, Begin
<1>1. CASE i \notin rows \/ ~valid
  <2> DEFINE q == [Idle EXCEPT !.pc = "done", !.op = "upload", !.out = "404"]
  <2>1. /\ q \in Requested /\ q.pc = "done" /\ q.out = "404" /\ q.w = NoWrites
        /\ q.mine = {} /\ q.set = "none"
    BY DEF Requested
  <2>2. Begin(r, q)
    BY <1>1 DEF StartUpload
  <2> HIDE DEF q
  <2> QED
    BY <1>0, <2>1, <2>2, RefusedStep
<1>2. CASE i \in rows /\ valid
  <2> DEFINE q == [Idle EXCEPT !.pc = "put", !.op = "upload", !.item = i, !.set = "upload"]
  <2>1. req' = [req EXCEPT ![r] = q]
    BY <1>2 DEF StartUpload, Begin
  <2>2. /\ q.pc = "put" /\ q.op = "upload" /\ q.item = i /\ q.set = "upload"
        /\ q.want = NoTags /\ q.w = NoWrites /\ q.mine = {} /\ q.out = "open" /\ q \in Requested
    BY DEF Requested
  <2> HIDE DEF q
  <2>3. Kept(q)
    BY <1>2, <2>2 DEF Kept, StepsInOrder, WritesFit, Counted, Replacing
  <2>4. UploadStored(r, q) /\ \A s \in Requests \ {r} : Apart(q, req[s]) /\ Apart(req[s], q)
    BY <2>2 DEF Apart, UploadStored
  <2> QED
    BY <1>0, <2>1, <2>2, <2>3, <2>4, StatementStep
<1> QED
  BY <1>1, <1>2

LEMMA PutObjectStep ==
  ASSUME ManualInv, NEW r \in Requests, PutObject(r)
  PROVE  ManualInv'
<1>0. /\ req[r].pc = "put" /\ UNCHANGED <<rows, tagged, tags, image, loose>>
      /\ req[r] \in Requested /\ Kept(req[r]) /\ bucket \subseteq Requests
  BY KeptFacts DEF PutObject, ManualInv, ManualTyped
<1>1. CASE bucket' \in {bucket, bucket \cup {r}} /\ End(r, "502")
  BY <1>0, <1>1, EndStep
<1>2. CASE bucket' = bucket \cup {r} /\ req' = [req EXCEPT ![r].pc = "columns"]
  <2> DEFINE q == [req[r] EXCEPT !.pc = "columns"]
  <2>1. req' = [req EXCEPT ![r] = q]
    BY <1>2
  <2>2. /\ q.pc = "columns" /\ q.op = req[r].op /\ q.item = req[r].item
        /\ q.set = req[r].set /\ q.want = req[r].want /\ q.w = req[r].w
        /\ q.mine = req[r].mine /\ q.out = req[r].out /\ q \in Requested
    BY <1>0 DEF Requested
  <2> HIDE DEF q
  <2>3. Kept(q)
    BY <1>0, <2>2 DEF Kept, StepsInOrder, WritesFit, Counted, Replacing
  <2>4. \A s \in Requests \ {r} : Apart(q, req[s]) /\ Apart(req[s], q)
    BY <2>2, KeptFacts DEF Apart
  <2> QED
    BY <1>0, <1>2, <2>1, <2>2, <2>3, <2>4, ManualOwnStep
<1> QED
  BY <1>1, <1>2 DEF PutObject

LEMMA AbortStep ==
  ASSUME ManualInv, NEW r \in Requests, Abort(r)
  PROVE  ManualInv'
<1>1. /\ req[r].pc # "done" /\ End(r, "500") /\ UNCHANGED <<rows, tagged, tags, image, loose>>
      /\ bucket' = bucket /\ bucket \subseteq Requests
  BY DEF Abort, Store, ManualInv, ManualTyped
<1> QED
  BY <1>1, EndStep

LEMMA StartCsvStep ==
  ASSUME ManualInv, NEW r \in Requests, NEW file \in CsvFiles, StartCsv(r, file)
  PROVE  ManualInv'
<1> USE IdleRequest
<1> DEFINE q == [Idle EXCEPT !.pc = "csv", !.op = "csv", !.todo = file, !.slugs = tags]
<1>1. /\ req[r].pc = "idle" /\ UNCHANGED Store /\ req' = [req EXCEPT ![r] = q]
      /\ tags \subseteq Tags /\ file \in Seq(Seq(Tags) \cup {BadRow})
  BY ManualAssumption DEF StartCsv, Begin, ManualInv, ManualTyped
<1>2. /\ q.pc = "csv" /\ q.op = "csv" /\ q.todo = file /\ q.w = NoWrites /\ q.mine = {}
      /\ q.out = "open" /\ q.inserted = 0 /\ q.skipped = 0 /\ q.total = 0 /\ q.set = "none"
      /\ q \in Requested
  BY <1>1 DEF Requested
<1> HIDE DEF q
<1>3. Kept(q)
  <2>0. q.w.rows = {} /\ q.inserted + q.skipped = q.total
    BY <1>2
  <2>1. Cardinality(q.w.rows) = 0
    BY <2>0, FS_EmptySet
  <2>2. StepsInOrder(q)
    BY <1>1, <1>2 DEF StepsInOrder
  <2>3. WritesFit(q) /\ Replacing(q)
    BY <1>2 DEF WritesFit, Replacing
  <2> QED
    BY <1>2, <2>0, <2>1, <2>2, <2>3 DEF Kept, Counted
<1>4. UploadStored(r, q) /\ \A s \in Requests \ {r} : Apart(q, req[s]) /\ Apart(req[s], q)
  BY <1>2 DEF Apart, UploadStored
<1> QED
  BY <1>1, <1>2, <1>3, <1>4, StatementStep

(* A row of the file is used up: it is skipped, or stored with its tags as *)
(* the one item that the import can have.                                  *)
LEMMA CsvStepKeeps ==
  ASSUME ManualInv, NEW r \in Requests, req[r].pc = "csv", req[r].todo # <<>>,
         NEW stored \in BOOLEAN, NEW kept \in SUBSET NewItems, CsvStep(r, stored, kept),
         UNCHANGED Store, ~stored => kept = {},
         stored => /\ Head(req[r].todo) # BadRow /\ RangeOf(Head(req[r].todo)) \subseteq tags
                   /\ req[r].w.rows = {}
                   /\ \E i : kept = {i} /\ i \notin rows
                             /\ \A s \in Requests \ {r} : i \notin req[s].w.rows \cup req[s].mine
  PROVE  ManualInv'
<1> DEFINE line == Head(req[r].todo)
           pairs == IF stored THEN kept \X RangeOf(line) ELSE {}
           w == [req[r].w EXCEPT !.rows = req[r].w.rows \cup kept,
                                 !.add = req[r].w.add \cup pairs]
           ins == req[r].inserted + (IF stored THEN 1 ELSE 0)
           skip == req[r].skipped + (IF stored THEN 0 ELSE 1)
           tot == req[r].total + 1
           q == [req[r] EXCEPT !.todo = Tail(req[r].todo), !.total = tot, !.inserted = ins,
                               !.skipped = skip, !.w = w]
<1>0. /\ req[r] \in Requested /\ req[r].w \in Writes /\ Kept(req[r]) /\ UploadStored(r, req[r])
      /\ tags \subseteq Tags /\ req[r].op = "csv" /\ req[r].mine = {} /\ req[r].out = "open"
  BY KeptFacts DEF Kept, StepsInOrder, ManualInv, ManualTyped
<1>1. /\ Tail(req[r].todo) \in Seq(Seq(Tags) \cup {BadRow})
      /\ line \in Seq(Tags) \cup {BadRow}
  BY <1>0, RangeSplit DEF Kept, StepsInOrder
<1>2. req' = [req EXCEPT ![r] = q]
  BY DEF CsvStep
<1>3. /\ pairs \subseteq AllItems \X Tags
      /\ \A p \in pairs : p[1] \in kept /\ p[2] \in tags
  <2>1. CASE stored
    BY <1>0, <2>1 DEF AllItems
  <2>2. CASE ~stored
    BY <2>2
  <2> QED
    BY <2>1, <2>2
<1>4. ins \in Nat /\ skip \in Nat /\ tot \in Nat /\ req[r].inserted \in Nat
      /\ req[r].skipped \in Nat /\ req[r].total \in Nat
  BY <1>0 DEF Requested
<1>5. ins + skip = req[r].inserted + req[r].skipped + 1
  BY <1>4
<1>6. ins = IF stored THEN req[r].inserted + 1 ELSE req[r].inserted
  BY <1>4
<1> HIDE DEF pairs, line
<1>7. /\ w \in Writes /\ w.rows = req[r].w.rows \cup kept /\ w.add = req[r].w.add \cup pairs
      /\ w.del = req[r].w.del /\ w.row = req[r].w.row /\ w.image = req[r].w.image
  BY <1>0, <1>3 DEF Writes
<1> HIDE DEF w, ins, skip
<1>8. /\ q \in Requested /\ q.w = w /\ q.pc = "csv" /\ q.todo = Tail(req[r].todo)
      /\ q.op = "csv" /\ q.item = req[r].item /\ q.set = req[r].set
      /\ q.want = req[r].want /\ q.mine = {} /\ q.out = "open"
      /\ q.inserted = ins /\ q.skipped = skip /\ q.total = tot
  BY <1>0, <1>1, <1>4, <1>7 DEF Requested
<1> HIDE DEF q
<1>9. CASE ~stored
  <2>1. w.rows = req[r].w.rows /\ w.add = req[r].w.add
    BY <1>7, <1>9 DEF pairs
  <2>2. StepsInOrder(q)
    BY <1>0, <1>1, <1>7, <1>8 DEF Kept, StepsInOrder
  <2>3. WritesFit(q)
    BY <1>0, <1>7, <1>8, <2>1 DEF Kept, WritesFit
  <2>4. Counted(q)
    BY <1>0, <1>4, <1>5, <1>6, <1>8, <1>9, <2>1 DEF Kept, Counted
  <2>5. Replacing(q) /\ UploadStored(r, q)
    BY <1>0, <1>8 DEF Replacing, UploadStored
  <2>6. \A s \in Requests \ {r} : Apart(q, req[s]) /\ Apart(req[s], q)
    BY <1>0, <1>7, <1>8, <2>1, KeptFacts DEF Apart
  <2> QED
    BY <1>2, <1>8, <2>2, <2>3, <2>4, <2>5, <2>6, StatementStep DEF Kept
<1>10. CASE stored
  <2>0. PICK i : kept = {i} /\ i \notin rows
                 /\ \A s \in Requests \ {r} : i \notin req[s].w.rows \cup req[s].mine
    BY <1>10
  <2>1. w.rows = {i} /\ req[r].w.rows = {}
    BY <1>7, <1>10, <2>0
  <2>2. StepsInOrder(q)
    BY <1>0, <1>1, <1>7, <1>8 DEF Kept, StepsInOrder
  <2>3. \A p \in w.add : p[2] \in tags /\ p[1] \in w.rows
    BY <1>0, <1>3, <1>7, <2>0, <2>1 DEF Kept, WritesFit
  <2>4. WritesFit(q)
    BY <1>0, <1>7, <1>8, <2>0, <2>1, <2>3 DEF Kept, WritesFit
  <2>5. Counted(q)
    <3>1. req[r].inserted = 0 /\ Cardinality({i}) = 1
      BY <1>0, <2>1, FS_EmptySet, FS_Singleton DEF Kept, Counted
    <3> QED
      BY <1>0, <1>4, <1>5, <1>6, <1>8, <1>10, <2>1, <3>1 DEF Kept, Counted
  <2>6. Replacing(q) /\ UploadStored(r, q)
    BY <1>0, <1>8 DEF Replacing, UploadStored
  <2>7. \A s \in Requests \ {r} : Apart(q, req[s]) /\ Apart(req[s], q)
    BY <1>0, <1>7, <1>8, <2>0, <2>1, KeptFacts DEF Apart
  <2> QED
    BY <1>2, <1>8, <2>2, <2>4, <2>5, <2>6, <2>7, StatementStep DEF Kept
<1> QED
  BY <1>9, <1>10

LEMMA CsvSkipStep ==
  ASSUME ManualInv, NEW r \in Requests, CsvSkip(r)
  PROVE  ManualInv'
BY CsvStepKeeps DEF CsvSkip

LEMMA CsvRowStep ==
  ASSUME ManualInv, NEW r \in Requests, CsvRow(r)
  PROVE  ManualInv'
<1> DEFINE line == Head(req[r].todo)
           fits == ~KeyTaken(r) /\ NoRepeats(line) /\ RangeOf(line) \subseteq tags
<1>1. /\ req[r].pc = "csv" /\ req[r].todo # <<>> /\ line # BadRow /\ UNCHANGED Store
      /\ CsvStep(r, fits, IF fits THEN {NextId} ELSE {})
  BY DEF CsvRow
<1>2. CASE fits
  <2>1. /\ NextId \in NewItems /\ NextId \notin rows /\ req[r].w.rows = {}
        /\ \A s \in Requests : NextId \notin req[s].w.rows \cup req[s].mine
    BY <1>1, <1>2, IdsSuffice
  <2>2. CsvStep(r, TRUE, {NextId}) /\ RangeOf(line) \subseteq tags
    BY <1>1, <1>2
  <2>3. {NextId} \in SUBSET NewItems
    BY <2>1
  <2> QED
    BY <1>1, <2>1, <2>2, <2>3, CsvStepKeeps
<1>3. CASE ~fits
  <2>1. CsvStep(r, FALSE, {})
    BY <1>1, <1>3
  <2> QED
    BY <1>1, <2>1, CsvStepKeeps
<1> QED
  BY <1>2, <1>3

----
(* A commit: what the request has written is there, and its answer stands; *)
(* what the others have written fits as before, since the ids are theirs   *)
(* and a PATCH that holds a row lock is alone with it.                     *)
LEMMA CommitStep ==
  ASSUME ManualInv, NEW r \in Requests, Commit(r)
  PROVE  ManualInv'
<1> DEFINE o == req[r]
<1>1. PICK q \in Requested :
        /\ req' = [req EXCEPT ![r] = q]
        /\ q.pc = "done" /\ q.out = "ok" /\ q.w = NoWrites /\ q.mine = o.w.rows
        /\ q.op = o.op /\ q.set = "none" /\ q.total = o.total
        /\ q.inserted = o.inserted /\ q.skipped = o.skipped
  BY EndFacts DEF Commit
<1>2. /\ o \in Requested /\ o.w \in Writes /\ Kept(o) /\ UploadStored(r, o)
      /\ o.pc \in {"flushed", "tags", "csv"}
      /\ o.pc = "tags" => o.op = "patch" /\ o.todo = <<>>
  BY KeptFacts DEF Commit, Ready
<1>3. /\ rows' = rows \cup o.w.rows /\ tagged' = (tagged \ o.w.del) \cup o.w.add
      /\ image' = IF ~o.w.image THEN image
                  ELSE [image EXCEPT ![o.item] = IF o.set = "upload" THEN r ELSE External]
      /\ loose' = (loose \ o.w.del)
                     \cup (IF o.op = "patch" /\ o.set = "none" THEN o.w.add ELSE {})
      /\ tags' = tags /\ bucket' = bucket
  BY DEF Commit
<1>4. \A s \in Requests \ {r} : /\ req'[s] = req[s] /\ Kept(req[s]) /\ req[s] \in Requested
                                /\ Apart(o, req[s]) /\ Apart(req[s], o)
  BY <1>1, KeptFacts DEF ManualInv, ManualTyped
<1>5. req'[r] = q
  BY <1>1 DEF ManualInv, ManualTyped
<1> HIDE DEF o
<1>6. ManualTyped'
  <2>1. /\ rows \subseteq AllItems /\ tagged \subseteq AllItems \X Tags /\ tags \subseteq Tags
        /\ bucket \subseteq Requests /\ loose \subseteq AllItems \X Tags
        /\ image \in [AllItems -> Requests \cup {NoImage, External}]
        /\ req \in [Requests -> Requested]
    BY DEF ManualInv, ManualTyped
  <2>2. /\ o.w.rows \subseteq AllItems /\ o.w.add \subseteq AllItems \X Tags
        /\ o.item \in AllItems
    BY <1>2 DEF Writes, Requested, AllItems
  <2>3. image' \in [AllItems -> Requests \cup {NoImage, External}]
    BY <1>3, <2>1, <2>2
  <2> QED
    BY <1>1, <1>3, <2>1, <2>2, <2>3 DEF ManualTyped
<1>7. RequestsKept'
  <2>1. ASSUME NEW s \in Requests PROVE \E t \in Requested : req'[s] = t /\ Kept(t)'
    <3>1. CASE s = r
      <4>1. /\ NoWrites.rows = {} /\ NoWrites.add = {} /\ NoWrites.del = {}
            /\ ~NoWrites.image /\ ~NoWrites.row
        BY IdleRequest
      <4>2. \A x, y \in q.mine : x = y
        BY <1>1, <1>2 DEF Kept, WritesFit
      <4>3. Kept(q)'
        BY <1>1, <4>1, <4>2 DEF Kept, StepsInOrder, WritesFit, Counted, Replacing
      <4> QED
        BY <1>5, <3>1, <4>3
    <3>2. CASE s # r
      <4>0. PICK t \in Requested : t = req[s]
        BY <1>4, <3>2
      <4>1. Kept(t) /\ Apart(o, t) /\ Apart(t, o) /\ req'[s] = t
        BY <1>4, <3>2, <4>0
      <4>2. (o.w.rows \cap (t.w.rows \cup t.mine)) = {} /\ o.w.rows \cap rows = {}
        BY <1>2, <4>1 DEF Apart, Kept, WritesFit
      <4>3. StepsInOrder(t)' /\ Counted(t)'
        BY <4>1 DEF Kept, StepsInOrder, Counted
      <4>4. WritesFit(t)'
        BY <1>3, <4>1, <4>2 DEF Kept, WritesFit
      <4>5. Replacing(t)'
        <5> SUFFICES ASSUME t.op = "patch", t.set # "none", t.pc \in {"delete", "tags"}
                     PROVE  /\ t.pc = "delete" => \A x \in tagged' :
                                   x[1] = t.item => x \in t.scan \cup loose'
                            /\ t.pc = "tags" => \A x \in tagged' :
                                   x[1] = t.item => x \in t.w.del \cup loose'
          BY <4>1 DEF Kept, Replacing
        <5>1. t.w.row /\ t.item \in rows
          BY <4>1 DEF Kept, StepsInOrder, WritesFit
        <5>2. ASSUME NEW x \in o.w.add, x[1] = t.item PROVE x \in loose'
          <6>1. o.op = "patch"
            BY <1>2, <4>2, <5>1, <5>2 DEF Kept, WritesFit
          <6>2. o.item = t.item
            BY <1>2, <5>2, <6>1 DEF Kept, WritesFit
          <6>3. o.set = "none"
            BY <1>2, <4>1, <5>1, <6>1, <6>2 DEF Kept, StepsInOrder, Apart
          <6> QED
            BY <1>3, <5>2, <6>1, <6>3
        <5>3. \A x \in tagged : x \in tagged' => x \in o.w.add \/ x \notin o.w.del
          BY <1>3
        <5>4. \A x \in tagged' : x \in tagged \/ x \in o.w.add
          BY <1>3
        <5>5. \A x \in loose : x \notin o.w.del => x \in loose'
          BY <1>3
        <5>6. CASE t.pc = "delete"
          BY <4>1, <5>2, <5>3, <5>4, <5>5, <5>6 DEF Kept, Replacing
        <5>7. CASE t.pc = "tags"
          BY <4>1, <5>2, <5>3, <5>4, <5>5, <5>7 DEF Kept, Replacing
        <5> QED
          BY <5>6, <5>7
      <4> QED
        BY <4>1, <4>3, <4>4, <4>5 DEF Kept
    <3> QED
      BY <3>1, <3>2
  <2>2. ASSUME NEW s \in Requests PROVE Kept(req[s])'
    <3>1. PICK t \in Requested : req'[s] = t /\ Kept(t)'
      BY <2>1
    <3> QED
      BY <3>1 DEF Kept, StepsInOrder, WritesFit, Counted, Replacing
  <2> QED
    BY <2>2 DEF RequestsKept
<1>8. AllApart'
  <2>1. /\ NoWrites.rows = {} /\ ~NoWrites.row
    BY IdleRequest
  <2>2. \A s \in Requests \ {r} : Apart(q, req[s]) /\ Apart(req[s], q)
    BY <1>1, <1>4, <2>1 DEF Apart
  <2>3. \A s, t \in Requests : s # t => Apart(req'[s], req'[t])
    BY <1>4, <1>5, <2>2, KeptFacts
  <2> QED
    BY <2>3 DEF AllApart, Apart
<1>9. UploadsStored'
  <2>1. \A s \in Requests : UploadStored(s, req'[s])
    BY <1>1, <1>4, <1>5, KeptFacts DEF UploadStored
  <2> QED
    BY <1>3, <2>1 DEF UploadsStored, UploadStored
<1>10. AnswersStand'
  <2>1. ASSUME NEW s \in Requests, req'[s].pc = "done", req'[s].out = "ok", req'[s].op = "csv"
        PROVE  /\ req'[s].mine \subseteq rows'
               /\ req'[s].inserted = Cardinality(req'[s].mine)
               /\ req'[s].inserted + req'[s].skipped = req'[s].total
    <3>1. CASE s = r
      <4>1. o.pc = "csv"
        BY <1>1, <1>2, <1>5, <2>1, <3>1 DEF Kept, StepsInOrder
      <4> QED
        BY <1>1, <1>2, <1>3, <1>5, <3>1, <4>1 DEF Kept, Counted
    <3>2. CASE s # r
      BY <1>3, <1>4, <2>1, <3>2 DEF ManualInv, AnswersStand
    <3> QED
      BY <3>1, <3>2
  <2>2. ASSUME NEW s \in Requests, req'[s].pc = "done", req'[s].out # "ok"
        PROVE  req'[s].mine \cap rows' = {}
    <3>1. s # r
      BY <1>1, <1>5, <2>2
    <3>2. req[s].mine \cap rows = {} /\ req'[s] = req[s]
      BY <1>4, <2>2, <3>1 DEF ManualInv, AnswersStand
    <3>3. o.w.rows \cap req[s].mine = {}
      BY <1>4, <3>1 DEF Apart
    <3> QED
      BY <1>3, <3>2, <3>3
  <2>3. ASSUME NEW i \in AllItems, image'[i] \in Requests
        PROVE  image'[i] \in bucket' /\ req'[image'[i]].out = "ok"
    <3>0. image \in [AllItems -> Requests \cup {NoImage, External}]
      BY DEF ManualInv, ManualTyped
    <3>1. CASE image'[i] = image[i]
      BY <1>1, <1>3, <1>4, <1>5, <2>3, <3>1 DEF ManualInv, AnswersStand
    <3>2. CASE image'[i] # image[i]
      <4>1. i = o.item /\ image'[i] = r /\ o.set = "upload"
        BY <1>3, <2>3, <3>0, <3>2, ManualAssumption
      <4>2. r \in bucket
        BY <1>2, <4>1 DEF UploadStored
      <4> QED
        BY <1>1, <1>3, <1>5, <4>1, <4>2
    <3> QED
      BY <3>1, <3>2
  <2>4. \A p \in tagged' : p[1] \in rows' /\ p[2] \in tags'
    BY <1>2, <1>3 DEF ManualInv, AnswersStand, Kept, WritesFit
  <2> QED
    BY <2>1, <2>2, <2>3, <2>4 DEF AnswersStand
<1> QED
  BY <1>6, <1>7, <1>8, <1>9, <1>10 DEF ManualInv

LEMMA DeleteTagStep ==
  ASSUME ManualInv, NEW g \in Tags, DeleteTag(g)
  PROVE  ManualInv'
<1>1. /\ tags' = tags \ {g} /\ tagged' = {p \in tagged : p[2] # g}
      /\ loose' = {p \in loose : p[2] # g} /\ UNCHANGED <<rows, image, bucket, req>>
      /\ \A s \in Requests : \A p \in req[s].w.add : p[2] # g
  BY DEF DeleteTag
<1>2. ManualTyped' /\ AllApart' /\ UploadsStored'
  BY <1>1 DEF ManualInv, ManualTyped, AllApart, Apart, UploadsStored, UploadStored
<1>3. RequestsKept'
  <2>1. ASSUME NEW s \in Requests PROVE Kept(req[s])'
    <3>1. Kept(req[s]) /\ req'[s] = req[s] /\ \A p \in req[s].w.add : p[2] # g
      BY <1>1, KeptFacts
    <3>2. WritesFit(req[s])'
      BY <1>1, <3>1 DEF Kept, WritesFit
    <3>3. Replacing(req[s])'
      BY <1>1, <3>1 DEF Kept, Replacing
    <3>4. StepsInOrder(req[s])' /\ Counted(req[s])'
      BY <3>1 DEF Kept, StepsInOrder, Counted
    <3> QED
      BY <3>2, <3>3, <3>4 DEF Kept
  <2> QED
    BY <2>1 DEF RequestsKept
<1>4. AnswersStand'
  BY <1>1 DEF ManualInv, AnswersStand
<1> QED
  BY <1>2, <1>3, <1>4 DEF ManualInv

LEMMA ManualInvStep == ManualInv /\ [ManualNext]_manual => ManualInv'
<1> SUFFICES ASSUME ManualInv, [ManualNext]_manual PROVE ManualInv'
  OBVIOUS
<1>1. CASE UNCHANGED manual
  <2>1. UNCHANGED <<rows, tagged, tags, image, bucket, req, loose>>
    BY <1>1 DEF manual
  <2>2. ManualTyped' /\ AllApart' /\ UploadsStored' /\ AnswersStand'
    BY <2>1 DEF ManualInv, ManualTyped, AllApart, Apart, UploadsStored, UploadStored, AnswersStand
  <2>3. RequestsKept'
    BY <2>1 DEF ManualInv, RequestsKept, Kept, StepsInOrder, WritesFit, Counted, Replacing
  <2> QED
    BY <2>2, <2>3 DEF ManualInv
<1>2. CASE ManualNext
  <2>1. ASSUME NEW r \in Requests, Arrive(r) PROVE ManualInv'
    BY <2>1, CreateItemStep, PatchItemStep, StartUploadStep, StartCsvStep DEF Arrive
  <2>2. ASSUME NEW r \in Requests, Handle(r) PROVE ManualInv'
    BY <2>2, AnswerCreatedStep, UpdateColumnsStep, ScanTagsStep, DeleteTagsStep, InsertTagStep,
       PutObjectStep, CsvSkipStep, CsvRowStep, CommitStep, AbortStep DEF Handle
  <2> QED
    BY <1>2, <2>1, <2>2, DeleteTagStep DEF ManualNext
<1> QED
  BY <1>1, <1>2

(* The inductive invariant holds of every behaviour. *)
THEOREM ManualInvHolds == ManualSpec => []ManualInv
BY InitManualInv, ManualInvStep, PTL DEF ManualSpec

(* What a request of the admin was answered is so, and stays so, for any   *)
(* items, tags, files and any number of overlapping requests.              *)
THEOREM AnswersAreKept == ManualSpec => []AnswersStand
<1>1. ManualInv => AnswersStand
  BY DEF ManualInv
<1> QED
  BY <1>1, ManualInvHolds, PTL

(* When a PATCH of a column and the tags commits, what the invariant says  *)
(* of it between its DELETE and its commit makes the replacement exact.    *)
LEMMA CommitIsExact ==
  ASSUME ManualInv, NEW r \in Requests, Replaces(r), req[r].set # "none", NEW g \in Tags
  PROVE  IF g \in RangeOf(req[r].want) THEN <<req[r].item, g>> \in tagged'
         ELSE <<req[r].item, g>> \in tagged' => <<req[r].item, g>> \in loose'
<1> DEFINE p == <<req[r].item, g>>
<1>1. /\ req[r].op = "patch" /\ req[r].want # NoTags /\ Ready(r)
      /\ tagged' = (tagged \ req[r].w.del) \cup req[r].w.add
      /\ loose' = loose \ req[r].w.del
  BY DEF Replaces, Commit
<1>2. Kept(req[r])
  BY KeptFacts
<1>3. req[r].pc = "tags" /\ req[r].todo = <<>>
  BY <1>1, <1>2 DEF Ready, Kept, StepsInOrder
<1>4. RangeOf(req[r].todo) = {}
  BY <1>2, <1>3, RangeSplit DEF Kept, StepsInOrder
<1>5. /\ \A x \in tagged : x[1] = req[r].item => x \in req[r].w.del \cup loose
      /\ \A x \in req[r].w.add : x[2] \in RangeOf(req[r].want)
      /\ \A h \in RangeOf(req[r].want) : <<req[r].item, h>> \in req[r].w.add
  BY <1>1, <1>2, <1>3, <1>4 DEF Kept, Replacing
<1>6. p[1] = req[r].item /\ p[2] = g
  OBVIOUS
<1>7. g \in RangeOf(req[r].want) => p \in tagged'
  BY <1>1, <1>5
<1> HIDE DEF p
<1>8. g \notin RangeOf(req[r].want) /\ p \in tagged' => p \in loose'
  BY <1>1, <1>5, <1>6
<1> QED
  BY <1>7, <1>8 DEF p

(* A PATCH that changes a column too replaces the item's tags atomically.  *)
THEOREM TagsAreReplaced == ManualSpec => ReplaceIsExact
<1>1. ManualInv /\ [ManualNext]_manual =>
        [\A r \in Requests : Replaces(r) /\ req[r].set # "none" =>
           \A g \in Tags : IF g \in RangeOf(req[r].want) THEN <<req[r].item, g>> \in tagged'
                           ELSE <<req[r].item, g>> \in tagged'
                                    => <<req[r].item, g>> \in loose']_manual
  BY CommitIsExact
<1> QED
  BY <1>1, ManualInvHolds, PTL DEF ManualSpec, ReplaceIsExact

----
(* Reviews, for any number of posts and admins and any limit of a claim.   *)

\* The session has inserted the item of p and not yet committed.
HoldsKey(a, p) ==
    /\ session[a].op = "approve" /\ p \in session[a].posts
    /\ session[a].phase \in {"deciding", "committing"}

HoldsRow(a, p) == session[a].phase = "committing" /\ p \in session[a].posts

\* One holder of a key, and only of a key that nobody has committed.
KeysExclusive ==
    \A a \in Admins, p \in Posts :
        HoldsKey(a, p) => /\ \A i \in items : i.post # p
                          /\ \A b \in Admins : HoldsKey(b, p) => a = b

\* One holder of a row, and what a claim holds is still pending.
RowsExclusive ==
    \A a \in Admins, p \in Posts :
        HoldsRow(a, p) => /\ \A b \in Admins : HoldsRow(b, p) => a = b
                          /\ session[a].op = "claim" => entry[p].status = "pending"

\* A decision is about one post; a claim goes straight to its commit.
Shapes ==
    \A a \in Admins :
        /\ session[a].op \in {"approve", "reject"} => \E p \in Posts : session[a].posts = {p}
        /\ session[a].op = "claim" => session[a].phase = "committing"
        /\ session[a].op = "reject" => session[a].phase # "inserting"
        /\ session[a].phase # "idle" => session[a].op # "none"

ReviewInv == ReviewTypeOK /\ PromotedOnce /\ ReviewerIsDecider /\ KeysExclusive /\ RowsExclusive /\ Shapes

(* Before the first request nothing is decided and nothing is held.        *)
LEMMA InitReviewInv == ReviewInit => ReviewInv
BY ReviewAssumption
   DEF ReviewInit, ReviewInv, ReviewTypeOK, Statuses, Items, NoSession, PromotedOnce, ReviewerIsDecider,
       KeysExclusive, RowsExclusive, Shapes, HoldsKey, HoldsRow

SessionType == [phase : {"idle", "inserting", "deciding", "committing"},
                op : {"none", "approve", "reject", "claim"},
                posts : SUBSET Posts]

RowType == [status : Statuses, reviewedBy : Admins \cup {Nobody}, promoted : Admins \cup {Nobody}]

(* A session that ends holds nothing; what the others hold is as before.   *)
LEMMA SessionEnds ==
    ASSUME ReviewTypeOK, NEW a \in Admins, session' = [session EXCEPT ![a] = NoSession]
    PROVE  /\ session' \in [Admins -> SessionType]
           /\ \A b \in Admins : session'[b] = IF b = a THEN NoSession ELSE session[b]
           /\ \A b \in Admins, p \in Posts : HoldsKey(b, p)' => b # a /\ HoldsKey(b, p)
           /\ \A b \in Admins, p \in Posts : HoldsRow(b, p)' => b # a /\ HoldsRow(b, p)
           /\ Shapes => Shapes'
<1>1. \A b \in Admins : session'[b] = IF b = a THEN NoSession ELSE session[b]
  BY DEF ReviewTypeOK
<1>2. session' \in [Admins -> SessionType]
  BY DEF ReviewTypeOK, SessionType, NoSession
<1>3. \A b \in Admins, p \in Posts : HoldsKey(b, p)' => b # a /\ HoldsKey(b, p)
  BY <1>1 DEF HoldsKey, NoSession
<1>4. \A b \in Admins, p \in Posts : HoldsRow(b, p)' => b # a /\ HoldsRow(b, p)
  BY <1>1 DEF HoldsRow, NoSession
<1>5. Shapes => Shapes'
  BY <1>1 DEF Shapes, NoSession
<1> QED
  BY <1>1, <1>2, <1>3, <1>4, <1>5

(* A claim takes pending rows that nobody holds.                           *)
LEMMA ClaimKeeps ==
    ASSUME ReviewInv, NEW a \in Admins, NEW S \in SUBSET Posts, ClaimPending(a, S)
    PROVE  ReviewInv'
<1> DEFINE claim == [phase |-> "committing", op |-> "claim", posts |-> S]
<1>1. /\ \A b \in Admins : session'[b] = IF b = a THEN claim ELSE session[b]
      /\ session' \in [Admins -> SessionType]
  BY DEF ClaimPending, Enter, ReviewInv, ReviewTypeOK, SessionType
<1>2. UNCHANGED <<entry, items, decidedBy>> /\ session[a].phase = "idle"
  BY DEF ClaimPending
<1>3. \A p \in S : entry[p].status = "pending" /\ \A b \in Admins : ~HoldsRow(b, p)
  BY DEF ClaimPending, Claimable, RowLocked, HoldsRow
<1>4. ReviewTypeOK'
  BY <1>1, <1>2 DEF ReviewInv, ReviewTypeOK, SessionType
<1>5. PromotedOnce' /\ ReviewerIsDecider'
  BY <1>2 DEF ReviewInv, PromotedOnce, ReviewerIsDecider
<1>6. KeysExclusive'
  <2>1. \A b \in Admins, p \in Posts : HoldsKey(b, p)' => HoldsKey(b, p)
    BY <1>1 DEF HoldsKey
  <2> QED
    BY <1>2, <2>1 DEF ReviewInv, KeysExclusive
<1>7. RowsExclusive'
  <2>1. \A b \in Admins, p \in Posts :
          HoldsRow(b, p)' <=> IF b = a THEN p \in S ELSE HoldsRow(b, p)
    BY <1>1 DEF HoldsRow
  <2> QED
    BY <1>1, <1>2, <1>3, <2>1 DEF ReviewInv, RowsExclusive
<1>8. Shapes'
  BY <1>1 DEF ReviewInv, Shapes
<1> QED
  BY <1>4, <1>5, <1>6, <1>7, <1>8 DEF ReviewInv

(* The commit of a decision: the row and, for an approval, its item.       *)
LEMMA DecisionKeeps ==
    ASSUME ReviewInv, NEW a \in Admins, CommitDecision(a)
    PROVE  ReviewInv'
<1> USE ReviewAssumption
<1>1. PICK p \in Posts : session[a].posts = {p}
  BY DEF ReviewInv, Shapes, CommitDecision
<1> DEFINE approving == session[a].op = "approve"
<1>2. /\ entry' = [entry EXCEPT ![p] = IF approving THEN Approved(@, a) ELSE Rejected(@, a)]
      /\ items' = IF approving THEN items \cup {[post |-> p, by |-> a]} ELSE items
      /\ decidedBy' = [decidedBy EXCEPT ![p] = a]
      /\ session' = [session EXCEPT ![a] = NoSession]
      /\ HoldsRow(a, p) /\ session[a].op \in {"approve", "reject"}
      /\ approving => HoldsKey(a, p)
  BY <1>1 DEF CommitDecision, HoldsRow, HoldsKey
<1>3. entry \in [Posts -> RowType] /\ decidedBy \in [Posts -> Admins \cup {Nobody}]
  BY DEF ReviewInv, ReviewTypeOK, RowType
<1>4. /\ entry'[p].status \in {"approved", "rejected"} /\ entry'[p].reviewedBy = a
      /\ entry'[p].promoted = IF approving THEN a ELSE entry[p].promoted
      /\ entry'[p].status = "approved" <=> approving
      /\ entry' \in [Posts -> RowType]
      /\ \A q \in Posts \ {p} : entry'[q] = entry[q]
  <2>1. Approved(entry[p], a) \in RowType /\ Rejected(entry[p], a) \in RowType
    BY <1>3 DEF Approved, Rejected, RowType, Statuses
  <2>2. entry' \in [Posts -> RowType] /\ \A q \in Posts \ {p} : entry'[q] = entry[q]
    BY <1>2, <1>3, <2>1
  <2>3. CASE approving
    <3>1. entry'[p] = Approved(entry[p], a)
      BY <1>2, <1>3, <2>3
    <3> QED
      BY <1>3, <2>2, <2>3, <3>1 DEF Approved, RowType
  <2>4. CASE ~approving
    <3>1. entry'[p] = Rejected(entry[p], a)
      BY <1>2, <1>3, <2>4
    <3> QED
      BY <1>3, <2>2, <2>4, <3>1 DEF Rejected, RowType
  <2> QED
    BY <2>3, <2>4
<1>5. /\ session' \in [Admins -> SessionType] /\ Shapes'
      /\ \A b \in Admins : session'[b] = IF b = a THEN NoSession ELSE session[b]
      /\ \A b \in Admins, q \in Posts : HoldsKey(b, q)' => b # a /\ HoldsKey(b, q)
      /\ \A b \in Admins, q \in Posts : HoldsRow(b, q)' => b # a /\ HoldsRow(b, q)
  BY <1>2, SessionEnds DEF ReviewInv
<1>6. items' \subseteq Items /\ items \subseteq items'
      /\ \A i \in items' : i \in items \/ (approving /\ i = [post |-> p, by |-> a])
  BY <1>2 DEF ReviewInv, ReviewTypeOK, Items
<1>7. ReviewTypeOK'
  BY <1>2, <1>3, <1>4, <1>5, <1>6 DEF ReviewTypeOK, RowType, SessionType
<1>8. PromotedOnce'
  <2>1. approving => \A i \in items : i.post # p
    BY <1>2 DEF ReviewInv, KeysExclusive
  <2>2. \A i, k \in items' : i.post = k.post => i = k
    BY <1>6, <2>1 DEF ReviewInv, PromotedOnce
  <2>3. approving => [post |-> p, by |-> a] \in items'
    BY <1>2
  <2>4. \A q \in Posts :
          /\ entry'[q].status = "approved" => entry'[q].promoted # Nobody
          /\ entry'[q].promoted # Nobody => [post |-> q, by |-> entry'[q].promoted] \in items'
    BY <1>4, <1>6, <2>3 DEF ReviewInv, PromotedOnce
  <2> QED
    BY <2>2, <2>4 DEF PromotedOnce
<1>9. ReviewerIsDecider'
  BY <1>2, <1>3, <1>4 DEF ReviewInv, ReviewerIsDecider
<1>10. KeysExclusive'
  BY <1>2, <1>5, <1>6 DEF ReviewInv, KeysExclusive
<1>11. RowsExclusive'
  BY <1>2, <1>4, <1>5 DEF ReviewInv, RowsExclusive
<1> QED
  BY <1>5, <1>7, <1>8, <1>9, <1>10, <1>11 DEF ReviewInv

(* The commit of a claim stamps rows that are pending still.               *)
LEMMA ClaimCommitKeeps ==
    ASSUME ReviewInv, NEW a \in Admins, CommitClaim(a)
    PROVE  ReviewInv'
<1>1. /\ session' \in [Admins -> SessionType] /\ Shapes'
      /\ \A b \in Admins : session'[b] = IF b = a THEN NoSession ELSE session[b]
      /\ \A b \in Admins, q \in Posts : HoldsKey(b, q)' => b # a /\ HoldsKey(b, q)
      /\ \A b \in Admins, q \in Posts : HoldsRow(b, q)' => b # a /\ HoldsRow(b, q)
  BY SessionEnds DEF CommitClaim, ReviewInv
<1>2. entry \in [Posts -> RowType]
  BY DEF ReviewInv, ReviewTypeOK, RowType
<1>3. /\ entry' \in [Posts -> RowType]
      /\ \A p \in Posts : /\ entry'[p].status = entry[p].status /\ entry'[p].promoted = entry[p].promoted
                          /\ p \notin session[a].posts => entry'[p] = entry[p]
  BY <1>2 DEF CommitClaim, RowType
<1>4. \A p \in session[a].posts \cap Posts : entry[p].status = "pending"
  BY DEF CommitClaim, ReviewInv, RowsExclusive, HoldsRow
<1>5. ReviewTypeOK'
  BY <1>1, <1>3 DEF CommitClaim, ReviewInv, ReviewTypeOK, RowType, SessionType
<1>6. PromotedOnce' /\ ReviewerIsDecider'
  BY <1>3, <1>4 DEF CommitClaim, ReviewInv, PromotedOnce, ReviewerIsDecider
<1>7. KeysExclusive' /\ RowsExclusive'
  BY <1>1, <1>3 DEF CommitClaim, ReviewInv, KeysExclusive, RowsExclusive
<1> QED
  BY <1>1, <1>5, <1>6, <1>7 DEF ReviewInv

(* A request that dies leaves what is committed as it was.                 *)
LEMMA RollbackKeeps ==
    ASSUME ReviewInv, NEW a \in Admins, Rollback(a)
    PROVE  ReviewInv'
<1>1. /\ session' \in [Admins -> SessionType] /\ Shapes'
      /\ \A b \in Admins : session'[b] = IF b = a THEN NoSession ELSE session[b]
      /\ \A b \in Admins, q \in Posts : HoldsKey(b, q)' => b # a /\ HoldsKey(b, q)
      /\ \A b \in Admins, q \in Posts : HoldsRow(b, q)' => b # a /\ HoldsRow(b, q)
  BY SessionEnds DEF Rollback, ReviewInv
<1>2. UNCHANGED <<entry, items, decidedBy>>
  BY DEF Rollback
<1>3. ReviewTypeOK'
  BY <1>1, <1>2 DEF ReviewInv, ReviewTypeOK, SessionType
<1>4. PromotedOnce' /\ ReviewerIsDecider'
  BY <1>2 DEF ReviewInv, PromotedOnce, ReviewerIsDecider
<1>5. KeysExclusive' /\ RowsExclusive'
  BY <1>1, <1>2 DEF ReviewInv, KeysExclusive, RowsExclusive
<1> QED
  BY <1>1, <1>3, <1>4, <1>5 DEF ReviewInv

(* approve and reject have read their row and hold nothing yet.            *)
LEMMA BeginKeeps ==
    ASSUME ReviewInv, NEW a \in Admins, NEW p \in Posts, BeginApprove(a, p) \/ BeginReject(a, p)
    PROVE  ReviewInv'
<1>1. PICK s \in SessionType :
        /\ session' = [session EXCEPT ![a] = s]
        /\ s.posts = {p}
        /\ \/ s.op = "approve" /\ s.phase = "inserting"
           \/ s.op = "reject" /\ s.phase = "deciding"
  <2>1. CASE BeginApprove(a, p)
    <3>1. [phase |-> "inserting", op |-> "approve", posts |-> {p}] \in SessionType
      BY DEF SessionType
    <3> QED
      BY <2>1, <3>1 DEF BeginApprove, Enter
  <2>2. CASE BeginReject(a, p)
    <3>1. [phase |-> "deciding", op |-> "reject", posts |-> {p}] \in SessionType
      BY DEF SessionType
    <3> QED
      BY <2>2, <3>1 DEF BeginReject, Enter
  <2> QED
    BY <2>1, <2>2
<1>2. /\ \A b \in Admins : session'[b] = IF b = a THEN s ELSE session[b]
      /\ session' \in [Admins -> SessionType]
  BY <1>1 DEF ReviewInv, ReviewTypeOK, SessionType
<1>3. UNCHANGED <<entry, items, decidedBy>>
  BY DEF BeginApprove, BeginReject
<1>4. \A b \in Admins, q \in Posts : /\ HoldsKey(b, q)' => b # a /\ HoldsKey(b, q)
                                     /\ HoldsRow(b, q)' => b # a /\ HoldsRow(b, q)
  BY <1>1, <1>2 DEF HoldsKey, HoldsRow
<1>5. ReviewTypeOK'
  BY <1>2, <1>3 DEF ReviewInv, ReviewTypeOK, SessionType
<1>6. PromotedOnce' /\ ReviewerIsDecider'
  BY <1>3 DEF ReviewInv, PromotedOnce, ReviewerIsDecider
<1>7. KeysExclusive' /\ RowsExclusive'
  BY <1>2, <1>3, <1>4 DEF ReviewInv, KeysExclusive, RowsExclusive
<1>8. Shapes'
  BY <1>1, <1>2 DEF ReviewInv, Shapes
<1> QED
  BY <1>5, <1>6, <1>7, <1>8 DEF ReviewInv

(* The UPDATE takes the row of its one post, which nobody holds.           *)
LEMMA UpdateKeeps ==
    ASSUME ReviewInv, NEW a \in Admins, UpdateRow(a)
    PROVE  ReviewInv'
<1>1. /\ session' = [session EXCEPT ![a].phase = "committing"]
      /\ UNCHANGED <<entry, items, decidedBy>> /\ session[a].phase = "deciding"
  BY DEF UpdateRow
<1>2. /\ \A b \in Admins \ {a} : session'[b] = session[b]
      /\ session'[a].phase = "committing"
      /\ session'[a].op = session[a].op /\ session'[a].posts = session[a].posts
      /\ session' \in [Admins -> SessionType]
  BY <1>1 DEF ReviewInv, ReviewTypeOK, SessionType
<1>3. session[a].op # "claim"
  BY <1>1 DEF ReviewInv, Shapes
<1>4. \A b \in Admins, q \in Posts : HoldsKey(b, q)' => HoldsKey(b, q)
  BY <1>1, <1>2 DEF HoldsKey
<1>5. \A b \in Admins, q \in Posts :
        HoldsRow(b, q)' <=> IF b = a THEN q \in session[a].posts ELSE HoldsRow(b, q)
  BY <1>2 DEF HoldsRow
<1>6. \A q \in session[a].posts, b \in Admins : ~HoldsRow(b, q)
  BY DEF UpdateRow, RowLocked, HoldsRow
<1>7. ReviewTypeOK'
  BY <1>1, <1>2 DEF ReviewInv, ReviewTypeOK, SessionType
<1>8. PromotedOnce' /\ ReviewerIsDecider'
  BY <1>1 DEF ReviewInv, PromotedOnce, ReviewerIsDecider
<1>9. KeysExclusive'
  BY <1>1, <1>4 DEF ReviewInv, KeysExclusive
<1>10. RowsExclusive'
  BY <1>1, <1>2, <1>3, <1>5, <1>6 DEF ReviewInv, RowsExclusive
<1>11. Shapes'
  BY <1>1, <1>2, <1>3 DEF ReviewInv, Shapes
<1> QED
  BY <1>7, <1>8, <1>9, <1>10, <1>11 DEF ReviewInv

(* The insert fails when the key is taken; else it takes a key that nobody *)
(* has.                                                                    *)
LEMMA InsertKeeps ==
    ASSUME ReviewInv, NEW a \in Admins, InsertItem(a)
    PROVE  ReviewInv'
<1>1. PICK p \in session[a].posts :
        /\ ~KeyLocked(a, p)
        /\ session' = [session EXCEPT ![a] =
              IF PostKeyTaken(p) THEN NoSession ELSE [@ EXCEPT !.phase = "deciding"]]
  BY DEF InsertItem
<1>2. /\ UNCHANGED <<entry, items, decidedBy>> /\ session[a].phase = "inserting"
      /\ session \in [Admins -> SessionType]
  BY DEF InsertItem, ReviewInv, ReviewTypeOK, SessionType
<1>3. CASE PostKeyTaken(p)
  <2>1. session' = [session EXCEPT ![a] = NoSession]
    BY <1>1, <1>3
  <2>2. /\ session' \in [Admins -> SessionType] /\ Shapes'
        /\ \A b \in Admins, q \in Posts : HoldsKey(b, q)' => b # a /\ HoldsKey(b, q)
        /\ \A b \in Admins, q \in Posts : HoldsRow(b, q)' => b # a /\ HoldsRow(b, q)
        /\ \A b \in Admins : session'[b] = IF b = a THEN NoSession ELSE session[b]
    BY <2>1, SessionEnds DEF ReviewInv
  <2>3. ReviewTypeOK'
    BY <1>2, <2>2 DEF ReviewInv, ReviewTypeOK, SessionType
  <2>4. PromotedOnce' /\ ReviewerIsDecider'
    BY <1>2 DEF ReviewInv, PromotedOnce, ReviewerIsDecider
  <2>5. KeysExclusive' /\ RowsExclusive'
    BY <1>2, <2>2 DEF ReviewInv, KeysExclusive, RowsExclusive
  <2> QED
    BY <2>2, <2>3, <2>4, <2>5 DEF ReviewInv
<1>4. CASE ~PostKeyTaken(p)
  <2>1. /\ \A b \in Admins \ {a} : session'[b] = session[b]
        /\ session'[a].phase = "deciding"
        /\ session'[a].op = session[a].op /\ session'[a].posts = session[a].posts
        /\ session' \in [Admins -> SessionType]
    BY <1>1, <1>2, <1>4 DEF SessionType
  <2>2. p \in Posts /\ session[a].posts = {p} /\ session[a].op = "approve"
    BY <1>1, <1>2 DEF ReviewInv, Shapes, SessionType
  <2>3. \A b \in Admins, q \in Posts :
           HoldsKey(b, q)' <=> HoldsKey(b, q) \/ (b = a /\ q = p)
    BY <1>2, <2>1, <2>2 DEF HoldsKey
  <2>4. (\A i \in items : i.post # p) /\ \A b \in Admins \ {a} : ~HoldsKey(b, p)
    BY <1>1, <1>4 DEF PostKeyTaken, KeyLocked, HoldsKey
  <2>5. KeysExclusive'
    BY <1>2, <2>3, <2>4 DEF ReviewInv, KeysExclusive
  <2>6. \A b \in Admins, q \in Posts : HoldsRow(b, q)' => b # a /\ HoldsRow(b, q)
    BY <2>1 DEF HoldsRow
  <2>7. RowsExclusive'
    BY <1>2, <2>1, <2>6 DEF ReviewInv, RowsExclusive
  <2>8. Shapes'
    BY <2>1, <2>2 DEF ReviewInv, Shapes
  <2>9. ReviewTypeOK'
    BY <1>2, <2>1 DEF ReviewInv, ReviewTypeOK, SessionType
  <2>10. PromotedOnce' /\ ReviewerIsDecider'
    BY <1>2 DEF ReviewInv, PromotedOnce, ReviewerIsDecider
  <2> QED
    BY <2>5, <2>7, <2>8, <2>9, <2>10 DEF ReviewInv
<1> QED
  BY <1>3, <1>4

(* Every step of a request keeps the inductive invariant.                  *)
LEMMA NextReviewInv == ReviewInv /\ [ReviewNext]_reviewing => ReviewInv'
<1> SUFFICES ASSUME ReviewInv, [ReviewNext]_reviewing PROVE ReviewInv'
    OBVIOUS
<1> USE ReviewAssumption DEF ReviewInv
<1>1. ASSUME NEW a \in Admins, NEW p \in Posts, BeginApprove(a, p) \/ BeginReject(a, p)
      PROVE  ReviewInv'
  BY <1>1, BeginKeeps
<1>2. ASSUME NEW a \in Admins, NEW S \in SUBSET Posts, ClaimPending(a, S)
      PROVE  ReviewInv'
  BY <1>2, ClaimKeeps
<1>3. ASSUME NEW a \in Admins, InsertItem(a)
      PROVE  ReviewInv'
  BY <1>3, InsertKeeps
<1>4. ASSUME NEW a \in Admins, UpdateRow(a)
      PROVE  ReviewInv'
  BY <1>4, UpdateKeeps
<1>5. ASSUME NEW a \in Admins, CommitDecision(a)
      PROVE  ReviewInv'
  BY <1>5, DecisionKeeps
<1>6. ASSUME NEW a \in Admins, CommitClaim(a)
      PROVE  ReviewInv'
  BY <1>6, ClaimCommitKeeps
<1>7. ASSUME NEW a \in Admins, Rollback(a)
      PROVE  ReviewInv'
  BY <1>7, RollbackKeeps
<1>8. CASE UNCHANGED reviewing
  BY <1>8 DEF reviewing, ReviewTypeOK, PromotedOnce, ReviewerIsDecider,
              KeysExclusive, RowsExclusive, Shapes, HoldsKey, HoldsRow
<1> QED
  BY <1>1, <1>2, <1>3, <1>4, <1>5, <1>6, <1>7, <1>8 DEF ReviewNext, SessionStep

(* The inductive invariant holds in every reachable state.                 *)
LEMMA ReviewInvHolds == ReviewSpec => []ReviewInv
BY InitReviewInv, NextReviewInv, PTL DEF ReviewSpec

(* However many admins decide on however many posts, one item comes of a   *)
(* post and its row points at it.                                          *)
THEOREM OneItemPerPost == ReviewSpec => []PromotedOnce
BY ReviewInvHolds, PTL DEF ReviewInv

(* A claim in flight never stamps its admin on another's decision.         *)
THEOREM DeciderIsRecorded == ReviewSpec => []ReviewerIsDecider
BY ReviewInvHolds, PTL DEF ReviewInv

(* The rows, items and sessions keep their types.                          *)
THEOREM ReviewTypeCorrect == ReviewSpec => []ReviewTypeOK
BY ReviewInvHolds, PTL DEF ReviewInv

----
(* Fetches, for any number of tasks and posts, any answers of the Graph    *)
(* API, any limit of its calls and any number of retries.                  *)

FetchType == [pc : {"waiting", "ready", "expire", "fetch", "check", "insert",
                    "done", "failed", "lost"},
              tries : Nat, posts : Seq(PostIds \cup {NoId}), new : Seq(PostIds),
              seen : SUBSET PostIds, w : SUBSET PostIds, result : Nat]

FetchTyped == /\ rate \in [count : Nat, ttl : BOOLEAN]
              /\ queue \in SUBSET PostIds
              /\ fetcher \in [Tasks -> FetchType]

(* A post of the answer is queued, inserted, or on one of the two lists    *)
(* that are still to be worked off; result is ahead of the rows inserted   *)
(* by those to come; and an inserted row is not yet seen in the queue.     *)
Settling(f, q) ==
    /\ f.pc \notin {"check", "insert", "done"} => f.w = {}
    /\ f.pc \in {"waiting", "ready", "expire", "fetch"} => f.new = <<>> /\ f.result = 0
    /\ f.pc = "check" => /\ f.w = {} /\ f.result = Len(f.new)
                         /\ f.seen \subseteq q \cup RangeOf(f.new) \cup RangeOf(f.posts)
    /\ f.pc = "insert" => /\ IsFiniteSet(f.w) /\ f.result = Len(f.new) + Cardinality(f.w)
                          /\ f.seen \subseteq q \cup f.w \cup RangeOf(f.new)
                          /\ f.w \cap q = {}
    /\ f.pc = "done" => /\ f.seen \cup f.w \subseteq q
                        /\ f.result = Cardinality(f.w)

RowsApart == \A t \in Tasks : \A u \in Tasks \ {t} : fetcher[t].w \cap fetcher[u].w = {}

FetchInv == FetchTyped /\ (\A t \in Tasks : Settling(fetcher[t], queue)) /\ RowsApart

\* A task with no row yet; the records in which the model writes it are such.
Blank(f) == /\ f \in FetchType /\ f.pc \in {"waiting", "ready", "failed"}
            /\ f.w = {} /\ f.new = <<>> /\ f.result = 0

LEMMA Unstarted ==
  ASSUME NEW f, NEW q, Blank(f)
  PROVE  f \in FetchType /\ Settling(f, q) /\ f.w = {}
BY DEF Blank, Settling

LEMMA BlankForms ==
  /\ Blank(Waiting) /\ Blank(Called)
  /\ \A n \in Nat : /\ Blank([Called EXCEPT !.tries = n])
                    /\ Blank([Called EXCEPT !.pc = "failed", !.tries = n])
<1>1. <<>> \in Seq(PostIds) /\ <<>> \in Seq(PostIds \cup {NoId})
  OBVIOUS
<1>2. Blank(Waiting)
  BY <1>1 DEF Waiting, Blank, FetchType
<1>3. Blank(Called)
  BY <1>2 DEF Called, Blank, FetchType
<1>4. ASSUME NEW n \in Nat
      PROVE  /\ Blank([Called EXCEPT !.tries = n])
             /\ Blank([Called EXCEPT !.pc = "failed", !.tries = n])
  BY <1>3 DEF Blank, FetchType
<1> QED
  BY <1>2, <1>3, <1>4

\* A step that adds nothing to the queue and changes one task.
LEMMA OneFetcher ==
  ASSUME FetchInv, NEW t \in Tasks, NEW g \in FetchType,
         fetcher' = [fetcher EXCEPT ![t] = g], queue' = queue,
         rate' \in [count : Nat, ttl : BOOLEAN],
         Settling(g, queue),
         \A u \in Tasks \ {t} : g.w \cap fetcher[u].w = {}
  PROVE  FetchInv'
<1>1. FetchTyped'
  BY DEF FetchInv, FetchTyped
<1>2. fetcher'[t] = g /\ \A u \in Tasks \ {t} : fetcher'[u] = fetcher[u]
  BY DEF FetchInv, FetchTyped
<1>3. \A u \in Tasks : Settling(fetcher'[u], queue')
  BY <1>2 DEF FetchInv
<1>4. RowsApart'
  BY <1>2 DEF FetchInv, RowsApart
<1> QED
  BY <1>1, <1>3, <1>4 DEF FetchInv

LEMMA RaisedKeeps ==
  ASSUME FetchInv, NEW t \in Tasks, Raised(t), queue' = queue,
         rate' \in [count : Nat, ttl : BOOLEAN]
  PROVE  FetchInv'
<1>1. PICK g : Blank(g) /\ fetcher' = [fetcher EXCEPT ![t] = g]
  <2>1. fetcher[t].tries \in Nat /\ fetcher[t].tries + 1 \in Nat
    BY DEF FetchInv, FetchTyped, FetchType
  <2>2. CASE fetcher[t].tries < MaxRetries
    <3>1. fetcher' = [fetcher EXCEPT ![t] = [Called EXCEPT !.tries = fetcher[t].tries + 1]]
      BY <2>2 DEF Raised
    <3> QED
      BY <2>1, <3>1, BlankForms
  <2>3. CASE ~(fetcher[t].tries < MaxRetries)
    <3>1. fetcher' = [fetcher EXCEPT ![t] = [Called EXCEPT !.pc = "failed", !.tries = fetcher[t].tries]]
      BY <2>3 DEF Raised
    <3> QED
      BY <2>1, <3>1, BlankForms
  <2> QED
    BY <2>2, <2>3
<1>2. g \in FetchType /\ Settling(g, queue) /\ g.w = {}
  BY <1>1, Unstarted
<1> QED
  BY <1>1, <1>2, OneFetcher

\* A task that goes on to another stage.
LEMMA ToKeeps ==
  ASSUME FetchInv, NEW t \in Tasks, NEW pc \in {"expire", "fetch"}, To(t, pc),
         fetcher[t].pc \in {"ready", "expire"}, queue' = queue,
         rate' \in [count : Nat, ttl : BOOLEAN]
  PROVE  FetchInv'
<1> DEFINE g == [fetcher[t] EXCEPT !.pc = pc]
<1>1. fetcher[t] \in FetchType /\ Settling(fetcher[t], queue)
  BY DEF FetchInv, FetchTyped
<1>2. g \in FetchType /\ Settling(g, queue) /\ g.w = {}
  BY <1>1 DEF FetchType, Settling
<1>3. fetcher' = [fetcher EXCEPT ![t] = g]
  BY DEF To
<1> QED
  BY <1>2, <1>3, OneFetcher

LEMMA CallKeeps ==
  ASSUME FetchInv, NEW t \in Tasks, Trigger(t) \/ Count(t) \/ SetTtl(t)
  PROVE  FetchInv'
<1>1. rate.count \in Nat /\ rate = [count |-> rate.count, ttl |-> rate.ttl] /\ rate.ttl \in BOOLEAN
  BY DEF FetchInv, FetchTyped
<1>2. CASE Trigger(t)
  <2>1. Called \in FetchType /\ Settling(Called, queue) /\ Called.w = {}
    BY BlankForms, Unstarted
  <2>2. rate' \in [count : Nat, ttl : BOOLEAN] /\ queue' = queue
        /\ fetcher' = [fetcher EXCEPT ![t] = Called]
    BY <1>1, <1>2 DEF Trigger
  <2> QED
    BY <2>1, <2>2, OneFetcher
<1>3. CASE Count(t)
  <2>1. rate' \in [count : Nat, ttl : BOOLEAN] /\ queue' = queue
        /\ (To(t, "expire") \/ Raised(t) \/ To(t, "fetch"))
    BY <1>1, <1>3 DEF Count
  <2> QED
    BY <1>3, <2>1, ToKeeps, RaisedKeeps DEF Count
<1>4. CASE SetTtl(t)
  <2>0. (rate.count > 0) \in BOOLEAN
    BY <1>1
  <2>1. rate' \in [count : Nat, ttl : BOOLEAN] /\ queue' = queue /\ To(t, "fetch")
    BY <1>1, <1>4, <2>0 DEF SetTtl
  <2> QED
    BY <1>4, <2>1, ToKeeps DEF SetTtl
<1> QED
  BY <1>2, <1>3, <1>4

LEMMA AnswerKeeps ==
  ASSUME FetchInv, NEW t \in Tasks, NEW posts \in Responses, Fetch(t, posts)
  PROVE  FetchInv'
<1> DEFINE f == fetcher[t]
           g == [f EXCEPT !.pc = "check", !.posts = posts, !.seen = IdsIn(posts)]
<1>1. f \in FetchType /\ Settling(f, queue) /\ f.pc = "fetch"
  BY DEF Fetch, FetchInv, FetchTyped
<1>2. /\ posts \in Seq(PostIds \cup {NoId}) /\ RangeOf(posts) \subseteq PostIds \cup {NoId}
      /\ IdsIn(posts) = RangeOf(posts) \ {NoId}
  BY FetchAssumption, RangeSplit DEF IdsIn, RangeOf
<1>3. IdsIn(posts) \subseteq PostIds /\ IdsIn(posts) \subseteq RangeOf(posts)
  BY <1>2
<1>4. g \in FetchType
  BY <1>1, <1>2, <1>3 DEF FetchType
<1>5. Settling(g, queue) /\ g.w = {}
  <2>1. g.pc = "check" /\ g.posts = posts /\ g.seen = IdsIn(posts)
        /\ g.w = f.w /\ g.new = f.new /\ g.result = f.result
    BY <1>1 DEF FetchType
  <2>2. f.w = {} /\ f.new = <<>> /\ f.result = 0
    BY <1>1 DEF Settling
  <2> QED
    BY <2>1, <2>2, <1>3 DEF Settling
<1>6. fetcher' = [fetcher EXCEPT ![t] = g] /\ rate' \in [count : Nat, ttl : BOOLEAN] /\ queue' = queue
  BY DEF Fetch, FetchInv, FetchTyped
<1> QED
  BY <1>4, <1>5, <1>6, OneFetcher

\* A post without an id or queued is dropped; another joins the new ones.
LEMMA CheckKeeps ==
  ASSUME FetchInv, NEW t \in Tasks, CheckPost(t)
  PROVE  FetchInv'
<1> DEFINE f == fetcher[t]
           post == Head(f.posts)
           known == post = NoId \/ post \in queue
           g == [f EXCEPT !.posts = Tail(f.posts),
                          !.new = IF known THEN f.new ELSE Append(f.new, post),
                          !.result = IF known THEN f.result ELSE f.result + 1]
<1>1. f \in FetchType /\ Settling(f, queue) /\ f.pc = "check" /\ f.posts # <<>>
  BY DEF CheckPost, FetchInv, FetchTyped
<1>2. /\ f.posts \in Seq(PostIds \cup {NoId}) /\ f.new \in Seq(PostIds) /\ f.result \in Nat
      /\ f.seen \subseteq PostIds
  BY <1>1 DEF FetchType
<1>3. /\ RangeOf(f.posts) = {post} \cup RangeOf(Tail(f.posts))
      /\ post \in PostIds \cup {NoId} /\ Tail(f.posts) \in Seq(PostIds \cup {NoId})
  BY <1>1, <1>2, RangeSplit
<1>4. /\ f.w = {} /\ f.result = Len(f.new)
      /\ f.seen \subseteq queue \cup RangeOf(f.new) \cup RangeOf(f.posts)
  BY <1>1 DEF Settling
<1>5. fetcher' = [fetcher EXCEPT ![t] = g] /\ rate' \in [count : Nat, ttl : BOOLEAN] /\ queue' = queue
  BY DEF CheckPost, FetchInv, FetchTyped
<1>6. g.pc = "check" /\ g.posts = Tail(f.posts) /\ g.seen = f.seen /\ g.w = {}
  BY <1>1, <1>4 DEF FetchType
<1>7. g \in FetchType /\ Settling(g, queue)
  <2>1. CASE known
    <3>1. g.new = f.new /\ g.result = f.result
      BY <1>1, <2>1 DEF FetchType
    <3>2. g \in FetchType
      BY <1>1, <1>3, <2>1 DEF FetchType
    <3>3. f.seen \subseteq queue \cup RangeOf(f.new) \cup RangeOf(Tail(f.posts))
      BY <1>2, <1>3, <1>4, <2>1, FetchAssumption
    <3> QED
      BY <1>4, <1>6, <3>1, <3>2, <3>3 DEF Settling
  <2>2. CASE ~known
    <3>1. g.new = Append(f.new, post) /\ g.result = f.result + 1
      BY <1>1, <2>2 DEF FetchType
    <3>2. /\ Append(f.new, post) \in Seq(PostIds) /\ Len(Append(f.new, post)) = Len(f.new) + 1
          /\ \A k \in 1 .. Len(f.new) : Append(f.new, post)[k] = f.new[k]
          /\ Append(f.new, post)[Len(f.new) + 1] = post
      BY <1>2, <1>3, <2>2, AppendProperties
    <3>3. f.result + 1 \in Nat
      BY <1>2
    <3>4. g \in FetchType
      BY <1>1, <1>3, <2>2, <3>1, <3>2, <3>3 DEF FetchType
    <3>5. /\ DOMAIN f.new = 1 .. Len(f.new) /\ Len(f.new) \in Nat
          /\ DOMAIN Append(f.new, post) = 1 .. Len(f.new) + 1
      BY <1>2, <3>2, LenProperties
    <3>6. RangeOf(f.new) \cup {post} \subseteq RangeOf(Append(f.new, post))
      BY <3>2, <3>5 DEF RangeOf
    <3>7. f.seen \subseteq queue \cup RangeOf(Append(f.new, post)) \cup RangeOf(Tail(f.posts))
      BY <1>3, <1>4, <3>6
    <3> QED
      BY <1>4, <1>6, <3>1, <3>2, <3>4, <3>7 DEF Settling
  <2> QED
    BY <2>1, <2>2
<1> QED
  BY <1>5, <1>6, <1>7, OneFetcher

LEMMA FlushKeeps ==
  ASSUME FetchInv, NEW t \in Tasks, FlushPosts(t)
  PROVE  FetchInv'
<1> DEFINE f == fetcher[t]
           g == [f EXCEPT !.pc = "insert"]
<1>1. f \in FetchType /\ Settling(f, queue) /\ f.pc = "check" /\ f.posts = <<>>
  BY DEF FlushPosts, FetchInv, FetchTyped
<1>2. RangeOf(f.posts) = {}
  BY <1>1 DEF RangeOf
<1>3. g \in FetchType /\ g.pc = "insert" /\ g.w = f.w /\ g.new = f.new
      /\ g.seen = f.seen /\ g.result = f.result
  BY <1>1 DEF FetchType
<1>4. f.w = {} /\ f.result = Len(f.new) /\ f.seen \subseteq queue \cup RangeOf(f.new)
  BY <1>1, <1>2 DEF Settling
<1>5. IsFiniteSet({}) /\ Cardinality({}) = 0 /\ Len(f.new) \in Nat
  BY <1>1, FS_EmptySet, LenProperties DEF FetchType
<1>6. Settling(g, queue) /\ g.w = {}
  <2>1. g.w = {} /\ IsFiniteSet(g.w) /\ Cardinality(g.w) = 0
    BY <1>3, <1>4, <1>5
  <2>2. /\ g.result = Len(g.new) + Cardinality(g.w) /\ g.w \cap queue = {}
        /\ g.seen \subseteq queue \cup g.w \cup RangeOf(g.new)
    BY <1>3, <1>4, <1>5, <2>1
  <2>3. g.pc = "insert"
    BY <1>3
  <2> HIDE DEF g
  <2> QED
    BY <2>1, <2>2, <2>3 DEF Settling
<1>7. fetcher' = [fetcher EXCEPT ![t] = g] /\ rate' \in [count : Nat, ttl : BOOLEAN] /\ queue' = queue
  BY DEF FlushPosts, To, FetchInv, FetchTyped
<1> QED
  BY <1>3, <1>6, <1>7, OneFetcher

\* The row that is inserted is nobody's: the insert has waited for the open ones.
LEMMA PostInsertKeeps ==
  ASSUME FetchInv, NEW t \in Tasks, InsertPost(t)
  PROVE  FetchInv'
<1> DEFINE f == fetcher[t]
           post == Head(f.new)
           g == [f EXCEPT !.new = Tail(f.new), !.w = f.w \cup {post}]
<1>1. CASE post \in queue \cup f.w
  BY <1>1, RaisedKeeps DEF InsertPost, FetchInv, FetchTyped
<1>2. CASE post \notin queue \cup f.w
  <2>1. f \in FetchType /\ Settling(f, queue) /\ f.pc = "insert" /\ f.new # <<>>
    BY DEF InsertPost, FetchInv, FetchTyped
  <2>2. f.new \in Seq(PostIds) /\ f.w \subseteq PostIds /\ f.seen \subseteq PostIds /\ f.result \in Nat
    BY <2>1 DEF FetchType
  <2>3. RangeOf(f.new) = {post} \cup RangeOf(Tail(f.new)) /\ post \in PostIds /\ Tail(f.new) \in Seq(PostIds)
    BY <2>1, <2>2, RangeSplit
  <2>4. Len(Tail(f.new)) = Len(f.new) - 1 /\ Len(f.new) \in Nat
    BY <2>1, <2>2, HeadTailProperties, LenProperties
  <2>5. /\ IsFiniteSet(f.w) /\ f.result = Len(f.new) + Cardinality(f.w)
        /\ f.seen \subseteq queue \cup f.w \cup RangeOf(f.new) /\ f.w \cap queue = {}
    BY <2>1 DEF Settling
  <2>6. IsFiniteSet(f.w \cup {post}) /\ Cardinality(f.w \cup {post}) = Cardinality(f.w) + 1
        /\ Cardinality(f.w) \in Nat
    BY <1>2, <2>5, FS_AddElement, FS_CardinalityType
  <2>7. g \in FetchType /\ g.pc = "insert" /\ g.w = f.w \cup {post} /\ g.new = Tail(f.new)
        /\ g.seen = f.seen /\ g.result = f.result
    BY <2>1, <2>2, <2>3 DEF FetchType
  <2>8. f.result = Len(Tail(f.new)) + Cardinality(f.w \cup {post})
    BY <2>4, <2>5, <2>6
  <2>9. /\ f.seen \subseteq queue \cup (f.w \cup {post}) \cup RangeOf(Tail(f.new))
        /\ (f.w \cup {post}) \cap queue = {}
    BY <1>2, <2>3, <2>5
  <2>10. Settling(g, queue)
    BY <2>6, <2>7, <2>8, <2>9 DEF Settling
  <2>11. ASSUME NEW u \in Tasks \ {t}
         PROVE  (f.w \cup {post}) \cap fetcher[u].w = {}
    <3>1. f.w \cap fetcher[u].w = {} /\ Settling(fetcher[u], queue) /\ fetcher[u] \in FetchType
      BY DEF FetchInv, FetchTyped, RowsApart
    <3>2. CASE fetcher[u].pc = "insert"
      BY <2>1, <3>1, <3>2 DEF InsertPost, AwaitsInsert
    <3>3. CASE fetcher[u].pc = "done"
      BY <1>2, <3>1, <3>3 DEF Settling
    <3>4. CASE fetcher[u].pc \notin {"insert", "done"}
      BY <3>1, <3>4 DEF Settling
    <3> QED
      BY <3>2, <3>3, <3>4
  <2>12. fetcher' = [fetcher EXCEPT ![t] = g] /\ rate' \in [count : Nat, ttl : BOOLEAN] /\ queue' = queue
    BY <1>2 DEF InsertPost, FetchInv, FetchTyped
  <2>13. \A u \in Tasks \ {t} : g.w \cap fetcher[u].w = {}
    BY <2>7, <2>11
  <2> HIDE DEF g
  <2> QED
    BY <2>7, <2>10, <2>12, <2>13, OneFetcher
<1> QED
  BY <1>1, <1>2

\* The rows of one task go to the queue: none of them is another's.
LEMMA PostsCommitKeeps ==
  ASSUME FetchInv, NEW t \in Tasks, CommitPosts(t)
  PROVE  FetchInv'
<1> DEFINE f == fetcher[t]
           g == [f EXCEPT !.pc = "done"]
<1>1. f \in FetchType /\ Settling(f, queue) /\ f.pc = "insert" /\ f.new = <<>>
  BY DEF CommitPosts, FetchInv, FetchTyped
<1>2. fetcher' = [fetcher EXCEPT ![t] = g] /\ queue' = queue \cup f.w /\ rate' = rate
  BY DEF CommitPosts
<1>3. g \in FetchType /\ g.pc = "done" /\ g.w = f.w /\ g.seen = f.seen /\ g.result = f.result
  BY <1>1 DEF FetchType
<1>4. fetcher'[t] = g /\ \A u \in Tasks \ {t} : fetcher'[u] = fetcher[u]
  BY <1>2 DEF FetchInv, FetchTyped
<1>5. RangeOf(f.new) = {} /\ Len(f.new) = 0
  BY <1>1 DEF RangeOf
<1>6. IsFiniteSet(f.w) /\ f.result = Cardinality(f.w) /\ f.seen \subseteq queue \cup f.w
  BY <1>1, <1>5, FS_CardinalityType DEF Settling
<1>7. Settling(g, queue')
  BY <1>2, <1>3, <1>6 DEF Settling
<1>8. ASSUME NEW u \in Tasks \ {t}
      PROVE  Settling(fetcher[u], queue')
  <2>1. Settling(fetcher[u], queue) /\ f.w \cap fetcher[u].w = {}
    BY DEF FetchInv, RowsApart
  <2> QED
    BY <1>2, <2>1 DEF Settling
<1>9. FetchTyped'
  <2>1. f.w \subseteq PostIds
    BY <1>1 DEF FetchType
  <2> QED
    BY <1>2, <1>3, <2>1 DEF FetchInv, FetchTyped
<1>10. RowsApart'
  <2>1. \A u \in Tasks : fetcher'[u].w = fetcher[u].w
    BY <1>3, <1>4
  <2> QED
    BY <2>1 DEF FetchInv, RowsApart
<1> QED
  BY <1>4, <1>7, <1>8, <1>9, <1>10 DEF FetchInv

LEMMA FailureKeeps ==
  ASSUME FetchInv, NEW t \in Tasks, Fail(t) \/ Victim(t) \/ Die(t)
  PROVE  FetchInv'
<1>1. CASE Fail(t) \/ Victim(t)
  BY <1>1, RaisedKeeps DEF Fail, Victim, FetchInv, FetchTyped
<1>2. CASE Die(t)
  <2> DEFINE g == [fetcher[t] EXCEPT !.pc = "lost", !.w = {}]
  <2>1. fetcher[t] \in FetchType
    BY DEF FetchInv, FetchTyped
  <2>2. g \in FetchType /\ g.pc = "lost" /\ g.w = {}
    BY <2>1 DEF FetchType
  <2>3. Settling(g, queue)
    BY <2>2 DEF Settling
  <2>4. fetcher' = [fetcher EXCEPT ![t] = g] /\ rate' \in [count : Nat, ttl : BOOLEAN] /\ queue' = queue
    BY <1>2 DEF Die, FetchInv, FetchTyped
  <2> QED
    BY <2>2, <2>3, <2>4, OneFetcher
<1> QED
  BY <1>1, <1>2

LEMMA InitFetchInv == FetchInit => FetchInv
<1> SUFFICES ASSUME FetchInit PROVE FetchInv
  OBVIOUS
<1>1. Waiting \in FetchType /\ Settling(Waiting, queue) /\ Waiting.w = {}
  BY BlankForms, Unstarted
<1> QED
  BY <1>1 DEF FetchInit, FetchInv, FetchTyped, RowsApart

LEMMA NextFetchInv == FetchInv /\ [FetchNext]_fetchVars => FetchInv'
<1> SUFFICES ASSUME FetchInv, [FetchNext]_fetchVars PROVE FetchInv'
  OBVIOUS
<1>1. CASE ExpireRate
  BY <1>1 DEF ExpireRate, FetchInv, FetchTyped, RowsApart
<1>2. CASE UNCHANGED fetchVars
  BY <1>2 DEF fetchVars, FetchInv, FetchTyped, RowsApart
<1>3. ASSUME NEW t \in Tasks, Trigger(t) \/ FetchStep(t) \/ Fail(t) \/ Die(t)
      PROVE  FetchInv'
  BY <1>3, CallKeeps, AnswerKeeps, CheckKeeps, FlushKeeps, PostInsertKeeps,
     PostsCommitKeeps, FailureKeeps DEF FetchStep
<1> QED
  BY <1>1, <1>2, <1>3 DEF FetchNext

(* However many fetches race for the same posts, however often they are    *)
(* retried and whatever fails, one that returns has queued its answer,     *)
(* returns the number of rows it has added, and shares none with another.  *)
THEOREM FetchesAreQueued == FetchSpec => []FetchedIsQueued
<1>1. FetchInv => FetchedIsQueued
  BY DEF FetchInv, Settling, RowsApart, FetchedIsQueued
<1> QED
  BY <1>1, InitFetchInv, NextFetchInv, PTL DEF FetchSpec
====
