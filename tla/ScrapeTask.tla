---- MODULE ScrapeTask ----
(***************************************************************************)
(* One retailer site's scrape jobs, from the admin's request to the last   *)
(* commit of the Celery task: backend/app/api/v1/admin/ingestion.py,       *)
(* services/scraper_orchestrator.py, workers/tasks/scrape.py and the       *)
(* upsert of repositories/items.py; and the schedules whose kwargs name a  *)
(* job, each trigger of which runs that job's task again                   *)
(* (services/cron_scheduler_service.py).                                   *)
(*                                                                         *)
(* A task is named by its Celery message: the one that a job's own request *)
(* sends bears the job's name, the others are in Resends.                  *)
(*                                                                         *)
(* catalog[e] is the committed content of the item row of external id e.   *)
(* A task's open transaction holds its uncommitted upserts in task[m].     *)
(* writes, and with them the locks of those rows.  A statement that fails  *)
(* aborts the transaction inside PostgreSQL: its writes and locks are gone *)
(* at once, while the session that sent it may not notice.                 *)
(***************************************************************************)
EXTENDS Integers, Sequences, FiniteSetsExt

CONSTANTS Jobs,        \* scrape jobs of the site, and the messages their requests send
          Resends,     \* messages that schedules may send; a bound of the model
          ResendOf,    \* ResendOf[m]: the job in the kwargs of the schedule that sends m
          Ids,         \* external ids of the site's products
          Versions,    \* what a product page may say (content hashes)
          NoItem,      \* no row, or no write
          BatchSize,   \* results per commit (50 in the code)
          MaxFaults    \* bound of the model: rejected rows, crashes, lost services

ASSUME ScrapeAssumption ==
    /\ IsFiniteSet(Jobs) /\ IsFiniteSet(Resends) /\ Jobs \cap Resends = {}
    /\ ResendOf \in [Resends -> Jobs]
    /\ IsFiniteSet(Ids)
    /\ NoItem \notin Versions
    /\ BatchSize \in Nat \ {0}
    /\ MaxFaults \in Nat

VARIABLES row,       \* committed status of the scraper_jobs row
          request,   \* where the admin's POST is
          message,   \* the Celery messages
          catalog,   \* committed items
          progress,  \* Redis key scrape:{job_id}:progress, -1 when absent
          task,      \* the task that message m starts
          faults

vars == <<row, request, message, catalog, progress, task, faults>>

Messages == Jobs \cup Resends
JobOf(m) == IF m \in Jobs THEN m ELSE ResendOf[m]

Rows == {"absent", "queued", "completed", "failed"}
Results == [id : Ids, version : Versions]
Nothing == [e \in Ids |-> NoItem]
Zero == [found |-> 0, created |-> 0, updated |-> 0, skipped |-> 0]
NoTask == [pc |-> "none", seen |-> {}, exhausted |-> FALSE, buffer |-> <<>>,
           writes |-> Nothing, aborted |-> FALSE, tags |-> FALSE,
           totals |-> Zero, dbErrors |-> 0]

TypeOK ==
    /\ row \in [Jobs -> Rows]
    /\ request \in [Jobs -> {"none", "flushed", "dispatched", "done"}]
    /\ message \in [Messages -> {"none", "sent", "acked"}]
    /\ catalog \in [Ids -> Versions \cup {NoItem}]
    /\ progress \in [Jobs -> -1 .. Cardinality(Ids)]
    /\ faults \in 0 .. MaxFaults
    /\ \A m \in Messages :
          /\ task[m].pc \in {"none", "scraping", "lookup", "upsert", "checkpoint",
                             "finishing", "completed", "ended"}
          /\ task[m].seen \subseteq Ids
          /\ task[m].exhausted \in BOOLEAN
          /\ task[m].buffer \in Seq(Results) /\ Len(task[m].buffer) <= BatchSize
          /\ task[m].writes \in [Ids -> Versions \cup {NoItem}]
          /\ task[m].aborted \in BOOLEAN /\ (task[m].aborted => task[m].writes = Nothing)
          /\ task[m].tags \in BOOLEAN
          /\ task[m].totals \in [DOMAIN Zero -> 0 .. Cardinality(Ids)]
          /\ task[m].dbErrors \in 0 .. Cardinality(Ids)

Init ==
    /\ row = [j \in Jobs |-> "absent"]
    /\ request = [j \in Jobs |-> "none"]
    /\ message = [m \in Messages |-> "none"]
    /\ catalog = Nothing
    /\ progress = [j \in Jobs |-> -1]
    /\ task = [m \in Messages |-> NoTask]
    /\ faults = 0

Fault == faults < MaxFaults /\ faults' = faults + 1

----
(* POST /admin/ingestion/scraper/trigger: trigger_site flushes the new     *)
(* row, which no other session sees before the request commits.            *)
TriggerSite(j) ==
    /\ request[j] = "none"
    /\ request' = [request EXCEPT ![j] = "flushed"]
    /\ UNCHANGED <<row, message, catalog, progress, task, faults>>

\* apply_async, before the commit; "except Exception: pass" when the broker is down.
Dispatch(j) ==
    /\ request[j] = "flushed"
    /\ request' = [request EXCEPT ![j] = "dispatched"]
    /\ \/ message' = [message EXCEPT ![j] = "sent"] /\ UNCHANGED faults
       \/ Fault /\ UNCHANGED message
    /\ UNCHANGED <<row, catalog, progress, task>>

\* UnitOfWork.__aexit__ commits after the endpoint has returned, or fails to.
EndRequest(j) ==
    /\ request[j] = "dispatched"
    /\ request' = [request EXCEPT ![j] = "done"]
    /\ \/ row' = [row EXCEPT ![j] = "queued"] /\ UNCHANGED faults
       \/ Fault /\ UNCHANGED row
    /\ UNCHANGED <<message, catalog, progress, task>>

(* trigger_schedule: the schedule's kwargs name a job, and they stay what  *)
(* they are, so every trigger sends that job's task once more, whatever    *)
(* became of the job.  The schedule is written after the job's id was      *)
(* answered.  A broker that is down fails the request.                     *)
TriggerSchedule(m) ==
    /\ message[m] = "none" /\ request[JobOf(m)] = "done"
    /\ \/ message' = [message EXCEPT ![m] = "sent"] /\ UNCHANGED faults
       \/ Fault /\ UNCHANGED message
    /\ UNCHANGED <<row, request, catalog, progress, task>>

----
\* What is left of a task's transaction and session when a transaction ends.
FreshTransaction(t) == [t EXCEPT !.writes = Nothing, !.aborted = FALSE, !.tags = FALSE]

Closed(t, pc) == [FreshTransaction(t) EXCEPT !.pc = pc, !.buffer = <<>>]

Ended(t) == Closed(t, "ended")

(* UPDATE ... WHERE id = job_id: whatever the row says; it touches nothing *)
(* while the row is uncommitted.                                           *)
Marked(m, outcome) ==
    IF row[JobOf(m)] = "absent" THEN row ELSE [row EXCEPT ![JobOf(m)] = outcome]

(* scrape_site_task up to the adapter.  A Redis failure ends it before the *)
(* job's row is looked at; a site that is gone marks the job failed; an    *)
(* adapter that cannot be resolved or constructed is outside the try.      *)
(* Celery acknowledges the message when the task is started.               *)
Start(m) ==
    /\ message[m] = "sent" /\ task[m].pc = "none"
    /\ message' = [message EXCEPT ![m] = "acked"]
    /\ \/ /\ task' = [task EXCEPT ![m] = [NoTask EXCEPT !.pc = "scraping"]]
          /\ progress' = [progress EXCEPT ![JobOf(m)] = 0]
          /\ UNCHANGED <<row, faults>>
       \/ /\ Fault
          /\ task' = [task EXCEPT ![m] = [NoTask EXCEPT !.pc = "ended"]]
          /\ \/ UNCHANGED <<row, progress>>
             \/ progress' = [progress EXCEPT ![JobOf(m)] = 0] /\ row' \in {row, Marked(m, "failed")}
    /\ UNCHANGED <<request, catalog>>

BatchFull(buffer) == Len(buffer) >= BatchSize

(* "async for result in adapter.scrape()": an adapter yields a product     *)
(* once, with what its page says now.                                      *)
Yield(m, result) ==
    /\ task[m].pc = "scraping" /\ ~task[m].exhausted
    /\ result.id \notin task[m].seen
    /\ LET filled == Append(task[m].buffer, result) IN
          task' = [task EXCEPT ![m].seen = @ \cup {result.id},
                               ![m].buffer = filled,
                               ![m].pc = IF BatchFull(filled) THEN "lookup" ELSE @]
    /\ UNCHANGED <<row, request, message, catalog, progress, faults>>

\* The results left in the buffer are forgotten.
AfterAdapterDropsBuffer(t) == "finishing"

\* "if buffer:" after the loop.
AfterAdapter(t) == IF t.buffer = <<>> THEN "finishing" ELSE "lookup"

AdapterEnds(m) ==
    /\ task[m].pc = "scraping" /\ ~task[m].exhausted
    /\ task' = [task EXCEPT ![m].exhausted = TRUE, ![m].pc = AfterAdapter(task[m])]
    /\ UNCHANGED <<row, request, message, catalog, progress, faults>>

(* The adapter raises between two batches: the results in the buffer are   *)
(* lost, and the except branch marks the job failed, commits and raises.   *)
FailTask(m) ==
    /\ task[m].pc = "scraping"
    /\ Fault
    /\ row' = Marked(m, "failed")
    /\ task' = [task EXCEPT ![m] = Ended(@)]
    /\ UNCHANGED <<request, message, catalog, progress>>

----
\* A SELECT sees the task's own writes over what is committed.
Visible(m, e) == IF task[m].writes[e] # NoItem THEN task[m].writes[e] ELSE catalog[e]

(* get_by_content_hash: content already on file is a skip.                 *)
LookUp(m) ==
    /\ task[m].pc = "lookup" /\ task[m].buffer # <<>> /\ ~task[m].aborted
    /\ LET result == Head(task[m].buffer) IN
       IF Visible(m, result.id) = result.version
       THEN task' = [task EXCEPT ![m].buffer = Tail(@), ![m].totals.found = @ + 1,
                                 ![m].totals.skipped = @ + 1]
       ELSE task' = [task EXCEPT ![m].pc = "upsert"]
    /\ UNCHANGED <<row, request, message, catalog, progress, faults>>

(* The same SELECT in an aborted transaction raises; so does the UPDATE of *)
(* mark_job_failed in the except branch, and the row is left as it is.     *)
LookUpRaises(m) ==
    /\ task[m].pc = "lookup" /\ task[m].buffer # <<>> /\ task[m].aborted
    /\ task' = [task EXCEPT ![m] = Ended(@)]
    /\ UNCHANGED <<row, request, message, catalog, progress, faults>>

\* Another task's open transaction has written the row of e.
WrittenByOther(m, e) == \E k \in Messages \ {m} : task[k].writes[e] # NoItem

\* An upsert that reads and writes without taking the row's lock.
FreeToUpsertUnlocked(m) == TRUE

\* INSERT ... ON CONFLICT waits for the transaction that has the row.
FreeToUpsert(m) == ~WrittenByOther(m, Head(task[m].buffer).id)

\* suggest_tags_for_item answers no tags when OpenAI fails or answers badly.
Suggested == BOOLEAN

\* Only a created item is categorised; TRUE: it gets tags.
Categorised(created) == IF created THEN Suggested ELSE {FALSE}

\* The result at the head of the buffer is written, and counted.
Upserted(t, created, tagged) ==
    LET result == Head(t.buffer) IN
        [t EXCEPT !.pc = "lookup",
                  !.buffer = Tail(@),
                  !.writes = [t.writes EXCEPT ![result.id] = result.version],
                  !.tags = @ \/ tagged,
                  !.totals = [t.totals EXCEPT !.found = @ + 1,
                                              !.created = IF created THEN @ + 1 ELSE @,
                                              !.updated = IF created THEN @ ELSE @ + 1]]

(* upsert_from_scrape: created_at = updated_at in the RETURNING row iff    *)
(* the row did not exist before this transaction.  A created item gets     *)
(* the tags OpenAI suggests, pending in the session until the commit.      *)
Upsert(m) ==
    /\ task[m].pc = "upsert" /\ FreeToUpsert(m)
    /\ LET created == catalog[Head(task[m].buffer).id] = NoItem IN
       \E tagged \in Categorised(created) :
          task' = [task EXCEPT ![m] = Upserted(@, created, tagged)]
    /\ UNCHANGED <<row, request, message, catalog, progress, faults>>

\* m waits for a row of k.
WaitsFor(m, k) == /\ task[m].pc = "upsert" /\ k # m
                  /\ task[k].writes[Head(task[m].buffer).id] # NoItem

Deadlocked(m) == \E S \in SUBSET Messages :
    m \in S /\ \A k \in S : \E n \in S : WaitsFor(k, n)

(* The upsert fails, on a value its column rejects or as the victim of a   *)
(* deadlock.  "except Exception: ... continue" swallows the error; the     *)
(* transaction is aborted and nobody rolls it back.                        *)
UpsertFails(m) ==
    /\ task[m].pc = "upsert"
    /\ \/ FreeToUpsert(m) /\ Fault
       \/ Deadlocked(m) /\ UNCHANGED faults
    /\ task' = [task EXCEPT ![m].pc = "lookup", ![m].buffer = Tail(@),
                            ![m].writes = Nothing, ![m].aborted = TRUE,
                            ![m].totals.found = @ + 1, ![m].dbErrors = @ + 1]
    /\ UNCHANGED <<row, request, message, catalog, progress>>

\* "while buffer:" for "if buffer:" around the last batch, which nothing clears.
NextStageWhileBuffer(t) == IF t.exhausted THEN "lookup" ELSE "checkpoint"

\* After a full batch the loop checkpoints and goes on; after the last it ends.
NextStage(t) == IF t.exhausted THEN "finishing" ELSE "checkpoint"

(* "await uow.commit()" after a batch.  COMMIT of an aborted transaction   *)
(* is a ROLLBACK that reports success.                                     *)
CommitBatch(m) ==
    /\ task[m].pc = "lookup" /\ task[m].buffer = <<>>
    /\ ~(task[m].aborted /\ task[m].tags)
    /\ catalog' = [e \in Ids |-> Visible(m, e)]
    /\ task' = [task EXCEPT ![m] = [FreshTransaction(@) EXCEPT !.pc = NextStage(task[m])]]
    /\ UNCHANGED <<row, request, message, progress, faults>>

(* Pending tags make the commit flush, which raises in an aborted          *)
(* transaction and leaves the session refusing mark_job_failed too.        *)
CommitRaises(m) ==
    /\ task[m].pc = "lookup" /\ task[m].buffer = <<>>
    /\ task[m].aborted /\ task[m].tags
    /\ task' = [task EXCEPT ![m] = Ended(@)]
    /\ UNCHANGED <<row, request, message, catalog, progress, faults>>

(* Publish the count of results found so far; Redis may be gone, which     *)
(* fails the job although its batches are committed.                       *)
Checkpoint(m) ==
    /\ task[m].pc = "checkpoint"
    /\ \/ /\ progress' = [progress EXCEPT ![JobOf(m)] = task[m].totals.found]
          /\ task' = [task EXCEPT ![m].pc = "scraping"]
          /\ UNCHANGED <<row, faults>>
       \/ /\ Fault
          /\ row' = Marked(m, "failed")
          /\ task' = [task EXCEPT ![m] = Ended(@)]
          /\ UNCHANGED progress
    /\ UNCHANGED <<request, message, catalog>>

\* mark_job_complete with the totals, commit, delete the progress key.
Finish(m) ==
    /\ task[m].pc = "finishing"
    /\ row' = Marked(m, "completed")
    /\ task' = [task EXCEPT ![m] = Closed(@, "completed")]
    /\ progress' = [progress EXCEPT ![JobOf(m)] = -1]
    /\ UNCHANGED <<request, message, catalog, faults>>

(* The worker is killed, or its time limit cancels the coroutine: the open *)
(* transaction is rolled back and nothing marks the row.                   *)
Crash(m) ==
    /\ task[m].pc \notin {"none", "completed", "ended"}
    /\ Fault
    /\ task' = [task EXCEPT ![m] = Ended(@)]
    /\ UNCHANGED <<row, request, message, catalog, progress>>

----
RequestStep(j) == TriggerSite(j) \/ Dispatch(j) \/ EndRequest(j)

TaskStep(m) ==
    \/ Start(m) \/ AdapterEnds(m) \/ (\E result \in Results : Yield(m, result))
    \/ LookUp(m) \/ LookUpRaises(m) \/ Upsert(m) \/ UpsertFails(m)
    \/ CommitBatch(m) \/ CommitRaises(m) \/ Checkpoint(m) \/ Finish(m)

Next ==
    \/ \E j \in Jobs : RequestStep(j)
    \/ \E m \in Resends : TriggerSchedule(m)
    \/ \E m \in Messages : TaskStep(m) \/ FailTask(m) \/ Crash(m)

(* A worker runs the task it was given, and a request ends; the admin need *)
(* not ask for anything, and nothing needs to fail.                        *)
Spec == Init /\ [][Next]_vars
             /\ \A m \in Messages : WF_vars(TaskStep(m))
             /\ \A j \in Jobs : WF_vars(Dispatch(j) \/ EndRequest(j))

----
Stored == {e \in Ids : catalog[e] # NoItem}

(* A task that marks its job completed, and none of whose statements the   *)
(* database refused, accounts for every result its adapter yielded, the    *)
(* last partial batch included, and all of them are in the catalog; so it  *)
(* is when the job had been run before, or is run twice at the same time.  *)
CompletedMeansStored ==
    \A m \in Messages :
        task[m].pc = "completed" /\ task[m].dbErrors = 0 =>
            LET t == task[m].totals IN
                /\ t.found = Cardinality(task[m].seen)
                /\ t.found = t.created + t.updated + t.skipped
                /\ task[m].seen \subseteq Stored

\* Items that the tasks of S report as created.
CreatedBy(S) == FoldFunctionOnSet(+, 0, [m \in Messages |-> task[m].totals.created], S)

(* Two tasks that race for the same new product, of two jobs or of one     *)
(* that a schedule runs again, do not both report it as created: over all  *)
(* completed tasks that met no database error, the items reported created  *)
(* are no more than the rows there are.                                    *)
CreatedOnce ==
    CreatedBy({m \in Messages : task[m].pc = "completed" /\ task[m].dbErrors = 0})
        <= Cardinality(Stored)

(* Every task that is started ends, also when tasks of the site upsert the *)
(* same products in opposite orders and wait for each other's rows.        *)
EveryTaskEnds ==
    \A m \in Messages : task[m].pc # "none" ~> task[m].pc \in {"completed", "ended"}

(* "a job moves from queued to running to completed or failed"             *)
(* (docs/api.md), and a job whose dispatch failed "stays QUEUED for the    *)
(* next worker to claim" (api/v1/admin/ingestion.py).                      *)
QueuedJobSettles == \A j \in Jobs : row[j] = "queued" ~> row[j] \in {"completed", "failed"}

(* "batched into 50-item chunks before each DB commit so progress survives *)
(* crashes" (workers/tasks/scrape.py): what the progress key counts is in  *)
(* the catalog.                                                            *)
ProgressIsStored == \A j \in Jobs : progress[j] <= Cardinality(Stored)
====
