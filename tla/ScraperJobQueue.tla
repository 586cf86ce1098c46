---- MODULE ScraperJobQueue ----
(***************************************************************************)
(* The scraper_jobs table as a work queue: the operations of               *)
(* backend/app/repositories/scraper_jobs.py under PostgreSQL's READ        *)
(* COMMITTED isolation.  A poller claims a job with claim_next_job in a    *)
(* unit of work, commits, does the scrape, and reports with mark_completed *)
(* or mark_failed in a second transaction.  Nothing outside the tests      *)
(* calls claim_next_job yet: the tasks that scrape_site_task runs mark     *)
(* rows that they never claimed, and those marks are made here too.  So    *)
(* this module is about the operations of the queue, whoever calls them,   *)
(* and assumes no scheduling.                                              *)
(*                                                                         *)
(* status, retryCount, priority and createdAt are the committed columns of *)
(* the table.  A poller in phase "claiming", "marking" or "reporting" has  *)
(* an open transaction whose UPDATE holds the lock of its job's row; the   *)
(* update itself becomes visible when the transaction commits.             *)
(***************************************************************************)
EXTENDS Integers, FiniteSets

CONSTANTS Jobs, Pollers, NoJob, Nobody,
          Sites,        \* scraper sites
          SiteOf,       \* SiteOf[j]: the site job j scrapes
          Priorities,   \* values of the priority column; less is more urgent
          MaxRetries,   \* the column max_retries (server default 3)
          MaxCrashes,   \* bound of the model: how many pollers may die
          MaxReports    \* bound of the model: how many marks of unclaimed rows

ASSUME QueueAssumption ==
    /\ NoJob \notin Jobs
    /\ Nobody \notin Pollers
    /\ SiteOf \in [Jobs -> Sites]
    /\ Priorities \subseteq Nat
    /\ MaxRetries \in Nat
    /\ MaxCrashes \in Nat
    /\ MaxReports \in Nat

VARIABLES status, retryCount, priority, createdAt,
          poller,     \* poller[p]: phase, job and (when marking) the new status
          nCreated,   \* rows inserted so far: stands for the clock of created_at
          crashes,
          reports,    \* marks by tasks that claimed nothing, so far
          claims      \* claims[j]: committed claims of j; only properties read it

table == <<status, retryCount, priority, createdAt>>
vars == <<table, poller, nCreated, crashes, reports, claims>>

Statuses == {"absent", "queued", "running", "completed", "failed"}
Phases == {"idle", "claiming", "working", "marking", "reporting"}
Idle == [phase |-> "idle", job |-> NoJob, outcome |-> "queued"]

TypeOK ==
    /\ status \in [Jobs -> Statuses]
    /\ retryCount \in [Jobs -> Nat]
    /\ priority \in [Jobs -> Nat]
    /\ createdAt \in [Jobs -> Nat]
    /\ poller \in [Pollers -> [phase : Phases, job : Jobs \cup {NoJob},
                               outcome : {"completed", "failed", "queued"}]]
    /\ nCreated \in Nat
    /\ crashes \in 0 .. MaxCrashes
    /\ reports \in 0 .. MaxReports
    /\ claims \in [Jobs -> Nat]

Init ==
    /\ status = [j \in Jobs |-> "absent"]
    /\ retryCount = [j \in Jobs |-> 0]
    /\ priority = [j \in Jobs |-> 0]
    /\ createdAt = [j \in Jobs |-> 0]
    /\ poller = [p \in Pollers |-> Idle]
    /\ nCreated = 0
    /\ crashes = 0
    /\ reports = 0
    /\ claims = [j \in Jobs |-> 0]

----
(* trigger_site: insert a row with the server defaults, then commit. *)
TriggerSite(j, pr) ==
    /\ status[j] = "absent"
    /\ status' = [status EXCEPT ![j] = "queued"]
    /\ priority' = [priority EXCEPT ![j] = pr]
    /\ createdAt' = [createdAt EXCEPT ![j] = nCreated]
    /\ nCreated' = nCreated + 1
    /\ UNCHANGED <<retryCount, poller, crashes, reports, claims>>

\* A row is locked by the open transaction that has updated it.
Locked(j) == \E p \in Pollers : /\ poller[p].job = j
                                /\ poller[p].phase \in {"claiming", "marking", "reporting"}

\* A claim that forgets FOR UPDATE SKIP LOCKED.
LockableWithoutForUpdate(j) == TRUE

Lockable(j) == ~Locked(j)

\* One attempt too many.
HasRetriesLeftGenerous(j) == retryCount[j] <= MaxRetries + 1

HasRetriesLeft(j) == retryCount[j] <= MaxRetries

\* ORDER BY priority ASC, created_at ASC.
NotLater(j, k) ==
    \/ priority[j] < priority[k]
    \/ priority[j] = priority[k] /\ createdAt[j] <= createdAt[k]

Claimable(scope) ==
    {j \in scope : status[j] = "queued" /\ HasRetriesLeft(j) /\ Lockable(j)}

(* claim_next_job: lock the first claimable row and set it RUNNING.  scope *)
(* is the whole table, or the rows of the site_id the caller passes.  With *)
(* nothing to claim it returns None and changes nothing.                   *)
ClaimNextJob(p, scope) ==
    /\ poller[p].phase = "idle"
    /\ \E j \in Claimable(scope) :
          /\ \A k \in Claimable(scope) : NotLater(j, k)
          /\ poller' = [poller EXCEPT ![p] = [Idle EXCEPT !.phase = "claiming", !.job = j]]
    /\ UNCHANGED <<table, nCreated, crashes, reports, claims>>

CommitClaim(p) ==
    /\ poller[p].phase = "claiming"
    /\ status' = [status EXCEPT ![poller[p].job] = "running"]
    /\ claims' = [claims EXCEPT ![poller[p].job] = @ + 1]
    /\ poller' = [poller EXCEPT ![p].phase = "working"]
    /\ UNCHANGED <<retryCount, priority, createdAt, nCreated, crashes, reports>>

(* mark_completed / mark_failed(will_retry) by the worker that claimed the *)
(* job: an UPDATE by primary key, which does not look at the row's status. *)
Mark(p, outcome) ==
    /\ poller[p].phase = "working"
    /\ Lockable(poller[p].job)
    /\ poller' = [poller EXCEPT ![p].phase = "marking", ![p].outcome = outcome]
    /\ UNCHANGED <<table, nCreated, crashes, reports, claims>>

MarkCompleted(p) == Mark(p, "completed")
MarkFailed(p, willRetry) == Mark(p, IF willRetry THEN "queued" ELSE "failed")

(* The same UPDATE by a scrape_site_task, which was sent the job's id and  *)
(* never claimed its row: the row may say anything.  It never passes       *)
(* will_retry = True.                                                      *)
Report(p, j, outcome) ==
    /\ poller[p].phase = "idle"
    /\ status[j] # "absent" /\ Lockable(j)
    /\ reports < MaxReports
    /\ reports' = reports + 1
    /\ poller' = [poller EXCEPT ![p] = [phase |-> "reporting", job |-> j, outcome |-> outcome]]
    /\ UNCHANGED <<table, nCreated, crashes, claims>>

\* A failure that is not counted.
RetriesAfterUncounted(j, outcome) == retryCount[j]

\* mark_failed adds one to retry_count, whether or not it requeues.
RetriesAfter(j, outcome) == IF outcome = "completed" THEN retryCount[j] ELSE retryCount[j] + 1

CommitMark(p) ==
    /\ poller[p].phase \in {"marking", "reporting"}
    /\ LET j == poller[p].job IN
          /\ status' = [status EXCEPT ![j] = poller[p].outcome]
          /\ retryCount' = [retryCount EXCEPT ![j] = RetriesAfter(j, poller[p].outcome)]
    /\ poller' = [poller EXCEPT ![p] = Idle]
    /\ UNCHANGED <<priority, createdAt, nCreated, crashes, reports, claims>>

(* The poller's process dies: its open transaction is rolled back, a job   *)
(* it had claimed stays RUNNING, and a new process takes its place.        *)
Crash(p) ==
    /\ poller[p].phase # "idle"
    /\ crashes < MaxCrashes
    /\ crashes' = crashes + 1
    /\ poller' = [poller EXCEPT ![p] = Idle]
    /\ UNCHANGED <<table, nCreated, reports, claims>>

----
Scopes == {Jobs} \cup {{j \in Jobs : SiteOf[j] = s} : s \in Sites}

PollerStep(p) ==
    \/ \E scope \in Scopes : ClaimNextJob(p, scope)
    \/ CommitClaim(p)
    \/ MarkCompleted(p)
    \/ \E willRetry \in BOOLEAN : MarkFailed(p, willRetry)
    \/ \E j \in Jobs, outcome \in {"completed", "failed"} : Report(p, j, outcome)
    \/ CommitMark(p)

Next ==
    \/ \E j \in Jobs, pr \in Priorities : TriggerSite(j, pr)
    \/ \E p \in Pollers : PollerStep(p) \/ Crash(p)

Spec == Init /\ [][Next]_vars

----
\* The worker p holds job j by a claim, committed or not.
Holds(p, j) == poller[p].job = j /\ poller[p].phase \in {"claiming", "working", "marking"}

(* No two workers ever hold the same job by a claim, be it in the middle   *)
(* of the claim, at work or reporting: what SELECT ... FOR UPDATE SKIP     *)
(* LOCKED is there for ("without blocking each other or double-claiming    *)
(* the same job").  Tasks that mark rows they never claimed do not spoil   *)
(* it.                                                                     *)
OneWorkerPerJob ==
    \A p, q \in Pollers : \A j \in Jobs : Holds(p, j) /\ Holds(q, j) => p = q

(* A job is claimed once and then again at most max_retries times: the     *)
(* filter "retry_count <= max_retries", with the count every failure adds, *)
(* allows no more, across crashes, rollbacks, marks of rows nobody claimed *)
(* and every interleaving of pollers.                                      *)
AttemptsBounded == \A j \in Jobs : claims[j] <= MaxRetries + 1

\* The worker whose committed claim of j is in force.
Owner(j) ==
    IF \E p \in Pollers : poller[p].job = j /\ poller[p].phase \in {"working", "marking"}
    THEN CHOOSE p \in Pollers : poller[p].job = j /\ poller[p].phase \in {"working", "marking"}
    ELSE Nobody

Abstract == INSTANCE JobClaims WITH
    Workers <- Pollers,
    owner <- [j \in Jobs |-> Owner(j)]

(* Two statements and a commit, row locks and crashes implement a claim    *)
(* that is one step: "atomically claim the next queued job and mark it     *)
(* RUNNING".  Nobody takes a job that is in a worker's hands or past its   *)
(* retries, and only the worker that claimed a job puts it back into the   *)
(* queue, whatever tasks that claimed nothing write into the row.          *)
ClaimIsAtomic == Abstract!Spec
====
