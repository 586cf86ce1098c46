# Gift Finder: TLA+ models and proofs

A verification project for the Gift Finder service: a FastAPI backend over
PostgreSQL (READ COMMITTED) and Redis, Celery workers, and a Next.js frontend.
The modules model the places where requests, workers and services interleave;
each definition is a translation of the source lines listed in `PROJECT.json`
under `map`. Paths below are relative to `src/backend/app` unless they start
with `docs/` or `frontend/`.

## The system

| Component | State it keeps | Operations | Hard behaviour |
|---|---|---|---|
| Scraper job queue (`repositories/scraper_jobs.py`) | `scraper_jobs` rows | insert, `claim_next_job`, `mark_completed`, `mark_failed` | pollers racing for a row, retries, dead workers, marks by tasks that claimed nothing |
| Scrape task (`workers/tasks/scrape.py`, `services/scraper_orchestrator.py`, `repositories/items.py`) | a transaction, a buffer, counters, a Redis progress key | start, batch, upsert, commit, mark | dispatch before commit, swallowed database errors, deadlocks, crashes |
| Instagram review (`services/instagram_ingestion_service.py`, `repositories/instagram.py`) | `instagram_queue` rows, promoted items | approve, reject, `claim_pending` | check-then-update across transactions, unique key and row locks |
| Refresh tokens (`core/security.py`, `services/auth_service.py`) | Redis keys `refresh_jti:*`, `refresh_family:*`, a cookie per browser | register, login, refresh, logout | several Redis commands per operation, lost answers, replay |
| Moderation (`services/review_queue_service.py`) | items, `review_queue` rows | approve, reject, their bulk forms, a PATCH past the queue | stale ORM loads, lock order |
| Instagram fetch (`workers/tasks/instagram.py`) | hourly counter in Redis, new queue rows | fetch, retry | crash between INCR and EXPIRE, duplicate posts |
| Manual entry and CSV import (`services/manual_ingestion_service.py`) | items, S3 objects | create, update, upload, import | SAVEPOINT per row, unique key over NULLs, S3 before DB |
| Retailer adapters (`adapters/`) | the urls seen, the generator's position | crawl, close | overlapping pages, a site that changes meanwhile, fetches that fail |
| Discovery and search (`services/item_service.py`, `services/search_service.py`) | a client's cursor; a search's transaction | list, search | keyset pagination over NULLs, one failing step of several |
| Interactions and recommendations (`services/recommendation_service.py`) | counters, per-tag scores, events, a five-minute cache | record, recommend | lock order, sums of concurrent upserts, stale cache |
| Taxonomy (`services/taxonomy_service.py`) | tags, tag types, a one-hour cache | CRUD, merge | invalidation before the commit |
| Wishlists (`services/wishlist_service.py`) | wishlists, share tokens | CRUD, share | read-modify-write of the share token |
| Cron schedules (`services/cron_scheduler_service.py`) | `cron_schedules` rows | CRUD, trigger | nothing reads the rows but the admin API; every trigger sends the same message again |
| Frontend client and session (`frontend/src/lib/api/client.ts`, `frontend/src/providers/AuthProvider.tsx`) | an access token, a queue of waiting requests | request, refresh, retry | single-flight refresh that can wait for itself |

They interact through three stores. Requests and tasks each open a
`UnitOfWork`: it commits after the endpoint has returned, or where a task says
so, and rolls back on an exception. Redis commands take effect at once,
outside that transaction. Celery messages are sent from inside a request,
before its commit, and are acknowledged when a task starts.

What makes each correct: a claimed job is one worker's; a completed scrape is
in the catalog, however often its job is run; a post or an item gets one decision, whose
effect is what was answered; a retired token stays retired and a browser that
behaves is not logged out; the caches and the client agree with the server in
the end.

## Modules

**`JobClaims`** is the abstract promise of `claim_next_job`: a claim is one
step, it takes a queued job that is in nobody's hands, at most `1 + MaxRetries`
claims of a job are made, and only the worker that claimed a job puts it back
into the queue. A task that has claimed nothing may settle a row at any time.

**`ScraperJobQueue`** is the repository under transactions. A poller claims
(the SELECT ... FOR UPDATE SKIP LOCKED and the UPDATE are one step, for the
row's lock makes them so), commits, works, marks, commits; `Locked` says which
rows an open transaction has updated. `ClaimNextJob` takes the first row in
priority order among those it can lock, for the whole table or one site.
`Crash` rolls back what is open and leaves a claimed row RUNNING. At this commit
nothing outside the tests calls `claim_next_job`, and the only callers of
`mark_completed` and `mark_failed`, the scrape tasks, mark rows that nobody has
set RUNNING (`workers/tasks/scrape.py:39`, `:69` and `:79`): `Report` is such a
mark, of a row in any status. The life that `docs/api.md` gives a job (queued,
running, completed or failed) is therefore not what the code implements, and no
property says so; the module is about the functions, whoever calls them, and
assumes that nobody polls. `claims` counts the claims of a job, for
`AttemptsBounded`; in the refinement `Owner(j)` is the poller whose claim of `j`
has been committed.

**`ScrapeTask`** follows a job of one site from the admin's POST to the last
commit. `Dispatch` precedes `EndRequest`, as in the code. A task is a record
with a program counter: it fills its buffer (`Yield`), looks each result up and
upserts it (`LookUp`, `Upsert`), commits (`CommitBatch`), publishes progress
(`Checkpoint`) and marks the job (`Finish`). Tasks are named by their message. A
job's own request sends one; a schedule of `scrape_site_task` names a job in
kwargs that stay as they are, so that each of its triggers (`TriggerSchedule`)
sends that job's task once more: while the first still runs, or when the job has
settled, which is then run and marked again. No property speaks of a job's
status for that reason; they are about tasks. Points the model takes from the
code and its libraries:

- `mark_*` are UPDATEs by primary key: they touch nothing while the row is
  uncommitted and whatever the row says afterwards; the task never sets RUNNING.
- A statement that fails inside a transaction aborts it; the `except ...:
  continue` around the upsert does not roll back. Later SELECTs raise, and so
  does the UPDATE of `mark_job_failed` (`LookUpRaises`). When nothing else is
  sent, COMMIT quietly rolls back (`CommitBatch` with `aborted`). Tags that
  are still pending make the commit flush and raise, and leave the session
  refusing `mark_job_failed` as well (`CommitRaises`).
- `created_at = updated_at` in the RETURNING row holds exactly when the row did
  not exist before the transaction, both being the transaction's `NOW()`.
- An INSERT ... ON CONFLICT waits for a transaction that has written the row;
  a cycle of such waits fails one statement.
- An adapter yields a product once (`generic_html.py` keeps `seen_urls`), and
  the content hash includes the URL, so that contents of different products
  differ.

**`InstagramReview`** models a decision as: read the row and check its status;
insert the item under its unique key (approve); update the row; commit.
`claim_pending` locks pending rows with SKIP LOCKED. No endpoint calls
`claim_pending` yet; it is modelled because it is the repository's answer to
the race. The order of its SELECT is left open.

**`RefreshTokens`** gives each request the list of Redis commands it has still
to send, taken from the functions of `core/security.py`; each command is one
step. `EXPIRE` and the expiry of keys are left out: tokens and keys live
equally long. `Abort` stands for a dead server, a failing Redis or commit, and
a lost answer. `revoked`, `presented` and `burned` are history variables.

**`ReviewQueue`** models moderation. Single operations load queue row and item
in two SELECTs and write through the ORM, which sends only the columns that
differ from what was loaded (`Written`); the bulk operations write every
column they name and reach their rows in any order. Deleting a queue row that
is already gone is no error. `patched` is a history variable that marks the
items whose status a PATCH set without going through the queue.

**`SessionClient`** is one browser tab: the interceptors of
`frontend/src/lib/api/client.ts` with their flag and queue, the stored user and
token, AuthProvider's renewal on page load and the sign-in and sign-out hooks.
A request is what it waits for (`phase`), what it asks (`op`) and its `_retry`
mark. The request that started a refresh is "refreshing" while that refresh is
open; when the refresh is itself answered 401 it joins the queue
(`RefreshRefused`), from which only its own end could take it. The server is
left free: any request may be answered, refused with 401 or fail, and an answer
to a refresh may lack the field the client reads, as the backend's does today.
The callbacks between two awaits run without interruption, so each action is
one of them. `badAnswers` is a history variable of the page.

**`Crawl`** is what `ScrapeTask` takes from an adapter: a generator that pages
through a site whose pages may differ at every fetch, follows each link it has
not seen and yields what can be parsed, and that its consumer may close while
it is suspended. That a product is yielded once (`CrawlIsExact`) is true of
urls; of ids it is true except for Etsy, whose listing may be linked under two
slugs (`IdsAreDistinct` does not hold), and then the task merely upserts one
row twice.

**`InstagramFetch`** has the trigger, the hourly counter, the call of the Graph
API, the look-ups and the one flush of all new posts, with Celery's retries. INCR
and EXPIRE are two steps, between which a worker may die. Its queue is the
`posts` that `InstagramReview` starts with.

**`ManualIngestion`** models `create_item`, `update_item`, `upload_image` and
`import_csv` statement by statement. A request's uncommitted rows are in its
record `w`; what others wait for is read off those. Points taken from the code
and its libraries:

- Items entered by hand have NULL in both columns of the unique key, which is
  NULLS NOT DISTINCT: a second one anywhere is a duplicate. In a CSV import it
  is skipped, in `create_item` it fails the request.
- The answer of `create_item` is validated from an item whose tags were never
  loaded, which raises; the row is then rolled back (`AnswerCreated`).
- The DELETE of an item's tags takes a snapshot (`ScanTags`) and then deletes
  what it saw (`DeleteTags`): another transaction's later row is not seen.
- S3 is written before the database and is not rolled back.

**`Interactions`** models `record_interaction`: the ORM's write of a counter as
`SET c = c + 1`, the read of the item's tags, and an upsert per tag in an order
that differs between requests; two of them can deadlock, and the overflow of the
score fails a request. The readers of the recommendations fill the cache in
three steps while the catalogue is edited.

**`Discovery`** models the two readers of the catalogue under the writes of
moderation. A page of the feed is one SELECT over `(published_at, id)` with the
code's cursor condition, NULLs and all; a search is extraction, keyword tags,
embedding, vector query and full-text fallback. A failed embedding is recovered
from and a failed vector statement is swallowed, although it leaves the
transaction aborted; an extraction that raises (an answer of OpenAI without
choices), the keywords' SELECT and the full-text statement end the search with
an error (`Gather`, `ResolveKeywords`, `Complete`; `fault` says which it was).
Distances and ranks are the model's choice: any `limit` nearest rows may be
answered.

**`Taxonomy`** models the admin's operations on types and tags, `merge_tags`
statement by statement, the other writers of `item_tags` and the one-hour copy of
the tree. Those writers are a tagging (`TagItem`) and a PATCH, which deletes an
item's rows and inserts those it was given (`ReplaceTags`, `InsertTags`). A
statement that waits for a lock sees what is committed when it gets through;
`ManualIngestion` has the finer picture of the PATCH, whose DELETE may have
scanned before it waits.
The cache is deleted after the flush and before the commit, as in the code. No
route calls `get_taxonomy` at this commit; the model's readers stand for the
callers that its docstring names. Reading the tree removes the inactive tags
from a relationship that cascades, which deletes their rows (`DeleteOrphans`).

**`Wishlists`** models every operation of the service as load, flush and commit
with the locks of the rows and keys it touches: a foreign key's share lock, the
unique pair, the row that is updated or dropped. `handed`, `net` and
`overlapped` are history variables: the links answered, the 201s less the 204s
of a pair, and the lists on which two first shares overlapped.

Each `MC*` module extends one or more of these for TLC; its `.cfg` files give
the constants. `MCUserData` extends `Wishlists` and `Interactions`, and
`MCIngestion` puts `ManualIngestion`, `InstagramFetch` and `Crawl` side by side.
The parts of each share no state, so they run one at a time: that bounds the
state space to the sum of the parts' and hides no interleaving, for there is
none between them. Components whose proofs share a module name their initial
state, next-state relation and specification after themselves (`ReviewSpec`,
`ManualSpec`, `ReaderSpec`, `InteractSpec`, `CrawlSpec`). The `*_proofs` modules
and `SetLemmas` hold the proofs.

## What is checked

Every run but those of `SessionClient`, whose page can always be loaded again,
disables the deadlock check: the systems stop legitimately when no job, request
or token is left to act on.

| Run | Instance | What it shows |
|---|---|---|
| `job_queue` | 2 jobs of 2 sites, 2 pollers, 2 priorities, 2 retries, 1 crash, 2 marks of unclaimed rows | `OneWorkerPerJob`, `AttemptsBounded`, and that the queue implements `JobClaims` (`ClaimIsAtomic`) |
| `scrape_task` | 1 job and 1 message of a schedule for it, so 2 tasks; 3 products, batches of 2, 1 fault anywhere | `CompletedMeansStored` (the counters agree with the catalog), `CreatedOnce`, `EveryTaskEnds` |
| `ig_review` | 2 posts, 3 admins, claims of 1 | `PromotedOnce`, `ReviewerIsDecider`, `EveryReviewEnds` |
| `tokens` | 2 browsers, 2 requests in flight, 3 tokens, with symmetry | `RevokedStaysRevoked`, `ParentRetired`, `BurnNeedsReplay` |
| `session` | 3 calls, AuthProvider's 2 requests | `OneRefresh`, `NobodyForgotten`, `RenewedCallsSettle` |
| `moderation` | 2 items, 2 admins, PATCH to archived | `QueuedIsPending`, `DecidedIsComplete`, `EveryDecisionEnds` |
| `ingestion` | 2 requests, 2 new ids, 2 tags, 3 CSV files; 2 fetches, 2 posts, 60 calls an hour read as 2, 1 retry; crawls of up to 2 pages, 2 listings under 4 hrefs | `AnswersStand` (what was answered is stored, once), `ReplaceIsExact`, `FetchedIsQueued`, `FetchSettles`, `CrawlIsExact`, `CrawlEnds` |
| `taxonomy` | 2 admins with a request each, a tagger whose PATCHes give one list of tags, a reader, 3 types, 3 tags, an item that has two of them | `ConstraintsHold`, `MergeKeepsSeenItems`, `CacheSettles` |
| `user_data` | 2 requests of a user, 1 reader, 3 items, 2 tags, 1 edit; 3 requests of 2 users on a wishlist | `AggregatesMatchEvents`, `EveryInteractionEnds`, `RecsSettle`; `AnswersMatchEntries`, `LinksStayGood`, `FailuresNeedADelete`, `EveryRequestAnswered` |
| `discovery` | 3 items, 2 dates, pages of 1 and 2, a search for 2 | `WalkIsStable`, `AnswerIsFull`, `SearchIsAnswered` |

`TypeOK` is an invariant of the run `tokens`, where it says that nothing names a
token before it is minted; it is proved of `ScraperJobQueue`, `RefreshTokens`,
`SessionClient`, `ReviewQueue` and (as `ReviewTypeOK`) `InstagramReview`; the
other proofs state the types that they need as a part of the inductive invariant.

Two runs expect a violation. Each shows that the code does not do what a
comment or document says of it; `PROJECT.json` quotes the lines.

| Run | Property | The counterexample |
|---|---|---|
| `scrape_settles` | `QueuedJobSettles` | the broker is down when the job is dispatched (or the task ends before the request commits), and the row stays queued for ever |
| `session_settles` | `EveryCallSettles` | a login with a wrong password: 401, the refresh is answered 401 as well, queues behind itself, and the login never ends |

Further properties that do not hold of the code are kept beside those that do;
the findings in `PROJECT.json` quote what they contradict. Those with a
configuration of their own are run by hand.

| Property | How to run it | The counterexample |
|---|---|---|
| `ProgressIsStored` | `MCScrapeTask`, `MCScrapeTask_progress.cfg` | an upsert fails, the batch's COMMIT rolls back, and progress counts results that are lost |
| `RejectedIsDiscarded` | `MCInstagramReview`, `MCInstagramReview_discard.cfg` | a rejection that read "pending" overwrites an approval and leaves the item active |
| `OneSuccessor` | `MCRefreshTokens`, `MCRefreshTokens_atomic.cfg` | two refreshes pass EXISTS before either DEL |
| `DecisionTakesEffect` | `MCReviewQueue`, `MCReviewQueue_effect.cfg` | approve A commits, approve B loads the active item, reject C commits, B writes no status |
| `MergeMovesEveryItem` | `MCTaxonomy`, `taxonomy_merge.cfg` | a tagging commits between the merge's UPDATE and its DELETE; or the item has both tags, a PATCH to the source commits in between, and the item ends with neither |
| `TagsLeaveByAdmins` | in `taxonomy.cfg` | a reader of the tree deletes an inactive tag |
| `WalkShowsAll` | in `discovery.cfg` | an item that `bulk_approve` published without a date is on no page after the first |
| `WindowReopens` | in `ingestion.cfg` | the worker dies between INCR and EXPIRE |
| `ReplaceIsAtomic`, `EveryValidRowInserted` | in `ingestion.cfg` | two tags-only PATCHes leave the union; the second keyless row of a file is skipped |
| `IdsAreDistinct` | in `ingestion.cfg` | an Etsy listing is linked to under two slugs |

### Why the bounds are enough

Two jobs and two pollers are the least that race for a row, and two sites with
a job each separate a scoped claim from an unscoped one; two retries make a
first, a middle and a last attempt; two marks by tasks let one settle a claimed
job and another the row it left. Three products in batches of two give a
full batch, a partial last batch and, with an adapter that ends early, an exact
multiple and an empty run; two tasks can insert them in opposite orders and
deadlock. One fault is placed at every point by TLC; a second would mostly end
a task that has already ended. Two requests in flight are what an interleaving
of Redis commands needs; three tokens make a rotation of a rotation, or a
rotation next to another browser's login. Three calls and
AuthProvider's own requests let one refresh while another waits and a third has
settled or begins late. Three admins are needed for two
decisions with a claim between them, and for the three-way race of
`DecisionTakesEffect`. An hour of two calls lets two fetches open, fill and exceed
it. Two hrefs that differ in the query and two in the slug separate what Etsy's
adapter and the HTML adapter remember. Two new ids, with one keyless row at a time,
are enough for two requests. A merge needs two tags, another admin, a tagger and
a reader; the third type and tag are free ids to create. A score of 11 is reached
by a save and passed by two. Three items on two dates give a tie, and pages of 1
and 2 cut it in both ways. Each property of a passing run is also shown to fail when
one definition is changed the way a plausible bug would (`mutants`).

### Fairness

- `job_queue` checks safety only and states no fairness: nothing in the code polls.
- `scrape_task`: weak fairness of a task's steps and of a request's end once
  it has begun. No fault, new request or failing adapter is ever required.
  That an adapter ends follows from its yielding each product once.
- `ig_review` and `moderation`: strong fairness of a request's steps. A row
  may be locked again and again by later requests; PostgreSQL queues the
  waiters of a row, so a waiter gets it at last. New requests are never
  required.
- `session`: weak fairness of each request's next answer: a connection that
  closes rejects its request, so every request sent is answered or fails. The
  user is never required to do anything, nor to reload the page.
- `user_data`: weak fairness of the steps of a request that has begun, and of
  the expiry of a cached list: Redis drops it after five minutes. A wait for a
  lock ends, for whoever holds it goes on or dies.
- `taxonomy`: weak fairness of the expiry of the tree and of an open request's
  next step or failure. No request is ever required to succeed.
- `discovery`: weak fairness of a search's steps; each answers or fails, by the
  model's choice. No
  client is required to turn a page.
- `ingestion`: weak fairness of a fetch task's steps, the next retry included,
  and of the generator's next step, for the task asks until it ends. No worker's
  death, and no window's end, is required. `ManualIngestion` is checked for
  safety only.
- `tokens` checks safety only and states no fairness.

## What is proved

Every safety property and every action property of a passing run is also a
theorem, for every value of the constants that the named assumptions admit; TLC
looks at the small instances above. Each inductive invariant was checked by TLC
before it was proved. The proofs of components that have to do with one another
share a module: `Ingestion_proofs` (scrape task, crawl, manual entry, Instagram
review and fetch), `UserData_proofs` (wishlists, interactions) and `Visitor_proofs`
(session, feed and search); the components in it share no state and have an
invariant each.

### Queue, session and tokens

- `TypeCorrect`, `NoDoubleClaim` and `RetriesBounded`
  (`ScraperJobQueue_proofs`), for every number of jobs, pollers, sites,
  priorities, retries, crashes and marks of unclaimed rows, from
  `QueueAssumption`. `OneWorkerPerJob` is not inductive: nothing in it says what
  a row looks like while a poller has it. The inductive invariant `IInv` adds
  that a poller holds a job exactly when it is not idle, that a job being
  claimed is still queued with an attempt left and that the row of one being
  worked on is not queued, whoever marks it (`HeldJobs`); that a row has one
  open transaction at most (`RowLocks`); and that every claim but the first is
  paid for by a failure that was counted (`ClaimsCounted`).
- `RefinesClaims` (`ScraperJobQueue_proofs`): every behaviour of the queue,
  seen through `Owner`, is a behaviour of `JobClaims`. The commit of a claim is
  `Claim`, the commit of a mark is `End` by the job's claimer and `Settle` by
  anybody else, a crash after the claim's commit is `Abandon`; the other steps
  stutter.
- `RevokedForGood`, `ParentIsRetired` and `TypeCorrect`
  (`RefreshTokens_proofs`), for any number of browsers, requests in flight and
  tokens, from `TokenAssumption`. The invariant says which program a request
  may have left (`Running`), that nothing names a token before it is minted
  (`Known`: a burn in flight cannot hold a token of the future), that a request
  about to store a token has had the old one revoked (`RotationOrder`), and
  that every parent is revoked.
- `NoBurnWithoutReplay` (`RefreshTokens_proofs`): while no token has been
  presented twice, a revoked token has been presented, no two requests present
  the same one, the token whose key a request is about to look for is there,
  and no request has a burn to send (`OldPresented`, `TokensStand`). The
  invariant is an alternative: either a token was presented twice or all of
  that.
- `SingleRefresh`, `NobodyIsForgotten` and `TypeCorrect`
  (`Visitor_proofs`), for any number of calls, from `SessionAssumption`.
  `SessionInv` adds that only waiting requests are queued and that the
  provider asks for the user after its refresh, once for a page.

### Ways into the catalog

- `CompletedIsStored` (`Ingestion_proofs`), for any number of jobs, messages of
  schedules, products, versions and faults and any size of a batch, from
  `ScrapeAssumption`. `Balanced` says where a result is on its way: as long as
  no statement was refused, a yielded result is in the catalog, among the
  writes of the open transaction or still in the buffer, and is counted unless
  it is in the buffer. `Accounted` keeps the claim of a task that has completed
  (`Delivered`) while others, of the same job or not, go on writing.
- `NoneCreatedTwice` (`Ingestion_proofs`). `CreatedOnce` bounds a sum over
  tasks by the number of rows, and neither side of that can be carried from
  step to step. The invariant `CreatedInv` says instead that what the tasks
  report as created can be dealt out: there is an `owner` of each product such
  that a task's count is at most the number of products it owns that are in the
  catalog or among its own uncommitted rows. A row that is inserted is dealt to
  its writer, who is the only one (`OneWriter`: the lock of a row is one
  task's) and does not own it yet (`Unwritten`: a task looks a product up
  once). The bound on the sum then follows from `SumOfParts` of `SetLemmas`,
  which needs the sets of messages and products to be finite.
- `CrawlOnceAndAll` (`Ingestion_proofs`), for any site, number of pages and
  length of them, from `CrawlAssumption`: a listing is a finite sequence of
  hrefs. `Remembered` says that remembering a url and trying it come together,
  with the item between them, and that everything offered is remembered or
  still pending on the page at hand.
- `AnswersAreKept` and `TagsAreReplaced` (`Ingestion_proofs`), for any items,
  tags, files and overlapping requests, from `ManualAssumption`. `ManualInv`
  says which statements each kind of request has sent when (`StepsInOrder`),
  that what it has written fits the tables whatever commits meanwhile
  (`WritesFit`: a tag of an uncommitted pair is not deleted), that an import has counted what it holds (`Counted`), that new ids
  and row locks are one request's (`Apart`), and that between its DELETE and
  its commit a PATCH of a column accounts for every pair of its item
  (`Replacing`).
- `OneItemPerPost`, `DeciderIsRecorded` and `ReviewTypeCorrect`
  (`Ingestion_proofs`), for any number of posts and admins and any limit
  of a claim, from `ReviewAssumption`. `ReviewInv` adds who holds which key
  and which row, that a held key is in no committed item, and that a claim
  holds pending rows only.
- `FetchesAreQueued` (`Ingestion_proofs`), for any number of fetches, posts and
  retries, any answers of the Graph API and any limit of calls, from
  `FetchAssumption`. A fetch counts the posts that it has looked up in vain,
  long before the unique key decides which of them it may insert; that the count
  is right in the end rests on the rollback of the whole batch. `Settling` says
  for each stage where a post of the answer is (queued, inserted, or still on
  one of two lists) and that the count is ahead of the rows by those to come;
  `RowsApart` that no row is of two fetches, which an insert keeps because it
  has waited for the open ones and fails on the committed ones.
- `QueueIsUndecided`, `DecisionsAreComplete` and `TypeCorrect`
  (`ReviewQueue_proofs`), for any number of items and admins and whatever
  statuses a PATCH may set, from `ModerationAssumption`. A single operation
  writes only what differs from the copy it loaded, so the invariant has to say
  how old a copy may be (`CopiesGood`): a reason that it saw is still in the
  row, and while the item is in the queue the copy is of the item as submitted.

### Catalog, taxonomy and user data

- `TablesStayConsistent` (`Taxonomy_proofs`), for any types, tags, items, names
  and slugs, any number of requests and any rows at the start that satisfy the
  constraints (`TaxonomyAssumption`). `ConstraintsHold` speaks of committed
  rows; the invariant adds that a request's uncommitted rows keep every
  constraint beside the committed ones (`Sound`) and beside those of each other
  request (`Apart`), which is what the row locks and the unique indexes
  guarantee between flush and commit.
- `MergeLosesNoneSeen` (`Taxonomy_proofs`), an action property, for the same
  values and any lists of tags that a PATCH may give: `Carries` says that what a
  merge saw of its source has the target now, or will when the merge commits,
  unless the target is gone. An item is dropped from what the merge saw
  (`seen`, for a merge a history) when another request's commit takes the target
  from it, which a PATCH does or whoever removes the target;
  `MergeMovesEveryItem` shows what may then be left of it.
- `FeedIsStable` and `SearchIsFull` (`Visitor_proofs`), for any items, dates,
  filters, page sizes and limits, from `DiscoveryAssumption`. The feed's order
  is proved to be a strict total order (`BeforeFacts`), a page of it is found to
  be a prefix of what comes after the cursor, and `WalkShape` says of a walk
  between two pages that nothing shown comes after its cursor and everything
  owed does, whatever was written in between. `SearchShape` keeps what a search
  has found within its limit and within what was active.
- `EntriesAgree`, `LinksLast` and `FailuresExplained` (`UserData_proofs`), for
  any users, lists, items, tokens and overlapping requests, from
  `WishlistAssumption`. `WishlistInv` says what the statement that a request
  has sent means for the committed rows as long as its locks last (`Held`: the
  row it will write has the committed token, the entry it will add is not there) and that the locks of two requests on one list are
  compatible (`LocksApart`).
- `AggregatesAreExact` (`UserData_proofs`), for any users, items, tags, kinds
  and overlapping requests, from `InteractionsAssumption`. `InteractInv` says
  which rows a request has written when (`Wrote`), that each still holds one
  interaction more than what is committed and belongs to a tag that exists
  (`Holds`), that no other request has written it (`Separate`), and that the
  committed counters and scores are the count and the total weight of the
  committed events. A commit adds one event, and `SumAdd` its weight.

`SetLemmas` has what these need of finite sets. The library's induction on
finite sets takes an operator as a parameter, which no installed prover can
instantiate; `AllSubsets` gets its effect from the well-foundedness of the
strict subset ordering (a set of subsets without a least counterexample is
all of them), and with it `AddsExists` and `SumIs` show that the fold which the
models add up with is the sum: `SumAdd`, `SumType`, `SumSame`, `SumOfParts`.

### What the assumptions ask

- `ScrapeAssumption`, `ManualAssumption`: finitely many jobs, products and
  requests; the absent item is not a version of one; as many unused ids as
  requests (`gen_random_uuid` does not run out).
- `TaxonomyAssumption`, `WishlistAssumption`, `InteractionsAssumption`,
  `ReviewAssumption`: markers (`NoRow`, `Dropped`, `NoToken`, `Nobody`) are not
  values they stand for, the rows at the start satisfy the tables' constraints,
  the kinds of interaction are those of the enum, and sets that an idle
  request's record is filled from are not empty.
- `FetchAssumption`: an answer is a finite sequence of posts, and a post without
  an id has none of theirs; the two limits are numbers.
- `DiscoveryAssumption`: ids and dates are integers, ids that end a walk are
  not items, and page sizes and limits are at least 1, as `list_items` and
  `SearchRequest` require.
- A share of a list draws a token only while one is left (a bound in the guard
  of `FlushShare`): where a proof needs a token it has the guard.

### Only model-checked

All liveness (`EveryTaskEnds`, `EveryReviewEnds`,
`EveryDecisionEnds`, `RenewedCallsSettle`, `EveryInteractionEnds`, `RecsSettle`,
`EveryRequestAnswered`, `CacheSettles`, `SearchIsAnswered`, `FetchSettles`,
`CrawlEnds`), which is outside what the prover can do.

## Not modelled, and why

- The embedding task (`workers/tasks/embed.py`): one read, one call, one
  write of a column that only the vector search reads, and nothing enqueues it
  but an admin's trigger of a cron entry.
- Of the cron scheduler, the CRUD: each operation is one statement on a row of
  a table that the beat process never reads. Its trigger of `scrape_site_task` is
  `TriggerSchedule` of `ScrapeTask`; its triggers of the other tasks send what
  their own modules or notes have (the fetch, the recommendations' task that
  drops its result, the embedding).
- Similar items, the profile form and the admin's listings: read-only queries.
- Configuration, logging, the router, health probes: no state.
- Frontend stores, pages and components: rendering, and marks of mutations in
  flight that a refetch replaces. Two quick clicks on one heart, answered out of
  order, are left for later.
- Schemas and migrations: declarations; the constraints that matter (unique and
  foreign keys, defaults, cascades) are in the modules' guards and actions.
- Passwords, JWT contents, the uniqueness of e-mails, the expiry of tokens and
  their keys, rate limits of the API.
- The content of rows beyond what a property tells apart: parsed prices, names,
  notes, icons, sort orders, prompts, presigned urls.
- Cancelled jobs, skipped posts and purchased wishes: nothing sets them.
- The sharing of the module-global engine and Redis pool between the event
  loops of successive Celery tasks.
- Celery's redelivery when a broker connection is lost (the default
  acknowledges on start).

## Plan

Left, in this order: `SessionClient` composed with `RefreshTokens` (which
answers a tab really gets, and the provider's refresh racing the interceptor's); an abstract cache-aside
specification (a cache whose contents are some committed state no older than
its lifetime) that the taxonomy and the recommendations are shown to implement;
the frontend's optimistic sets.
