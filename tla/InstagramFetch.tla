---- MODULE InstagramFetch ----
(***************************************************************************)
(* The Celery task of backend/app/workers/tasks/instagram.py: the hourly   *)
(* counter in Redis, the call of the Graph API, and the insertion of new   *)
(* posts into instagram_queue, unique by post id, in one transaction       *)
(* (InstagramIngestionService.fetch_and_queue).                            *)
(*                                                                         *)
(* autoretry_for any exception, max_retries times; a message is            *)
(* acknowledged when its task starts, so a worker that dies loses it.      *)
(***************************************************************************)
EXTENDS Naturals, Sequences, FiniteSets

CONSTANTS Tasks, PostIds,
          Responses,   \* what the API may answer: sequences of posts or NoId
          NoId,        \* a post without an id
          RateLimit, MaxRetries

ASSUME FetchAssumption ==
    /\ NoId \notin PostIds
    /\ Responses \subseteq Seq(PostIds \cup {NoId})
    /\ RateLimit \in Nat
    /\ MaxRetries \in Nat

VARIABLES rate,   \* [count, ttl]: the counter's value, and whether it expires
          queue,  \* committed post ids
          fetcher \* fetcher[t]: the local state of task t

fetchVars == <<rate, queue, fetcher>>

Waiting == [pc |-> "waiting", tries |-> 0, posts |-> <<>>, new |-> <<>>,
            seen |-> {}, w |-> {}, result |-> 0]
Called == [Waiting EXCEPT !.pc = "ready"]

FetchInit ==
    /\ rate = [count |-> 0, ttl |-> FALSE]
    /\ queue \in SUBSET PostIds
    /\ fetcher = [t \in Tasks |-> Waiting]

IdsIn(s) == {s[k] : k \in DOMAIN s} \ {NoId}

(* Any exception: the transaction is rolled back and the task tried again. *)
Raised(t) ==
    LET tries == fetcher[t].tries
    IN fetcher' = [fetcher EXCEPT ![t] = IF tries < MaxRetries THEN [Called EXCEPT !.tries = tries + 1]
                                   ELSE [Called EXCEPT !.pc = "failed", !.tries = tries]]

To(t, pc) == fetcher' = [fetcher EXCEPT ![t].pc = pc]

(* POST /instagram/trigger; a dispatch that fails is answered with an error. *)
Trigger(t) ==
    /\ fetcher[t].pc = "waiting"
    /\ fetcher' = [fetcher EXCEPT ![t] = Called]
    /\ UNCHANGED <<rate, queue>>

\* INCR, and the test of its answer; the answer 1 sends an EXPIRE first.
Count(t) ==
    LET count == rate.count + 1
    IN /\ fetcher[t].pc = "ready"
       /\ rate' = [rate EXCEPT !.count = count]
       /\ IF count = 1 THEN To(t, "expire")
          ELSE IF count > RateLimit THEN Raised(t)
          ELSE To(t, "fetch")
       /\ UNCHANGED queue

SetTtl(t) ==
    /\ fetcher[t].pc = "expire"
    /\ rate' = [rate EXCEPT !.ttl = rate.count > 0]
    /\ To(t, "fetch")
    /\ UNCHANGED queue

Fetch(t, posts) ==
    /\ fetcher[t].pc = "fetch"
    /\ fetcher' = [fetcher EXCEPT ![t].pc = "check", ![t].posts = posts, ![t].seen = IdsIn(posts)]
    /\ UNCHANGED <<rate, queue>>

(* One SELECT per post.  Nothing is flushed before the loop ends, so a     *)
(* post that the answer repeats is looked for among committed rows only.   *)
CheckPost(t) ==
    LET post == Head(fetcher[t].posts)
    IN /\ fetcher[t].pc = "check" /\ fetcher[t].posts # <<>>
       /\ fetcher' = [fetcher EXCEPT ![t].posts = Tail(@),
                       ![t].new = IF post = NoId \/ post \in queue THEN @ ELSE Append(@, post),
                       ![t].result = IF post = NoId \/ post \in queue THEN @ ELSE @ + 1]
       /\ UNCHANGED <<rate, queue>>

FlushPosts(t) ==
    /\ fetcher[t].pc = "check" /\ fetcher[t].posts = <<>>
    /\ To(t, "insert")
    /\ UNCHANGED <<rate, queue>>

----
AwaitsInsert(t, u) ==
    /\ fetcher[t].pc = "insert" /\ fetcher[t].new # <<>>
    /\ t # u /\ fetcher[u].pc = "insert" /\ Head(fetcher[t].new) \in fetcher[u].w

\* Mutant: ON CONFLICT DO NOTHING, but the count is of the posts looked up.
InsertPostIgnoring(t) ==
    LET post == Head(fetcher[t].new)
    IN /\ fetcher[t].pc = "insert" /\ fetcher[t].new # <<>>
       /\ \A u \in Tasks : ~AwaitsInsert(t, u)
       /\ fetcher' = [fetcher EXCEPT ![t].new = Tail(@),
                               ![t].w = IF post \in queue THEN @ ELSE @ \cup {post}]
       /\ UNCHANGED <<rate, queue>>

\* Mutant: a refused INSERT is tried again in the same transaction.
InsertPostRetrying(t) ==
    LET post == Head(fetcher[t].new)
    IN /\ fetcher[t].pc = "insert" /\ fetcher[t].new # <<>>
       /\ \A u \in Tasks : ~AwaitsInsert(t, u)
       /\ post \notin queue \cup fetcher[t].w
       /\ fetcher' = [fetcher EXCEPT ![t].new = Tail(@), ![t].w = @ \cup {post}]
       /\ UNCHANGED <<rate, queue>>

(* One INSERT per new post: it waits for an uncommitted row of that id and *)
(* fails on a committed one, or on its own.                                *)
InsertPost(t) ==
    LET post == Head(fetcher[t].new)
    IN /\ fetcher[t].pc = "insert" /\ fetcher[t].new # <<>>
       /\ \A u \in Tasks : ~AwaitsInsert(t, u)
       /\ IF post \in queue \cup fetcher[t].w THEN Raised(t)
          ELSE fetcher' = [fetcher EXCEPT ![t].new = Tail(@), ![t].w = @ \cup {post}]
       /\ UNCHANGED <<rate, queue>>

CommitPosts(t) ==
    /\ fetcher[t].pc = "insert" /\ fetcher[t].new = <<>>
    /\ queue' = queue \cup fetcher[t].w
    /\ fetcher' = [fetcher EXCEPT ![t].pc = "done"]
    /\ UNCHANGED rate

InFlight(t) == fetcher[t].pc \in {"expire", "fetch", "check", "insert"}

(* Redis, the API or the database fails. *)
Fail(t) == InFlight(t) /\ Raised(t) /\ UNCHANGED <<rate, queue>>

(* PostgreSQL ends one of two transactions that wait for each other. *)
Victim(t) ==
    /\ \E u \in Tasks : AwaitsInsert(t, u) /\ AwaitsInsert(u, t)
    /\ Raised(t)
    /\ UNCHANGED <<rate, queue>>

(* The worker dies; the message has been acknowledged. *)
Die(t) ==
    /\ InFlight(t)
    /\ fetcher' = [fetcher EXCEPT ![t].pc = "lost", ![t].w = {}]
    /\ UNCHANGED <<rate, queue>>

ExpireRate ==
    /\ rate.ttl
    /\ rate' = [count |-> 0, ttl |-> FALSE]
    /\ UNCHANGED <<queue, fetcher>>

FetchStep(t) ==
    \/ Count(t) \/ SetTtl(t) \/ (\E posts \in Responses : Fetch(t, posts))
    \/ CheckPost(t) \/ FlushPosts(t) \/ InsertPost(t) \/ CommitPosts(t) \/ Victim(t)

FetchNext == ExpireRate \/ \E t \in Tasks : Trigger(t) \/ FetchStep(t) \/ Fail(t) \/ Die(t)

(* A worker that runs a task goes on with it. *)
FetchFairness == \A t \in Tasks : WF_fetchVars(FetchStep(t))
FetchSpec == FetchInit /\ [][FetchNext]_fetchVars /\ FetchFairness

----
(* A fetch that returns has queued every post it was answered, or found it *)
(* queued; it returns how many of them it has added itself; and no post is *)
(* added by two fetches, however they race for it ("the count of newly     *)
(* queued posts", fetch_and_queue).                                        *)
FetchedIsQueued ==
    \A t \in Tasks : fetcher[t].pc = "done" =>
        /\ fetcher[t].seen \cup fetcher[t].w \subseteq queue
        /\ fetcher[t].result = Cardinality(fetcher[t].w)
        /\ \A u \in Tasks \ {t} : fetcher[u].pc = "done" => fetcher[t].w \cap fetcher[u].w = {}

(* Every fetch ends, also when two of them wait for each other's rows or   *)
(* one is answered a post twice.                                           *)
FetchSettles ==
    \A t \in Tasks : fetcher[t].pc = "ready" ~> fetcher[t].pc \in {"done", "failed", "lost"}

(* Does not hold ("EXPIRE only sets TTL on first hit of the window"): when *)
(* the EXPIRE is lost, the counter stays, and in the end refuses all.      *)
WindowReopens == [](rate.count > RateLimit => <>(rate.count = 0))

====
