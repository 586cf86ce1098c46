---- MODULE SessionClient ----
(***************************************************************************)
(* One browser tab's session: the interceptors of                          *)
(* frontend/src/lib/api/client.ts, the store of lib/store/authStore.ts,    *)
(* AuthProvider and the sign-in and sign-out hooks.                        *)
(*                                                                         *)
(* The tab runs one callback at a time; the server answers requests in any *)
(* order and any way.  A request that renews the session of another is not *)
(* a request of its own here: request r is "refreshing" while the          *)
(* POST /auth/refresh that the interceptor sent on its behalf is open.     *)
(***************************************************************************)

CONSTANTS Calls,   \* what pages and hooks ask of the API
          Load,    \* AuthProvider's POST /auth/refresh when the page loads
          Me       \* AuthProvider's GET /auth/me after it

ASSUME SessionAssumption == Load \notin Calls /\ Me \notin Calls /\ Load # Me

Requests == Calls \cup {Load, Me}

VARIABLES isRefreshing,  \* the flag of client.ts
          refreshQueue,  \* requests whose 401 waits for the refresh under way
          request,       \* request[r]: what r waits for, and its _retry mark
          user,          \* a user is in the store, and in localStorage
          accessToken,   \* an access token is in the store
          mounted,       \* AuthProvider's effects have run
          badAnswers     \* history: refreshes answered without a token, or with 401

store == <<user, accessToken>>
vars == <<isRefreshing, refreshQueue, request, user, accessToken, mounted, badAnswers>>

Phases == {"idle", "sent", "queued", "refreshing", "settled"}
Ops == {"api", "login", "logout", "refresh", "me"}
NoRequest == [phase |-> "idle", op |-> "api", retry |-> FALSE]
\* Kept under a name of its own.
RejectedRequest == [NoRequest EXCEPT !.phase = "rejected"]

SettledRequest == [NoRequest EXCEPT !.phase = "settled"]
Sent(op) == [NoRequest EXCEPT !.phase = "sent", !.op = op]

TypeOK ==
    /\ isRefreshing \in BOOLEAN
    /\ refreshQueue \subseteq Requests
    /\ request \in [Requests -> [phase : Phases, op : Ops, retry : BOOLEAN]]
    /\ user \in BOOLEAN /\ accessToken \in BOOLEAN /\ mounted \in BOOLEAN
    /\ badAnswers \subseteq {"tokenless", "refused"}

\* A page before its first effect: only the stored user is known.
Init ==
    /\ isRefreshing = FALSE /\ refreshQueue = {}
    /\ accessToken = FALSE /\ mounted = FALSE
    /\ request = [r \in Requests |-> NoRequest]
    /\ badAnswers = {}
    /\ user \in BOOLEAN

(* AuthProvider's effect, after the effects of the pages below it: renew   *)
(* the session of a stored user whose token was not stored.                *)
Mount ==
    /\ ~mounted /\ mounted' = TRUE
    /\ request' = [request EXCEPT ![Load] = IF user THEN Sent("refresh") ELSE @]
    /\ UNCHANGED <<isRefreshing, refreshQueue, store, badAnswers>>

Send(c, op) ==
    /\ request[c].phase = "idle" /\ op \in {"api", "login", "logout"}
    /\ request' = [request EXCEPT ![c] = Sent(op)]
    /\ UNCHANGED <<isRefreshing, refreshQueue, store, mounted, badAnswers>>

----
Settled(reqs, R) == [r \in Requests |-> IF r \in R THEN SettledRequest ELSE reqs[r]]

Waiting(r) == request[r].phase \in {"sent", "queued", "refreshing"}

(* The hooks' and AuthProvider's reaction to an answer.  A token in it is  *)
(* kept; getMe follows AuthProvider's refresh.                             *)
Answered(r, hasToken) ==
    /\ request[r].phase = "sent"
    /\ LET op == request[r].op IN
       /\ user' = ((user \/ op \in {"login", "me"}) /\ op # "logout")
       /\ accessToken' = CASE op \in {"login", "refresh"} -> hasToken
                           [] op = "logout" -> FALSE
                           [] OTHER -> accessToken
       /\ request' = IF op = "refresh" THEN [Settled(request, {r}) EXCEPT ![Me] = Sent("me")]
                                       ELSE Settled(request, {r})
       /\ badAnswers' = IF op = "refresh" /\ ~hasToken THEN badAnswers \cup {"tokenless"}
                                                     ELSE badAnswers
    /\ UNCHANGED <<isRefreshing, refreshQueue, mounted>>

\* AuthProvider and useLogout clear the store when their request fails.
ClearsOnFailure(r) == request[r].op \in {"refresh", "me", "logout"}

\* A 401 to a request marked _retry, or an error of any other kind.
Rejected(r) ==
    /\ request[r].phase = "sent"
    /\ request' = Settled(request, {r})
    /\ user' = (user /\ ~ClearsOnFailure(r))
    /\ accessToken' = (accessToken /\ ~ClearsOnFailure(r))
    /\ UNCHANGED <<isRefreshing, refreshQueue, mounted, badAnswers>>

\* isRefreshing read but set only after the dynamic import.
UnauthorizedSetsLate(r) ==
    /\ request[r].phase = "sent" /\ ~request[r].retry
    /\ request' = [request EXCEPT ![r].phase = "refreshing", ![r].retry = TRUE]
    /\ isRefreshing' = TRUE
    /\ UNCHANGED <<refreshQueue, store, mounted, badAnswers>>

(* A 401: the first starts a refresh, those that come before it ends wait  *)
(* for it without a mark.  POST /auth/logout asks for no credentials.      *)
Unauthorized(r) ==
    /\ request[r].phase = "sent" /\ ~request[r].retry /\ request[r].op # "logout"
    /\ IF isRefreshing
       THEN /\ refreshQueue' = refreshQueue \cup {r}
            /\ request' = [request EXCEPT ![r].phase = "queued"]
            /\ UNCHANGED isRefreshing
       ELSE /\ isRefreshing' = TRUE
            /\ request' = [request EXCEPT ![r].phase = "refreshing", ![r].retry = TRUE]
            /\ UNCHANGED refreshQueue
    /\ UNCHANGED <<store, mounted, badAnswers>>

----
(* The refresh sent on behalf of r, while it is open.  Its own 401 is one  *)
(* that finds isRefreshing set: it waits in the queue for itself.          *)
RefreshOpen(r) == request[r].phase = "refreshing" /\ r \notin refreshQueue

RefreshRefused(r) ==
    /\ RefreshOpen(r)
    /\ refreshQueue' = refreshQueue \cup {r}
    /\ badAnswers' = badAnswers \cup {"refused"}
    /\ UNCHANGED <<isRefreshing, request, store, mounted>>

\* The queue emptied without a word to those in it.
ResentAlone(r) == [request EXCEPT ![r].phase = "sent"]

\* Every request in the queue, and r itself, sent again.
Resent(r) ==
    [q \in Requests |-> IF q \in refreshQueue \cup {r}
                        THEN [request[q] EXCEPT !.phase = "sent"] ELSE request[q]]

(* processQueue(null, token): without a token in the answer the queue is   *)
(* emptied and nobody in it is told.                                       *)
RefreshAnswered(r, hasToken) ==
    /\ RefreshOpen(r)
    /\ accessToken' = hasToken
    /\ request' = IF hasToken THEN Resent(r) ELSE [request EXCEPT ![r].phase = "sent"]
    /\ refreshQueue' = {} /\ isRefreshing' = FALSE
    /\ badAnswers' = IF hasToken THEN badAnswers ELSE badAnswers \cup {"tokenless"}
    /\ UNCHANGED <<user, mounted>>

\* The waiting requests forgotten when the refresh fails.
RefreshFailsAlone(r) ==
    /\ RefreshOpen(r)
    /\ request' = Settled(request, {r})
    /\ isRefreshing' = FALSE /\ user' = FALSE /\ accessToken' = FALSE
    /\ UNCHANGED <<refreshQueue, mounted, badAnswers>>

(* The refresh fails otherwise (no network, rate limit, server error):     *)
(* every waiting request is rejected and the user signed out.              *)
RefreshFails(r) ==
    /\ RefreshOpen(r)
    /\ request' = Settled(request, refreshQueue \cup {r})
    /\ refreshQueue' = {} /\ isRefreshing' = FALSE
    /\ user' = FALSE /\ accessToken' = FALSE
    /\ UNCHANGED <<mounted, badAnswers>>

(* The page is loaded again, by the user or by the redirect to /auth/login *)
(* that follows a failed refresh: what the old page waited for is gone.    *)
Reload ==
    /\ isRefreshing' = FALSE /\ refreshQueue' = {}
    /\ accessToken' = FALSE /\ mounted' = FALSE
    /\ request' = [r \in Requests |-> NoRequest]
    /\ badAnswers' = {}
    /\ UNCHANGED user

RequestStep(r) ==
    \/ \E hasToken \in BOOLEAN : Answered(r, hasToken) \/ RefreshAnswered(r, hasToken)
    \/ Rejected(r) \/ Unauthorized(r)
    \/ RefreshRefused(r) \/ RefreshFails(r)

Next ==
    \/ \E c \in Calls, op \in Ops : Send(c, op)
    \/ \E r \in Requests : RequestStep(r)
    \/ Mount
    \/ Reload

(* A request sent is answered or fails at last: axios rejects it when the  *)
(* connection closes.  Nothing is assumed of the user.                     *)
Spec == Init /\ [][Next]_vars /\ \A r \in Requests : WF_vars(RequestStep(r))

----
(* However many requests meet an expired token together, one refresh is    *)
(* under way on their behalf, and the flag tells whether it is.            *)
OneRefresh ==
    /\ \A r, s \in Requests :
          request[r].phase = "refreshing" /\ request[s].phase = "refreshing" => r = s
    /\ isRefreshing <=> \E r \in Requests : request[r].phase = "refreshing"

(* A request waits in the queue only while a refresh is under way that     *)
(* will empty it; and none is forgotten outside it unless the server       *)
(* answered a refresh without the token the client looks for.              *)
NobodyForgotten ==
    /\ refreshQueue # {} => isRefreshing
    /\ \A r \in Requests :
          request[r].phase = "queued" => r \in refreshQueue \/ "tokenless" \in badAnswers

(* As long as refreshes answer with a token, or fail in a way other than   *)
(* 401, every request is answered at last: the queue loses nobody and no   *)
(* request is renewed for ever.                                            *)
RenewedCallsSettle ==
    [](badAnswers = {}) => \A r \in Requests : Waiting(r) ~> ~Waiting(r)

(* "Response interceptor - 401 -> refresh -> retry", and "if the refresh    *)
(* cookie is expired or missing, the user is redirected to login": every   *)
(* request is answered or rejected at last, whatever the server answers.   *)
EveryCallSettles == \A r \in Requests : Waiting(r) ~> ~Waiting(r)
====
