---- MODULE RefreshTokens ----
(***************************************************************************)
(* One user's refresh tokens: the Redis bookkeeping of                     *)
(* backend/app/core/security.py, driven by login, refresh and logout of    *)
(* services/auth_service.py and api/v1/auth.py.                            *)
(*                                                                         *)
(* A request is the list of Redis commands and answers it has still to     *)
(* perform.  Each command is atomic; between two of them any other request *)
(* may run.  Tokens are numbered in the order they are minted; a token's   *)
(* key refresh_jti:{jti} exists while it is in live.  The seven days after *)
(* which keys and tokens expire together are not modelled.                 *)
(***************************************************************************)
EXTENDS Integers, Sequences

CONSTANTS Browsers, NoBrowser,
          Requests,   \* slots for requests in flight
          MaxTokens   \* bound of the model: tokens minted

ASSUME TokenAssumption == MaxTokens \in Nat /\ NoBrowser \notin Browsers

NoToken == 0
Tokens == 1 .. MaxTokens

VARIABLES live,       \* tokens whose marker key is set
          family,     \* the set key refresh_family:{user}
          minted,     \* tokens minted so far
          parent,     \* parent[t]: the token t was rotated from
          cookie,     \* cookie[b]: the refresh cookie of browser b
          request,    \* requests in flight
          revoked,    \* history: tokens whose key was deleted
          presented,  \* history: how many requests sent t as their cookie (2: more than one)
          burned      \* history: the family has been revoked

redis == <<live, family>>
history == <<revoked, presented, burned>>
vars == <<redis, minted, parent, cookie, request, history>>

Commands == {"exists", "del", "setex", "sadd", "smembers", "delmembers", "delfamily",
             "reply", "refuse", "clear"}
Idle(r) == request[r].todo = <<>>
NoRequest == [todo |-> <<>>, browser |-> NoBrowser,
              old |-> NoToken, new |-> NoToken, jtis |-> {}]

TypeOK ==
    /\ minted \in 0 .. MaxTokens
    /\ live \subseteq 1 .. minted /\ family \subseteq 1 .. minted
    /\ revoked \subseteq 1 .. minted
    /\ parent \in [Tokens -> Tokens \cup {NoToken}]
    /\ cookie \in [Browsers -> Tokens \cup {NoToken}]
    /\ request \in [Requests -> [todo : Seq(Commands), browser : Browsers \cup {NoBrowser},
                                 old : Tokens \cup {NoToken}, new : Tokens \cup {NoToken},
                                 jtis : SUBSET Tokens]]
    /\ presented \in [Tokens -> 0 .. 2]
    /\ burned \in BOOLEAN

Init ==
    /\ live = {} /\ family = {} /\ revoked = {}
    /\ minted = 0
    /\ parent = [t \in Tokens |-> NoToken]
    /\ cookie = [b \in Browsers |-> NoToken]
    /\ request = [r \in Requests |-> NoRequest]
    /\ presented = [t \in Tokens |-> 0]
    /\ burned = FALSE

----
(* The commands of each function of core/security.py, in their order. *)

\* The family entry first.
StoreRefreshJtiSwapped == <<"sadd", "setex">>

StoreRefreshJti == <<"setex", "sadd">>
RevokeRefreshJti == <<"del">>
RevokeUserFamily == <<"smembers", "delmembers", "delfamily">>

\* The new token is stored before the old one is retired.
RotateMintsFirst == StoreRefreshJti \o RevokeRefreshJti

\* rotate_refresh_token, once the old token has been found valid.
Rotate == RevokeRefreshJti \o StoreRefreshJti

\* Logging out of every browser at once.
LogoutEverywhere == RevokeUserFamily

\* logout deletes the token's key and leaves its entry in the family.
Logout == RevokeRefreshJti

Start(r, b, token, todo) ==
    request' = [request EXCEPT ![r] =
                   [NoRequest EXCEPT !.browser = b, !.old = token, !.todo = todo]]

Present(token) == presented' = [presented EXCEPT ![token] = IF @ < 2 THEN @ + 1 ELSE @]

(* POST /auth/register and /auth/login: _issue_tokens stores a new token   *)
(* before the request's transaction commits and the cookie is sent.        *)
BeginLogin(r, b) ==
    /\ Idle(r)
    /\ Start(r, b, NoToken, StoreRefreshJti \o <<"reply">>)
    /\ UNCHANGED <<redis, minted, parent, cookie, history>>

\* POST /auth/refresh with the browser's cookie.
BeginRefresh(r, b) ==
    /\ Idle(r) /\ cookie[b] # NoToken
    /\ Start(r, b, cookie[b], <<"exists">>)
    /\ Present(cookie[b])
    /\ UNCHANGED <<redis, minted, parent, cookie, revoked, burned>>

\* POST /auth/logout.
BeginLogout(r, b) ==
    /\ Idle(r) /\ cookie[b] # NoToken
    /\ Start(r, b, cookie[b], Logout \o <<"clear">>)
    /\ Present(cookie[b])
    /\ UNCHANGED <<redis, minted, parent, cookie, revoked, burned>>

----
Doing(r, command) == ~Idle(r) /\ Head(request[r].todo) = command
Done(r) == [request EXCEPT ![r].todo = Tail(@)]

(* is_refresh_jti_valid and what rotate_refresh_token does with the        *)
(* answer: rotate, or burn the family and refuse.                          *)
Exists(r) ==
    /\ Doing(r, "exists")
    /\ request' = [request EXCEPT ![r].todo =
                      IF request[r].old \in live THEN Rotate \o <<"reply">>
                                                 ELSE RevokeUserFamily \o <<"refuse">>]
    /\ UNCHANGED <<redis, minted, parent, cookie, history>>

Delete(r) ==
    /\ Doing(r, "del")
    /\ live' = live \ {request[r].old}
    /\ revoked' = revoked \cup {request[r].old}
    /\ request' = Done(r)
    /\ UNCHANGED <<family, minted, parent, cookie, presented, burned>>

\* The token a request stores is minted for it: a fresh jti.
NewToken(r) == IF request[r].new = NoToken THEN minted + 1 ELSE request[r].new

\* The jti is not fresh: the next request gets it too.
MintRepeated(r) ==
    /\ NewToken(r) \in Tokens
    /\ minted' = minted
    /\ parent' = [parent EXCEPT ![NewToken(r)] = request[r].old]
    /\ request' = [request EXCEPT ![r].new = NewToken(r), ![r].todo = Tail(@)]

Mint(r) ==
    /\ NewToken(r) \in Tokens
    /\ minted' = IF request[r].new = NoToken THEN minted + 1 ELSE minted
    /\ parent' = [parent EXCEPT ![NewToken(r)] = request[r].old]
    /\ request' = [request EXCEPT ![r].new = NewToken(r), ![r].todo = Tail(@)]

SetMarker(r) ==
    /\ Doing(r, "setex")
    /\ Mint(r)
    /\ live' = live \cup {NewToken(r)}
    /\ UNCHANGED <<family, cookie, history>>

AddToFamily(r) ==
    /\ Doing(r, "sadd")
    /\ Mint(r)
    /\ family' = family \cup {NewToken(r)}
    /\ UNCHANGED <<live, cookie, history>>

ReadFamily(r) ==
    /\ Doing(r, "smembers")
    /\ request' = [request EXCEPT ![r].todo = Tail(@), ![r].jtis = family]
    /\ UNCHANGED <<redis, minted, parent, cookie, history>>

DeleteMembers(r) ==
    /\ Doing(r, "delmembers")
    /\ live' = live \ request[r].jtis
    /\ revoked' = revoked \cup request[r].jtis
    /\ request' = Done(r)
    /\ UNCHANGED <<family, minted, parent, cookie, presented, burned>>

DeleteFamily(r) ==
    /\ Doing(r, "delfamily")
    /\ family' = {}
    /\ burned' = TRUE
    /\ request' = Done(r)
    /\ UNCHANGED <<live, minted, parent, cookie, revoked, presented>>

(* The answer sets the cookie, leaves it (401) or clears it. *)
Reply(r) ==
    /\ ~Idle(r) /\ Head(request[r].todo) \in {"reply", "refuse", "clear"}
    /\ cookie' = CASE Doing(r, "reply") -> [cookie EXCEPT ![request[r].browser] = request[r].new]
                   [] Doing(r, "clear") -> [cookie EXCEPT ![request[r].browser] = NoToken]
                   [] OTHER -> cookie
    /\ request' = [request EXCEPT ![r] = NoRequest]
    /\ UNCHANGED <<redis, minted, parent, history>>

(* The server dies, Redis or the commit fails, or the answer is lost: the  *)
(* commands done so far stand and the browser keeps its cookie.            *)
Abort(r) ==
    /\ ~Idle(r)
    /\ request' = [request EXCEPT ![r] = NoRequest]
    /\ UNCHANGED <<redis, minted, parent, cookie, history>>

Next ==
    \E r \in Requests :
        \/ \E b \in Browsers : BeginLogin(r, b) \/ BeginRefresh(r, b) \/ BeginLogout(r, b)
        \/ Exists(r) \/ Delete(r) \/ SetMarker(r) \/ AddToFamily(r)
        \/ ReadFamily(r) \/ DeleteMembers(r) \/ DeleteFamily(r)
        \/ Reply(r) \/ Abort(r)

Spec == Init /\ [][Next]_vars

----
(* A token that was rotated away, logged out or burned never becomes valid *)
(* again, whatever the requests in flight have still to do.                *)
RevokedStaysRevoked == live \cap revoked = {}

(* A token and the token it was rotated into are never valid together,     *)
(* even when the server dies half-way through the rotation.                *)
ParentRetired == \A t \in live : parent[t] \notin live

(* The family is burned only after two requests had sent the same token    *)
(* (a replay, a retry after a lost answer, two tabs, or a refresh that a   *)
(* logout overtakes): browsers that send a token once are never logged out *)
(* by what other browsers of the user do.                                  *)
BurnNeedsReplay == burned => \E t \in Tokens : presented[t] = 2

(* "each successful refresh issues a new refresh JTI and deletes the old   *)
(* one in the same transaction": a token has at most one valid successor.  *)
OneSuccessor ==
    \A t, u \in live : parent[t] = parent[u] /\ parent[t] # NoToken => t = u
====
