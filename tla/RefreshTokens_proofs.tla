---- MODULE RefreshTokens_proofs ----
(***************************************************************************)
(* RevokedStaysRevoked, ParentRetired and BurnNeedsReplay, for any number  *)
(* of browsers, requests in flight and tokens.                             *)
(***************************************************************************)
EXTENDS RefreshTokens, SequenceTheorems, TLAPS

\* The programs of the operations, from their first command to their last.
Rotating == <<"del", "setex", "sadd", "reply">>
Storing == <<"setex", "sadd", "reply">>
Entering == <<"sadd", "reply">>
Burning == <<"smembers", "delmembers", "delfamily", "refuse">>
LoggingOut == <<"del", "clear">>

\* What a request may have left to do that neither deletes nor stores a token of its own.
Others == {<<>>, <<"exists">>, <<"reply">>, <<"clear">>, <<"refuse">>, Burning,
           <<"delmembers", "delfamily", "refuse">>, <<"delfamily", "refuse">>}
Programs == {Rotating, Storing, Entering, LoggingOut} \cup Others

(* The programs the operations put together from their parts.              *)
LEMMA Concatenated ==
    /\ StoreRefreshJti \o <<"reply">> = Storing
    /\ Logout \o <<"clear">> = LoggingOut
    /\ Rotate \o <<"reply">> = Rotating
    /\ RevokeUserFamily \o <<"refuse">> = Burning
<1> DEFINE S == Commands
<1>1. StoreRefreshJti \o <<"reply">> = Storing
  <2>1. StoreRefreshJti \o <<"reply">> \in Seq(S) /\ Storing \in Seq(S)
    BY DEF StoreRefreshJti, Storing, Commands
  <2>2. Len(StoreRefreshJti \o <<"reply">>) = 3 /\ Len(Storing) = 3
    BY DEF StoreRefreshJti, Storing
  <2>3. \A i \in 1 .. 3 : (StoreRefreshJti \o <<"reply">>)[i] = Storing[i]
    BY DEF StoreRefreshJti, Storing
  <2> QED
    BY <2>1, <2>2, <2>3, SeqEqual
<1>2. Logout \o <<"clear">> = LoggingOut
  <2>1. Logout \o <<"clear">> \in Seq(S) /\ LoggingOut \in Seq(S)
    BY DEF Logout, RevokeRefreshJti, LoggingOut, Commands
  <2>2. Len(Logout \o <<"clear">>) = 2 /\ Len(LoggingOut) = 2
    BY DEF Logout, RevokeRefreshJti, LoggingOut
  <2>3. \A i \in 1 .. 2 : (Logout \o <<"clear">>)[i] = LoggingOut[i]
    BY DEF Logout, RevokeRefreshJti, LoggingOut
  <2> QED
    BY <2>1, <2>2, <2>3, SeqEqual
<1>3. Rotate \o <<"reply">> = Rotating
  <2>1. Rotate \o <<"reply">> \in Seq(S) /\ Rotating \in Seq(S)
    BY DEF Rotate, StoreRefreshJti, RevokeRefreshJti, Rotating, Commands
  <2>2. Len(Rotate \o <<"reply">>) = 4 /\ Len(Rotating) = 4
    BY DEF Rotate, StoreRefreshJti, RevokeRefreshJti, Rotating
  <2>3. \A i \in 1 .. 4 : (Rotate \o <<"reply">>)[i] = Rotating[i]
    BY DEF Rotate, StoreRefreshJti, RevokeRefreshJti, Rotating
  <2> QED
    BY <2>1, <2>2, <2>3, SeqEqual
<1>4. RevokeUserFamily \o <<"refuse">> = Burning
  <2>1. RevokeUserFamily \o <<"refuse">> \in Seq(S) /\ Burning \in Seq(S)
    BY DEF RevokeUserFamily, Burning, Commands
  <2>2. Len(RevokeUserFamily \o <<"refuse">>) = 4 /\ Len(Burning) = 4
    BY DEF RevokeUserFamily, Burning
  <2>3. \A i \in 1 .. 4 : (RevokeUserFamily \o <<"refuse">>)[i] = Burning[i]
    BY DEF RevokeUserFamily, Burning
  <2> QED
    BY <2>1, <2>2, <2>3, SeqEqual
<1> QED
  BY <1>1, <1>2, <1>3, <1>4

(* What is left of a program after its first command. *)
LEMMA Tails ==
    /\ Tail(Rotating) = Storing
    /\ Tail(Storing) = Entering
    /\ Tail(Entering) = <<"reply">>
    /\ Tail(LoggingOut) = <<"clear">>
    /\ Tail(Burning) = <<"delmembers", "delfamily", "refuse">>
    /\ Tail(<<"delmembers", "delfamily", "refuse">>) = <<"delfamily", "refuse">>
    /\ Tail(<<"delfamily", "refuse">>) = <<"refuse">>
    /\ Tail(<<"exists">>) = <<>>
    /\ Tail(<<"reply">>) = <<>>
    /\ Tail(<<"clear">>) = <<>>
    /\ Tail(<<"refuse">>) = <<>>
BY DEF Rotating, Storing, Entering, LoggingOut, Burning

(* The first commands tell the programs that delete or store from the rest. *)
LEMMA Heads ==
    ASSUME NEW todo \in Programs, todo # <<>>
    PROVE  /\ Head(todo) = "del" => todo = Rotating \/ todo = LoggingOut
           /\ Head(todo) = "setex" => todo = Storing
           /\ Head(todo) = "sadd" => todo = Entering
           /\ Head(todo) \notin {"del", "setex", "sadd"} => todo \in Others
BY DEF Programs, Others, Rotating, Storing, Entering, LoggingOut, Burning

(* The programs of the operations are not one another's. *)
LEMMA Distinct ==
    /\ Rotating \notin Others \cup {Storing, Entering, LoggingOut}
    /\ Storing \notin Others \cup {Entering, LoggingOut}
    /\ Entering \notin Others \cup {LoggingOut}
    /\ LoggingOut \notin Others
    /\ Programs \subseteq Seq(Commands)
BY DEF Programs, Others, Rotating, Storing, Entering, LoggingOut, Burning, Commands

----
RequestType == [todo : Seq(Commands), browser : Browsers \cup {NoBrowser},
                old : Tokens \cup {NoToken}, new : Tokens \cup {NoToken},
                jtis : SUBSET Tokens]

\* Every token a request, a browser or a key names has been minted.
KnownTo(q, count) ==
    q.old \in 0 .. count /\ q.new \in 0 .. count /\ q.jtis \subseteq 1 .. count

Known ==
    /\ \A b \in Browsers : cookie[b] \in 0 .. minted
    /\ \A r \in Requests : KnownTo(request[r], minted)

(* A rotation has a token to retire and none stored yet; once it stores,   *)
(* the token it replaces is revoked.                                       *)
RotationOrder(q, gone) ==
    /\ q.todo \in {<<"exists">>, Rotating, LoggingOut} => q.old # NoToken
    /\ q.todo \in {<<"exists">>, Rotating, Storing} => q.new = NoToken
    /\ q.todo \in {Storing, Entering} => q.old \in gone \cup {NoToken}

Running == \A r \in Requests : /\ request[r].todo \in Programs
                               /\ RotationOrder(request[r], revoked)

ParentsRevoked == \A t \in Tokens : parent[t] \in revoked \cup {NoToken}

IInv == TypeOK /\ Known /\ Running /\ ParentsRevoked /\ RevokedStaysRevoked

(* Nothing is minted, and no request runs.                                 *)
LEMMA InitIInv == Init => IInv
<1> SUFFICES ASSUME Init PROVE IInv
    OBVIOUS
<1> USE TokenAssumption
<1>1. TypeOK
  <2>1. NoRequest \in RequestType
    <3>1. <<>> \in Seq(Commands)
      OBVIOUS
    <3> QED
      BY <3>1 DEF NoRequest, RequestType, NoToken
  <2>2. request \in [Requests -> RequestType]
    BY <2>1 DEF Init
  <2>3. minted = 0 /\ live = {} /\ family = {} /\ revoked = {} /\ burned \in BOOLEAN
    BY DEF Init
  <2>4. /\ parent \in [Tokens -> Tokens \cup {NoToken}]
        /\ cookie \in [Browsers -> Tokens \cup {NoToken}]
    BY DEF Init, NoToken
  <2>5. presented \in [Tokens -> 0 .. 2]
    BY DEF Init
  <2> QED
    BY <2>2, <2>3, <2>4, <2>5 DEF TypeOK, RequestType
<1>2. Known
  BY DEF Init, Known, KnownTo, NoToken, NoRequest
<1>3. Running
  <2>1. <<>> \in Programs /\ <<>> \notin {<<"exists">>, Rotating, Storing, Entering, LoggingOut}
    BY DEF Programs, Others, Rotating, Storing, Entering, LoggingOut
  <2> QED
    BY <2>1 DEF Init, Running, RotationOrder, NoRequest
<1>4. ParentsRevoked /\ RevokedStaysRevoked
  BY DEF Init, ParentsRevoked, RevokedStaysRevoked, NoToken
<1> QED
  BY <1>1, <1>2, <1>3, <1>4 DEF IInv

(* One request goes on, minted and revoked only grow: the others still     *)
(* keep to their programs.                                                 *)
LEMMA RequestKept ==
    ASSUME TypeOK, Known, Running,
           NEW r \in Requests, NEW q \in RequestType,
           request' = [request EXCEPT ![r] = q],
           q.todo \in Programs, RotationOrder(q, revoked'), KnownTo(q, minted'),
           revoked \subseteq revoked', minted' \in 0 .. MaxTokens, minted <= minted'
    PROVE  /\ request' \in [Requests -> RequestType]
           /\ \A s \in Requests : KnownTo(request[s], minted)'
           /\ Running'
<1> USE TokenAssumption
<1>1. request \in [Requests -> RequestType] /\ minted \in 0 .. MaxTokens
  BY DEF TypeOK, RequestType
<1>2. request' \in [Requests -> RequestType]
  BY <1>1
<1>3. \A s \in Requests : request'[s] = IF s = r THEN q ELSE request[s]
  BY <1>1
<1>4. \A s \in Requests : KnownTo(request[s], minted)'
  BY <1>1, <1>3 DEF Known, KnownTo
<1>5. Running'
  BY <1>3 DEF Running, RotationOrder
<1> QED
  BY <1>2, <1>4, <1>5

(* What follows the first of the other commands is of the same kind.       *)
LEMMA TailsOfOthers ==
    ASSUME NEW todo \in Others, todo # <<>>
    PROVE  Tail(todo) \in Others \ {<<"exists">>}
<1>1. <<"exists">> \notin {<<>>, <<"reply">>, <<"clear">>, <<"refuse">>, Burning,
           <<"delmembers", "delfamily", "refuse">>, <<"delfamily", "refuse">>}
  BY DEF Burning
<1> QED
  BY <1>1, Tails DEF Others

(* Nothing is asked of a request that is not rotating or logging out.      *)
LEMMA OthersKeepOrder ==
    ASSUME NEW q, NEW gone, q.todo \in Others \ {<<"exists">>}
    PROVE  RotationOrder(q, gone)
BY Distinct DEF RotationOrder

(* A login, refresh or logout begins: its program and its token are known. *)
LEMMA StartKeeps ==
    ASSUME IInv, NEW r \in Requests, NEW b \in Browsers,
           BeginLogin(r, b) \/ BeginRefresh(r, b) \/ BeginLogout(r, b)
    PROVE  IInv'
<1> USE TokenAssumption
<1> DEFINE token == IF BeginLogin(r, b) THEN NoToken ELSE cookie[b]
<1>1. PICK q \in RequestType :
        /\ request' = [request EXCEPT ![r] = q]
        /\ q.todo \in {Storing, <<"exists">>, LoggingOut}
        /\ q.new = NoToken /\ q.jtis = {} /\ q.old \in {NoToken, cookie[b]}
        /\ q.todo = Storing => q.old = NoToken
        /\ q.todo # Storing => q.old # NoToken
  <2>1. {Storing, <<"exists">>, LoggingOut} \subseteq Seq(Commands)
    BY Distinct DEF Programs, Others
  <2>2. CASE BeginLogin(r, b)
    <3> DEFINE q == [NoRequest EXCEPT !.browser = b, !.old = NoToken, !.todo = Storing]
    <3>1. request' = [request EXCEPT ![r] = q]
      BY <2>2, Concatenated DEF BeginLogin, Start
    <3>2. q \in RequestType /\ q.todo = Storing /\ q.new = NoToken /\ q.jtis = {} /\ q.old = NoToken
      BY <2>1 DEF NoRequest, RequestType, NoToken
    <3> QED
      BY <3>1, <3>2
  <2>3. CASE BeginRefresh(r, b)
    <3> DEFINE q == [NoRequest EXCEPT !.browser = b, !.old = cookie[b], !.todo = <<"exists">>]
    <3>1. request' = [request EXCEPT ![r] = q] /\ cookie[b] # NoToken
      BY <2>3 DEF BeginRefresh, Start
    <3>2. /\ q \in RequestType /\ q.todo = <<"exists">>
          /\ q.new = NoToken /\ q.jtis = {} /\ q.old = cookie[b]
      BY <2>1 DEF NoRequest, RequestType, NoToken, IInv, TypeOK
    <3>3. <<"exists">> # Storing
      BY Distinct DEF Others
    <3> QED
      BY <3>1, <3>2, <3>3
  <2>4. CASE BeginLogout(r, b)
    <3> DEFINE q == [NoRequest EXCEPT !.browser = b, !.old = cookie[b], !.todo = LoggingOut]
    <3>1. request' = [request EXCEPT ![r] = q] /\ cookie[b] # NoToken
      BY <2>4, Concatenated DEF BeginLogout, Start
    <3>2. /\ q \in RequestType /\ q.todo = LoggingOut
          /\ q.new = NoToken /\ q.jtis = {} /\ q.old = cookie[b]
      BY <2>1 DEF NoRequest, RequestType, NoToken, IInv, TypeOK
    <3> QED
      BY <3>1, <3>2, Distinct
  <2> QED
    BY <2>2, <2>3, <2>4
<1>2. /\ UNCHANGED <<live, family, minted, parent, cookie, revoked, burned>>
      /\ presented' \in [Tokens -> 0 .. 2]
  <2>1. CASE BeginLogin(r, b)
    BY <2>1 DEF BeginLogin, redis, history, IInv, TypeOK
  <2>2. CASE BeginRefresh(r, b)
    BY <2>2 DEF BeginRefresh, Present, redis, IInv, TypeOK
  <2>3. CASE BeginLogout(r, b)
    BY <2>3 DEF BeginLogout, Present, redis, IInv, TypeOK
  <2> QED
    BY <2>1, <2>2, <2>3
<1>3. /\ request' \in [Requests -> RequestType]
      /\ \A s \in Requests : KnownTo(request[s], minted)'
      /\ Running'
  <2>1. q.todo \in Programs /\ RotationOrder(q, revoked')
    BY <1>1, Distinct DEF Programs, Others, RotationOrder
  <2>2. KnownTo(q, minted') /\ minted' \in 0 .. MaxTokens
    BY <1>1, <1>2 DEF IInv, Known, KnownTo, TypeOK, NoToken
  <2>3. revoked \subseteq revoked' /\ minted <= minted'
    BY <1>2 DEF IInv, TypeOK
  <2>4. TypeOK /\ Known /\ Running
    BY DEF IInv
  <2> QED
    BY <1>1, <2>1, <2>2, <2>3, <2>4, RequestKept
<1>4. TypeOK'
  BY <1>2, <1>3 DEF IInv, TypeOK, RequestType
<1>5. Known' /\ ParentsRevoked' /\ RevokedStaysRevoked'
  BY <1>2, <1>3 DEF IInv, Known, ParentsRevoked, RevokedStaysRevoked
<1> QED
  BY <1>3, <1>4, <1>5 DEF IInv

(* EXISTS decides between the rotation and the burn.                       *)
LEMMA ExistsKeeps ==
    ASSUME IInv, NEW r \in Requests, Exists(r)
    PROVE  IInv'
<1> USE TokenAssumption
<1> DEFINE next == IF request[r].old \in live THEN Rotating ELSE Burning
           q == [request[r] EXCEPT !.todo = next]
<1>1. /\ request[r] \in RequestType /\ KnownTo(request[r], minted)
      /\ request[r].todo \in Programs /\ RotationOrder(request[r], revoked)
  BY DEF IInv, TypeOK, RequestType, Known, Running
<1>2. request[r].todo = <<"exists">>
  BY <1>1, Heads DEF Exists, Doing, Idle, Others, Burning
<1>3. request' = [request EXCEPT ![r] = q]
  BY Concatenated DEF Exists
<1>4. next \in Programs /\ q \in RequestType /\ q.todo = next
  BY <1>1, Distinct DEF Programs, Others, RequestType
<1>5. KnownTo(q, minted) /\ RotationOrder(q, revoked)
  <2>1. Burning \notin {<<"exists">>, Rotating, Storing, Entering, LoggingOut}
    BY Distinct DEF Others, Burning
  <2>2. Rotating \notin {Storing, Entering, LoggingOut}
    BY Distinct
  <2> QED
    BY <1>1, <1>2, <1>4, <2>1, <2>2 DEF KnownTo, RotationOrder
<1>6. UNCHANGED <<live, family, minted, parent, cookie, revoked, presented, burned>>
  BY DEF Exists, redis, history
<1>7. /\ request' \in [Requests -> RequestType]
      /\ \A s \in Requests : KnownTo(request[s], minted)'
      /\ Running'
  <2>1. TypeOK /\ Known /\ Running /\ minted' \in 0 .. MaxTokens /\ minted <= minted'
    BY <1>6 DEF IInv, TypeOK
  <2> QED
    BY <1>3, <1>4, <1>5, <1>6, <2>1, RequestKept
<1>8. TypeOK'
  BY <1>6, <1>7 DEF IInv, TypeOK, RequestType
<1>9. Known' /\ ParentsRevoked' /\ RevokedStaysRevoked'
  BY <1>6, <1>7 DEF IInv, Known, ParentsRevoked, RevokedStaysRevoked
<1> QED
  BY <1>7, <1>8, <1>9 DEF IInv

(* DEL of the old token: the token is among those minted, and revoked.     *)
LEMMA DeleteKeeps ==
    ASSUME IInv, NEW r \in Requests, Delete(r)
    PROVE  IInv'
<1> USE TokenAssumption
<1>1. /\ request[r] \in RequestType /\ KnownTo(request[r], minted)
      /\ request[r].todo \in Programs /\ RotationOrder(request[r], revoked)
  BY DEF IInv, TypeOK, RequestType, Known, Running
<1>2. request[r].todo \in {Rotating, LoggingOut}
  BY <1>1, Heads DEF Delete, Doing, Idle
<1>3. PICK q \in RequestType :
        /\ request' = [request EXCEPT ![r] = q]
        /\ q.old = request[r].old /\ q.new = request[r].new /\ q.jtis = request[r].jtis
        /\ q.todo = Tail(request[r].todo)
  <2>1. Tail(request[r].todo) \in Seq(Commands)
    BY <1>2, Tails, Distinct DEF Programs, Others
  <2> DEFINE q == [request[r] EXCEPT !.todo = Tail(@)]
  <2>2. request' = [request EXCEPT ![r] = q]
    BY DEF Delete, Done
  <2>3. /\ q \in RequestType /\ q.todo = Tail(request[r].todo)
        /\ q.old = request[r].old /\ q.new = request[r].new /\ q.jtis = request[r].jtis
    BY <1>1, <2>1 DEF RequestType
  <2> QED
    BY <2>2, <2>3
<1>4. \/ request[r].todo = Rotating /\ q.todo = Storing
      \/ request[r].todo = LoggingOut /\ q.todo = <<"clear">>
  BY <1>2, <1>3, Tails
<1>5. /\ request[r].old \in 1 .. minted
      /\ live' = live \ {request[r].old} /\ revoked' = revoked \cup {request[r].old}
      /\ UNCHANGED <<family, minted, parent, cookie, presented, burned>>
  BY <1>1, <1>2 DEF Delete, KnownTo, RotationOrder, NoToken, IInv, TypeOK
<1>6. q.todo \in Programs /\ KnownTo(q, minted) /\ RotationOrder(q, revoked')
  <2>1. q.todo \in Programs
    BY <1>4 DEF Programs, Others
  <2>2. KnownTo(q, minted)
    BY <1>1, <1>3 DEF KnownTo
  <2>3. CASE request[r].todo = Rotating /\ q.todo = Storing
    <3>1. Storing \notin {<<"exists">>, Rotating, LoggingOut}
      BY Distinct DEF Others
    <3>2. q.new = NoToken /\ q.old \in revoked'
      BY <1>1, <1>3, <1>5, <2>3 DEF RotationOrder
    <3> QED
      BY <2>1, <2>2, <2>3, <3>1, <3>2 DEF RotationOrder
  <2>4. CASE request[r].todo = LoggingOut /\ q.todo = <<"clear">>
    <3>1. <<"clear">> \in Others \ {<<"exists">>}
      BY DEF Others
    <3> QED
      BY <2>1, <2>2, <2>4, <3>1, OthersKeepOrder
  <2> QED
    BY <1>4, <2>3, <2>4
<1>7. /\ request' \in [Requests -> RequestType]
      /\ \A s \in Requests : KnownTo(request[s], minted)'
      /\ Running'
  <2>1. /\ TypeOK /\ Known /\ Running /\ minted' \in 0 .. MaxTokens /\ minted <= minted'
        /\ revoked \subseteq revoked'
    BY <1>5 DEF IInv, TypeOK
  <2> QED
    BY <1>3, <1>5, <1>6, <2>1, RequestKept
<1>8. TypeOK'
  BY <1>5, <1>7 DEF IInv, TypeOK, RequestType
<1>9. Known' /\ ParentsRevoked' /\ RevokedStaysRevoked'
  BY <1>5, <1>7 DEF IInv, Known, ParentsRevoked, RevokedStaysRevoked
<1> QED
  BY <1>7, <1>8, <1>9 DEF IInv

(* SETEX and SADD name a token minted now or before and not yet revoked by *)
(* anyone: a burn deletes only what had been minted when it read the set.  *)
LEMMA StoreKeeps ==
    ASSUME IInv, NEW r \in Requests, SetMarker(r) \/ AddToFamily(r)
    PROVE  IInv'
<1> USE TokenAssumption
<1>1. /\ request[r] \in RequestType /\ KnownTo(request[r], minted)
      /\ request[r].todo \in Programs /\ RotationOrder(request[r], revoked)
  BY DEF IInv, TypeOK, RequestType, Known, Running
<1>2. PICK new \in Tokens :
        /\ new = NewToken(r) /\ new <= minted' /\ minted' \in 0 .. MaxTokens /\ minted <= minted'
        /\ parent' = [parent EXCEPT ![new] = request[r].old]
        /\ request' = [request EXCEPT ![r].new = new, ![r].todo = Tail(@)]
  <2>1. Mint(r)
    BY DEF SetMarker, AddToFamily
  <2>2. minted \in 0 .. MaxTokens /\ request[r].new \in 0 .. minted
    BY <1>1 DEF IInv, TypeOK, KnownTo
  <2>3. NewToken(r) \in Tokens
    BY <2>1 DEF Mint
  <2>4. NewToken(r) <= minted' /\ minted' \in 0 .. MaxTokens /\ minted <= minted'
    <3>1. CASE request[r].new = NoToken
      BY <2>1, <2>2, <2>3, <3>1 DEF Mint, NewToken, Tokens
    <3>2. CASE request[r].new # NoToken
      BY <2>1, <2>2, <3>2 DEF Mint, NewToken
    <3> QED
      BY <3>1, <3>2
  <2>5. /\ parent' = [parent EXCEPT ![NewToken(r)] = request[r].old]
        /\ request' = [request EXCEPT ![r].new = NewToken(r), ![r].todo = Tail(@)]
    BY <2>1 DEF Mint
  <2> QED
    BY <2>3, <2>4, <2>5
<1>3. /\ UNCHANGED <<cookie, revoked, presented, burned>>
      /\ live' \subseteq 1 .. minted' /\ family' \subseteq 1 .. minted'
  BY <1>2 DEF SetMarker, AddToFamily, history, IInv, TypeOK, Tokens
<1>4. \/ request[r].todo = Storing /\ Tail(request[r].todo) = Entering
      \/ request[r].todo = Entering /\ Tail(request[r].todo) = <<"reply">>
  BY <1>1, Heads, Tails DEF SetMarker, AddToFamily, Doing, Idle
<1>5. request[r].old \in revoked \cup {NoToken}
  BY <1>1, <1>4 DEF RotationOrder
<1>6. PICK q \in RequestType :
        /\ request' = [request EXCEPT ![r] = q]
        /\ q.old = request[r].old /\ q.new = new /\ q.jtis = request[r].jtis
        /\ q.todo = Tail(request[r].todo)
  <2>1. Tail(request[r].todo) \in Seq(Commands)
    BY <1>4, Distinct DEF Programs, Others
  <2> DEFINE q == [request[r] EXCEPT !.new = new, !.todo = Tail(@)]
  <2>2. request' = [request EXCEPT ![r] = q]
    BY <1>1, <1>2 DEF RequestType, IInv, TypeOK
  <2>3. /\ q \in RequestType /\ q.todo = Tail(request[r].todo)
        /\ q.old = request[r].old /\ q.new = new /\ q.jtis = request[r].jtis
    BY <1>1, <2>1 DEF RequestType
  <2> QED
    BY <2>2, <2>3
<1>7. q.todo \in Programs /\ KnownTo(q, minted') /\ RotationOrder(q, revoked')
  <2>1. KnownTo(q, minted')
    BY <1>1, <1>2, <1>6 DEF KnownTo, Tokens, IInv, TypeOK
  <2>2. CASE q.todo = Entering
    <3>1. Entering \notin {<<"exists">>, Rotating, Storing, LoggingOut} /\ Entering \in Programs
      BY Distinct DEF Others, Programs
    <3> QED
      BY <1>3, <1>5, <1>6, <2>1, <2>2, <3>1 DEF RotationOrder
  <2>3. CASE q.todo = <<"reply">>
    <3>1. <<"reply">> \in Others \ {<<"exists">>} /\ <<"reply">> \in Programs
      BY DEF Others, Programs
    <3> QED
      BY <2>1, <2>3, <3>1, OthersKeepOrder
  <2> QED
    BY <1>4, <1>6, <2>2, <2>3
<1>8. /\ request' \in [Requests -> RequestType]
      /\ \A s \in Requests : KnownTo(request[s], minted)'
      /\ Running'
  <2>1. TypeOK /\ Known /\ Running /\ revoked \subseteq revoked'
    BY <1>3 DEF IInv
  <2> QED
    BY <1>2, <1>6, <1>7, <2>1, RequestKept
<1>9. TypeOK'
  <2>1. parent' \in [Tokens -> Tokens \cup {NoToken}]
    BY <1>1, <1>2 DEF IInv, TypeOK, RequestType
  <2>2. revoked' \subseteq 1 .. minted'
    BY <1>2, <1>3 DEF IInv, TypeOK
  <2> QED
    BY <1>2, <1>3, <1>8, <2>1, <2>2 DEF IInv, TypeOK, RequestType
<1>10. Known'
  BY <1>2, <1>3, <1>8 DEF IInv, Known, TypeOK
<1>11. ParentsRevoked'
  BY <1>2, <1>3, <1>5 DEF IInv, ParentsRevoked, TypeOK
<1>12. RevokedStaysRevoked'
  <2>1. CASE SetMarker(r)
    <3>1. request[r].todo = Storing
      BY <1>1, <2>1, Heads DEF SetMarker, Doing, Idle
    <3>2. new = minted + 1 /\ live' = live \cup {new}
      BY <1>1, <1>2, <2>1, <3>1 DEF SetMarker, RotationOrder, NewToken
    <3> QED
      BY <1>3, <3>2 DEF IInv, TypeOK, RevokedStaysRevoked
  <2>2. CASE AddToFamily(r)
    BY <1>3, <2>2 DEF AddToFamily, IInv, RevokedStaysRevoked
  <2> QED
    BY <2>1, <2>2
<1> QED
  BY <1>8, <1>9, <1>10, <1>11, <1>12 DEF IInv

(* The burn: SMEMBERS, DEL of the members, DEL of the set.                 *)
LEMMA BurnKeeps ==
    ASSUME IInv, NEW r \in Requests, ReadFamily(r) \/ DeleteMembers(r) \/ DeleteFamily(r)
    PROVE  IInv'
<1> USE TokenAssumption
<1>1. /\ request[r] \in RequestType /\ KnownTo(request[r], minted)
      /\ request[r].todo \in Programs
  BY DEF IInv, TypeOK, RequestType, Known, Running
<1>2. request[r].todo \in Others /\ request[r].todo # <<>>
  BY <1>1, Heads DEF ReadFamily, DeleteMembers, DeleteFamily, Doing, Idle
<1>3. Tail(request[r].todo) \in Others \ {<<"exists">>}
  BY <1>2, TailsOfOthers
<1>4. family \subseteq 1 .. minted /\ family \subseteq Tokens /\ minted \in 0 .. MaxTokens
  BY DEF IInv, TypeOK, Tokens
<1>5. PICK q \in RequestType :
        /\ request' = [request EXCEPT ![r] = q]
        /\ q.old = request[r].old /\ q.new = request[r].new
        /\ q.jtis \in {request[r].jtis, family} /\ q.todo = Tail(request[r].todo)
  <2>1. Tail(request[r].todo) \in Seq(Commands)
    BY <1>3, Distinct DEF Programs
  <2> DEFINE p(jtis) == [request[r] EXCEPT !.todo = Tail(@), !.jtis = jtis]
  <2>2. request' = [request EXCEPT ![r] = p(request[r].jtis)]
        \/ request' = [request EXCEPT ![r] = p(family)]
    <3>1. CASE ReadFamily(r)
      BY <1>1, <3>1 DEF ReadFamily, RequestType, IInv, TypeOK
    <3>2. CASE DeleteMembers(r) \/ DeleteFamily(r)
      BY <1>1, <3>2 DEF DeleteMembers, DeleteFamily, Done, RequestType, IInv, TypeOK
    <3> QED
      BY <3>1, <3>2
  <2>3. ASSUME NEW jtis \in {request[r].jtis, family}
        PROVE  /\ p(jtis) \in RequestType /\ p(jtis).todo = Tail(request[r].todo)
               /\ p(jtis).old = request[r].old /\ p(jtis).new = request[r].new
               /\ p(jtis).jtis = jtis
    BY <1>1, <1>4, <2>1 DEF RequestType
  <2> HIDE DEF p
  <2> QED
    BY <2>2, <2>3
<1>6. /\ UNCHANGED <<minted, parent, cookie, presented>> /\ burned' \in BOOLEAN
      /\ live' \subseteq live /\ family' \subseteq family
      /\ revoked \subseteq revoked' /\ revoked' \subseteq 1 .. minted /\ live' \cap revoked' = {}
  <2>1. CASE ReadFamily(r)
    BY <2>1 DEF ReadFamily, redis, history, IInv, TypeOK, RevokedStaysRevoked
  <2>2. CASE DeleteMembers(r)
    BY <1>1, <2>2 DEF DeleteMembers, KnownTo, IInv, TypeOK, RevokedStaysRevoked
  <2>3. CASE DeleteFamily(r)
    BY <2>3 DEF DeleteFamily, IInv, TypeOK, RevokedStaysRevoked
  <2> QED
    BY <2>1, <2>2, <2>3
<1>7. q.todo \in Programs /\ KnownTo(q, minted') /\ RotationOrder(q, revoked')
  <2>1. KnownTo(q, minted')
    BY <1>1, <1>4, <1>5, <1>6 DEF KnownTo
  <2>2. q.todo \in Others \ {<<"exists">>}
    BY <1>3, <1>5
  <2>3. RotationOrder(q, revoked')
    BY <2>2, OthersKeepOrder
  <2> QED
    BY <2>1, <2>2, <2>3 DEF Programs
<1>8. /\ request' \in [Requests -> RequestType]
      /\ \A s \in Requests : KnownTo(request[s], minted)'
      /\ Running'
  <2>1. TypeOK /\ Known /\ Running /\ minted' \in 0 .. MaxTokens /\ minted <= minted'
    BY <1>4, <1>6 DEF IInv
  <2> QED
    BY <1>5, <1>6, <1>7, <2>1, RequestKept
<1>9. TypeOK'
  BY <1>6, <1>8 DEF IInv, TypeOK, RequestType
<1>10. Known' /\ ParentsRevoked' /\ RevokedStaysRevoked'
  BY <1>6, <1>8 DEF IInv, Known, ParentsRevoked, RevokedStaysRevoked
<1> QED
  BY <1>8, <1>9, <1>10 DEF IInv

(* An answer, or a request that dies: the slot is free again.              *)
LEMMA EndKeeps ==
    ASSUME IInv, NEW r \in Requests, Reply(r) \/ Abort(r)
    PROVE  IInv'
<1> USE TokenAssumption
<1>1. NoRequest \in RequestType
  <2>1. <<>> \in Seq(Commands)
    OBVIOUS
  <2> QED
    BY <2>1 DEF NoRequest, RequestType, NoToken
<1>2. request' = [request EXCEPT ![r] = NoRequest]
      /\ UNCHANGED <<live, family, minted, parent, revoked, presented, burned>>
  BY DEF Reply, Abort, redis, history
<1>3. /\ cookie' \in [Browsers -> Tokens \cup {NoToken}]
      /\ \A b \in Browsers : cookie'[b] \in 0 .. minted
  <2>1. request[r].new \in 0 .. minted /\ request[r].new \in Tokens \cup {NoToken}
    BY DEF IInv, TypeOK, Known, KnownTo
  <2>2. CASE cookie' = [cookie EXCEPT ![request[r].browser] = request[r].new]
    BY <2>1, <2>2 DEF IInv, TypeOK, Known
  <2>3. CASE cookie' = [cookie EXCEPT ![request[r].browser] = NoToken]
    <3>1. NoToken \in 0 .. minted
      BY DEF IInv, TypeOK, NoToken
    <3> QED
      BY <2>3, <3>1 DEF IInv, TypeOK, Known
  <2>4. CASE cookie' = cookie
    BY <2>4 DEF IInv, TypeOK, Known
  <2> QED
    BY <2>2, <2>3, <2>4 DEF Reply, Abort
<1>4. /\ request' \in [Requests -> RequestType]
      /\ \A s \in Requests : KnownTo(request[s], minted)'
      /\ Running'
  <2>1. /\ TypeOK /\ Known /\ Running /\ minted' \in 0 .. MaxTokens /\ minted <= minted'
        /\ revoked \subseteq revoked'
    BY <1>2 DEF IInv, TypeOK
  <2>2. KnownTo(NoRequest, minted')
    BY <2>1 DEF NoRequest, KnownTo, NoToken
  <2>3. NoRequest.todo \in Others \ {<<"exists">>}
    BY DEF NoRequest, Others
  <2>4. NoRequest.todo \in Programs /\ RotationOrder(NoRequest, revoked')
    BY <2>3, OthersKeepOrder DEF Programs
  <2> QED
    BY <1>1, <1>2, <2>1, <2>2, <2>4, RequestKept
<1>5. TypeOK'
  BY <1>2, <1>3, <1>4 DEF IInv, TypeOK, RequestType
<1>6. Known' /\ ParentsRevoked' /\ RevokedStaysRevoked'
  BY <1>2, <1>3, <1>4 DEF IInv, Known, ParentsRevoked, RevokedStaysRevoked
<1> QED
  BY <1>4, <1>5, <1>6 DEF IInv

(* Every command of every request keeps the inductive invariant.           *)
LEMMA NextIInv == IInv /\ [Next]_vars => IInv'
<1> SUFFICES ASSUME IInv, [Next]_vars PROVE IInv'
    OBVIOUS
<1>1. CASE Next
  BY <1>1, StartKeeps, ExistsKeeps, DeleteKeeps, StoreKeeps, BurnKeeps, EndKeeps DEF Next
<1>2. CASE UNCHANGED vars
  BY <1>2 DEF vars, redis, history, IInv, TypeOK, Known, KnownTo, Running, RotationOrder,
              ParentsRevoked, RevokedStaysRevoked
<1> QED
  BY <1>1, <1>2

(* The inductive invariant holds in every reachable state.                 *)
LEMMA Invariance == Spec => []IInv
BY InitIInv, NextIInv, PTL DEF Spec

----
(* The bookkeeping keeps its types: in particular nothing names a token    *)
(* that has not been minted.                                               *)
THEOREM TypeCorrect == Spec => []TypeOK
BY Invariance, PTL DEF IInv

(* Whatever the requests in flight have still to do, a token that was      *)
(* rotated away, logged out or burned is never valid again.                *)
THEOREM RevokedForGood == Spec => []RevokedStaysRevoked
BY Invariance, PTL DEF IInv

(* A token and the one it was rotated into are never valid together, even  *)
(* when the server dies between two commands of a rotation.                *)
THEOREM ParentIsRetired == Spec => []ParentRetired
<1>1. IInv => ParentRetired
  BY TokenAssumption
     DEF IInv, TypeOK, ParentsRevoked, RevokedStaysRevoked, ParentRetired, Tokens, NoToken
<1> QED
  BY <1>1, Invariance, PTL

----
(* A burn needs a replay.  While no token has been presented twice, every  *)
(* token that is gone was presented once, by the request that retired it;  *)
(* so the token of a refresh is valid until the refresh itself retires it. *)
Burns == {Burning, <<"delmembers", "delfamily", "refuse">>, <<"delfamily", "refuse">>}
Stored == {Entering, <<"reply">>}

Replayed == \E t \in Tokens : presented[t] = 2

OldPresented ==
    /\ \A t \in revoked : presented[t] # 0
    /\ \A r \in Requests : request[r].old # NoToken => presented[request[r].old] # 0
    /\ \A r, s \in Requests :
          r # s /\ request[r].old # NoToken => request[s].old # request[r].old

TokensStand ==
    /\ \A b \in Browsers : cookie[b] \in live \cup revoked \cup {NoToken}
    /\ \A r \in Requests : /\ request[r].todo = <<"exists">> => request[r].old \in live
                           /\ request[r].todo \in Stored => request[r].new \in live \cup revoked
                           /\ request[r].todo \notin Burns

BurnInv == Replayed \/ (~burned /\ OldPresented /\ TokensStand)

(* The programs that the invariant speaks of are not one another's.        *)
LEMMA DistinctBurns ==
    /\ {Rotating, Storing, LoggingOut, <<>>, <<"exists">>, <<"clear">>} \cap (Burns \cup Stored) = {}
    /\ Stored \cap Burns = {}
    /\ <<"exists">> \notin {Rotating, Storing, Entering, LoggingOut, <<>>, <<"reply">>, <<"clear">>}
BY DEF Burns, Stored, Rotating, Storing, Entering, LoggingOut, Burning

(* One request goes on and no token is lost: what holds of the others      *)
(* still does.                                                             *)
LEMMA OthersStand ==
    ASSUME IInv, OldPresented, TokensStand,
           NEW r \in Requests, NEW q \in RequestType,
           request' = [request EXCEPT ![r] = q],
           live \cup revoked \subseteq live' \cup revoked',
           \A t \in Tokens : presented[t] # 0 => presented'[t] # 0,
           \A t \in revoked' : t \in revoked \/ presented'[t] # 0,
           q.old # NoToken => /\ presented'[q.old] # 0
                              /\ \A s \in Requests \ {r} : request[s].old # q.old,
           \A s \in Requests \ {r} :
               request[s].todo = <<"exists">> => request[s].old \in live',
           \A b \in Browsers : cookie'[b] \in live' \cup revoked' \cup {NoToken},
           q.todo = <<"exists">> => q.old \in live',
           q.todo \in Stored => q.new \in live' \cup revoked',
           q.todo \notin Burns
    PROVE  OldPresented' /\ TokensStand'
<1>1. request \in [Requests -> RequestType] /\ revoked \subseteq Tokens
  BY TokenAssumption DEF IInv, TypeOK, RequestType, Tokens
<1>2. \A s \in Requests : request'[s] = IF s = r THEN q ELSE request[s]
  BY <1>1
<1>3. \A s \in Requests : request[s].old \in Tokens \cup {NoToken}
  BY <1>1 DEF RequestType
<1>4. OldPresented'
  BY <1>1, <1>2, <1>3 DEF OldPresented
<1>5. TokensStand'
  BY <1>2 DEF TokensStand
<1> QED
  BY <1>4, <1>5

(* A request begins: a token that it presents for the first time is valid. *)
LEMMA BeginBurnInv ==
    ASSUME IInv, BurnInv, NEW r \in Requests, NEW b \in Browsers,
           BeginLogin(r, b) \/ BeginRefresh(r, b) \/ BeginLogout(r, b)
    PROVE  BurnInv'
<1>1. /\ UNCHANGED <<live, revoked, cookie, burned>>
      /\ cookie[b] \in Tokens \cup {NoToken} /\ presented \in [Tokens -> 0 .. 2]
      /\ request[r] \in RequestType
  BY DEF BeginLogin, BeginRefresh, BeginLogout, redis, history, IInv, TypeOK, RequestType
<1>2. CASE Replayed
  <2>1. \A t \in Tokens : presented[t] = 2 => presented'[t] = 2
    BY <1>1 DEF BeginLogin, BeginRefresh, BeginLogout, Present, history
  <2> QED
    BY <1>2, <2>1 DEF BurnInv, Replayed
<1>3. CASE ~Replayed /\ ~Replayed'
  <2>1. ~burned /\ OldPresented /\ TokensStand
    BY <1>3 DEF BurnInv
  <2>2. PICK q \in RequestType :
          /\ request' = [request EXCEPT ![r] = q]
          /\ \/ q.todo = Storing /\ q.old = NoToken /\ presented' = presented
             \/ /\ q.todo \in {<<"exists">>, LoggingOut} /\ q.old = cookie[b]
                /\ cookie[b] # NoToken /\ Present(cookie[b])
    <3>1. {Storing, <<"exists">>, LoggingOut} \subseteq Seq(Commands)
      BY Distinct DEF Programs, Others
    <3>2. NoRequest \in RequestType
      <4>1. <<>> \in Seq(Commands)
        OBVIOUS
      <4> QED
        BY <4>1 DEF NoRequest, RequestType, NoToken
    <3> DEFINE q(old, todo) == [NoRequest EXCEPT !.browser = b, !.old = old, !.todo = todo]
    <3>3. ASSUME NEW old \in Tokens \cup {NoToken}, NEW todo \in {Storing, <<"exists">>, LoggingOut}
          PROVE  q(old, todo) \in RequestType /\ q(old, todo).old = old /\ q(old, todo).todo = todo
      BY <3>1, <3>2 DEF RequestType
    <3>4. CASE BeginLogin(r, b)
      <4>1. request' = [request EXCEPT ![r] = q(NoToken, Storing)] /\ presented' = presented
        BY <3>4, Concatenated DEF BeginLogin, Start, history
      <4> HIDE DEF q
      <4> QED
        BY <3>3, <4>1
    <3>5. CASE BeginRefresh(r, b)
      <4>1. /\ request' = [request EXCEPT ![r] = q(cookie[b], <<"exists">>)]
            /\ cookie[b] # NoToken /\ Present(cookie[b])
        BY <3>5 DEF BeginRefresh, Start
      <4> HIDE DEF q
      <4> QED
        BY <1>1, <3>3, <4>1
    <3>6. CASE BeginLogout(r, b)
      <4>1. /\ request' = [request EXCEPT ![r] = q(cookie[b], LoggingOut)]
            /\ cookie[b] # NoToken /\ Present(cookie[b])
        BY <3>6, Concatenated DEF BeginLogout, Start
      <4> HIDE DEF q
      <4> QED
        BY <1>1, <3>3, <4>1
    <3> QED
      BY <3>4, <3>5, <3>6
  <2>3. /\ q.todo \notin Burns \cup Stored
        /\ \A c \in Browsers : cookie'[c] \in live' \cup revoked' \cup {NoToken}
        /\ \A s \in Requests : request[s].todo = <<"exists">> => request[s].old \in live'
    BY <1>1, <2>1, <2>2, DistinctBurns DEF TokensStand
  <2>4. CASE q.todo = Storing /\ q.old = NoToken /\ presented' = presented
    <3>1. q.todo # <<"exists">>
      BY <2>4, DistinctBurns
    <3> QED
      BY <1>1, <2>1, <2>2, <2>3, <2>4, <3>1, OthersStand DEF BurnInv, OldPresented
  <2>5. CASE /\ q.old = cookie[b] /\ cookie[b] # NoToken /\ Present(cookie[b])
    <3>1. presented[cookie[b]] = 0 /\ presented' = [presented EXCEPT ![cookie[b]] = 1]
      <4> DEFINE old == presented[cookie[b]]
                 new == IF old < 2 THEN old + 1 ELSE old
      <4>1. cookie[b] \in Tokens /\ old \in 0 .. 2
        BY <1>1, <2>5
      <4>2. presented' = [presented EXCEPT ![cookie[b]] = new]
        BY <2>5 DEF Present
      <4>3. presented'[cookie[b]] = new
        BY <1>1, <4>1, <4>2
      <4>4. new # 2
        BY <1>3, <4>1, <4>3 DEF Replayed
      <4>5. old = 0 /\ new = 1
        BY <4>1, <4>4
      <4> QED
        BY <4>2, <4>5
    <3>2. \A t \in Tokens : presented[t] # 0 => presented'[t] # 0
      BY <1>1, <3>1
    <3>3. /\ \A s \in Requests : request[s].old # cookie[b]
          /\ cookie[b] \in live
      BY <2>1, <2>5, <3>1 DEF OldPresented, TokensStand
    <3>4. presented'[q.old] # 0
      BY <1>1, <2>5, <3>1
    <3> QED
      BY <1>1, <2>1, <2>2, <2>3, <2>5, <3>2, <3>3, <3>4, OthersStand DEF BurnInv
  <2> QED
    BY <2>2, <2>4, <2>5
<1> QED
  BY <1>2, <1>3 DEF BurnInv

(* A command of a request in flight, or its end: nothing is presented, and *)
(* without a replay no command is one of a burn.                           *)
LEMMA StepBurnInv ==
    ASSUME IInv, BurnInv, NEW r \in Requests,
           \/ Exists(r) \/ Delete(r) \/ SetMarker(r) \/ AddToFamily(r)
           \/ ReadFamily(r) \/ DeleteMembers(r) \/ DeleteFamily(r)
           \/ Reply(r) \/ Abort(r)
    PROVE  BurnInv'
<1>1. presented' = presented
  BY DEF Exists, Delete, SetMarker, AddToFamily, ReadFamily, DeleteMembers, DeleteFamily,
         Reply, Abort, history
<1>2. CASE Replayed
  BY <1>1, <1>2 DEF BurnInv, Replayed
<1>3. CASE ~Replayed
  <2>1. ~burned /\ OldPresented /\ TokensStand
    BY <1>3 DEF BurnInv
  <2>2. /\ request[r] \in RequestType /\ request \in [Requests -> RequestType]
        /\ request[r].todo \in Programs
        /\ RotationOrder(request[r], revoked)
    BY DEF IInv, TypeOK, RequestType, Running
  <2>3. /\ \A c \in Browsers : cookie[c] \in live \cup revoked \cup {NoToken}
        /\ \A s \in Requests : request[s].todo = <<"exists">> => request[s].old \in live
        /\ request[r].todo \notin Burns
        /\ request[r].todo \in Stored => request[r].new \in live \cup revoked
    BY <2>1 DEF TokensStand
  <2>4. /\ request[r].old # NoToken => presented[request[r].old] # 0
        /\ \A s \in Requests \ {r} : request[r].old # NoToken => request[s].old # request[r].old
    BY <2>1 DEF OldPresented
  <2>5. CASE Exists(r)
    <3>1. request[r].todo = <<"exists">>
      BY <2>2, <2>5, Heads DEF Exists, Doing, Idle, Others, Burning
    <3> DEFINE q == [request[r] EXCEPT !.todo = Rotating]
    <3>2. request' = [request EXCEPT ![r] = q]
      BY <2>3, <2>5, <3>1, Concatenated DEF Exists
    <3>3. Rotating \in Seq(Commands)
      BY Distinct DEF Programs
    <3>4. q \in RequestType /\ q.old = request[r].old /\ q.todo = Rotating
      BY <2>2, <3>3 DEF RequestType
    <3>5. UNCHANGED <<live, revoked, cookie, burned>>
      BY <2>5 DEF Exists, redis, history
    <3>6. q.todo \notin Burns \cup Stored \cup {<<"exists">>}
      BY <3>4, DistinctBurns
    <3> HIDE DEF q
    <3>7. OldPresented' /\ TokensStand'
      BY <1>1, <2>1, <2>3, <2>4, <3>2, <3>4, <3>5, <3>6, OthersStand
    <3> QED
      BY <2>1, <3>5, <3>7 DEF BurnInv
  <2>6. CASE Delete(r)
    <3>1. request[r].todo \in {Rotating, LoggingOut}
      BY <2>2, <2>6, Heads DEF Delete, Doing, Idle
    <3>2. Tail(request[r].todo) \in {Storing, <<"clear">>}
      BY <3>1, Tails
    <3>3. Tail(request[r].todo) \in Seq(Commands)
      BY <3>2, Distinct DEF Programs, Others
    <3> DEFINE q == [request[r] EXCEPT !.todo = Tail(@)]
    <3>4. request' = [request EXCEPT ![r] = q]
      BY <2>6 DEF Delete, Done
    <3>5. q \in RequestType /\ q.old = request[r].old /\ q.todo = Tail(request[r].todo)
      BY <2>2, <3>3 DEF RequestType
    <3>6. /\ live' = live \ {request[r].old} /\ revoked' = revoked \cup {request[r].old}
          /\ UNCHANGED <<cookie, burned>> /\ request[r].old # NoToken
      BY <2>2, <2>6, <3>1 DEF Delete, RotationOrder
    <3>7. q.todo \notin Burns \cup Stored \cup {<<"exists">>}
      BY <3>2, <3>5, DistinctBurns
    <3>8. \A s \in Requests \ {r} :
            request[s].todo = <<"exists">> => request[s].old \in live'
      BY <2>3, <2>4, <3>6
    <3> HIDE DEF q
    <3>9. OldPresented' /\ TokensStand'
      BY <1>1, <2>1, <2>3, <2>4, <3>4, <3>5, <3>6, <3>7, <3>8, OthersStand
    <3> QED
      BY <2>1, <3>6, <3>9 DEF BurnInv
  <2>7. CASE SetMarker(r) \/ AddToFamily(r)
    <3>1. /\ SetMarker(r) => request[r].todo = Storing /\ Tail(request[r].todo) = Entering
          /\ AddToFamily(r) => request[r].todo = Entering /\ Tail(request[r].todo) = <<"reply">>
      BY <2>2, Heads, Tails DEF SetMarker, AddToFamily, Doing, Idle
    <3>2. Tail(request[r].todo) \in Stored /\ Tail(request[r].todo) \in Seq(Commands)
      BY <2>7, <3>1, Distinct DEF Stored, Programs, Others
    <3>3. /\ request' = [request EXCEPT ![r].new = NewToken(r), ![r].todo = Tail(@)]
          /\ NewToken(r) \in Tokens
      BY <2>7 DEF SetMarker, AddToFamily, Mint
    <3> DEFINE q == [request[r] EXCEPT !.new = NewToken(r), !.todo = Tail(@)]
    <3>4. request' = [request EXCEPT ![r] = q]
      BY <2>2, <3>3
    <3>5. /\ q \in RequestType /\ q.old = request[r].old
          /\ q.todo = Tail(request[r].todo) /\ q.new = NewToken(r)
      BY <2>2, <3>2, <3>3 DEF RequestType
    <3>6. UNCHANGED <<revoked, cookie, burned>> /\ live \subseteq live'
      BY <2>7 DEF SetMarker, AddToFamily, history
    <3>7. q.new \in live' \cup revoked'
      <4>1. CASE SetMarker(r)
        BY <3>5, <4>1 DEF SetMarker
      <4>2. CASE AddToFamily(r)
        <5>1. request[r].new \in live \cup revoked
          BY <2>3, <3>1, <4>2 DEF Stored
        <5>2. request[r].new # NoToken
          BY <5>1, TokenAssumption DEF IInv, TypeOK, NoToken
        <5> QED
          BY <3>5, <3>6, <5>1, <5>2 DEF NewToken
      <4> QED
        BY <2>7, <4>1, <4>2
    <3>8. q.todo \notin Burns /\ q.todo # <<"exists">>
      BY <3>2, <3>5, DistinctBurns DEF Stored
    <3> HIDE DEF q
    <3>9. OldPresented' /\ TokensStand'
      BY <1>1, <2>1, <2>3, <2>4, <3>4, <3>5, <3>6, <3>7, <3>8, OthersStand
    <3> QED
      BY <2>1, <3>6, <3>9 DEF BurnInv
  <2>8. CASE ReadFamily(r) \/ DeleteMembers(r) \/ DeleteFamily(r)
    <3>1. Head(request[r].todo) \in {"smembers", "delmembers", "delfamily"} /\ request[r].todo # <<>>
      BY <2>8 DEF ReadFamily, DeleteMembers, DeleteFamily, Doing, Idle
    <3>2. request[r].todo \in Burns
      BY <2>2, <3>1 DEF Programs, Others, Burns, Rotating, Storing, Entering, LoggingOut
    <3> QED
      BY <2>3, <3>2
  <2>9. CASE Reply(r) \/ Abort(r)
    <3>1. request' = [request EXCEPT ![r] = NoRequest] /\ UNCHANGED <<live, revoked, burned>>
      BY <2>9 DEF Reply, Abort, redis, history
    <3>2. /\ NoRequest \in RequestType /\ NoRequest.todo = <<>> /\ NoRequest.old = NoToken
      <4>1. <<>> \in Seq(Commands)
        OBVIOUS
      <4> QED
        BY <4>1 DEF NoRequest, RequestType, NoToken
    <3>3. NoRequest.todo \notin Burns \cup Stored \cup {<<"exists">>}
      BY <3>2, DistinctBurns
    <3>4. \A c \in Browsers : cookie'[c] \in live' \cup revoked' \cup {NoToken}
      <4>1. CASE Reply(r) /\ Doing(r, "reply")
        <5>1. request[r].todo = <<"reply">>
          BY <2>2, <4>1, Heads DEF Doing, Idle, Others, Burning
        <5>2. request[r].new \in live \cup revoked
          BY <2>3, <5>1 DEF Stored
        <5>3. cookie' = [cookie EXCEPT ![request[r].browser] = request[r].new]
          BY <4>1 DEF Reply, Doing
        <5> QED
          BY <2>3, <3>1, <5>2, <5>3 DEF IInv, TypeOK
      <4>2. CASE Abort(r) \/ ~Doing(r, "reply")
        <5>1. cookie' \in {cookie, [cookie EXCEPT ![request[r].browser] = NoToken]}
          BY <2>9, <4>2 DEF Reply, Abort
        <5> QED
          BY <2>3, <3>1, <5>1 DEF IInv, TypeOK
      <4> QED
        BY <2>9, <4>1, <4>2
    <3>5. OldPresented' /\ TokensStand'
      BY <1>1, <2>1, <2>3, <3>1, <3>2, <3>3, <3>4, OthersStand
    <3> QED
      BY <2>1, <3>1, <3>5 DEF BurnInv
  <2> QED
    BY <2>5, <2>6, <2>7, <2>8, <2>9
<1> QED
  BY <1>2, <1>3

(* Browsers that send each token once are never logged out by what other   *)
(* browsers of the user do.                                                *)
THEOREM NoBurnWithoutReplay == Spec => []BurnNeedsReplay
<1>1. Init => BurnInv
  <2> SUFFICES ASSUME Init PROVE ~burned /\ OldPresented /\ TokensStand
      BY DEF BurnInv
  <2>1. \A r \in Requests : request[r].todo = <<>> /\ request[r].old = NoToken
    BY DEF Init, NoRequest
  <2> QED
    BY <2>1, DistinctBurns DEF Init, OldPresented, TokensStand
<1>2. IInv /\ BurnInv /\ [Next]_vars => BurnInv'
  <2>1. CASE UNCHANGED vars
    BY <2>1 DEF vars, redis, history, BurnInv, Replayed, OldPresented, TokensStand
  <2> QED
    BY <2>1, BeginBurnInv, StepBurnInv DEF Next
<1>3. BurnInv => BurnNeedsReplay
  BY DEF BurnInv, Replayed, BurnNeedsReplay
<1> QED
  BY <1>1, <1>2, <1>3, Invariance, PTL DEF Spec
====
