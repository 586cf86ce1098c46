---- MODULE Visitor_proofs ----
(***************************************************************************)
(* Proofs about what a visitor of the site goes through: the page renews   *)
(* its session when a token has expired (SessionClient), and reads the     *)
(* feed page by page and searches while items change (Discovery).  The two *)
(* share no state; their inductive invariants are SessionInv and ReaderInv.*)
(***************************************************************************)
EXTENDS SessionClient, Discovery, SetLemmas, FiniteSetTheorems, TLAPS

----
(* The session, for any number of calls.                                   *)
\* Only a request that still waits is in the queue.
QueueWaits == \A r \in refreshQueue : request[r].phase \in {"queued", "refreshing"}

\* AuthProvider asks for the user after its refresh, once for a page.
ProviderOrder ==
    /\ \A r \in Requests : request[r].op = "refresh" => r = Load
    /\ request[Load].phase # "settled" => request[Me].phase = "idle"
    /\ ~mounted => request[Load].phase = "idle"

SessionInv == TypeOK /\ OneRefresh /\ NobodyForgotten /\ QueueWaits /\ ProviderOrder

(* The initial page satisfies the inductive invariant. *)
LEMMA InitSessionInv == Init => SessionInv
<1> SUFFICES ASSUME Init PROVE SessionInv
    OBVIOUS
<1>1. \A r \in Requests : request[r] = NoRequest
  BY DEF Init
<1>2. TypeOK
  BY DEF Init, TypeOK, Phases, Ops, NoRequest
<1>3. OneRefresh
  BY <1>1 DEF Init, OneRefresh, NoRequest
<1>4. NobodyForgotten /\ QueueWaits
  BY <1>1 DEF Init, NobodyForgotten, QueueWaits, NoRequest
<1>5. ProviderOrder
  BY <1>1 DEF ProviderOrder, Requests, NoRequest
<1> QED
  BY <1>2, <1>3, <1>4, <1>5 DEF SessionInv

(* Every step of a request, a page load and the provider's effect keeps it. *)
LEMMA NextSessionInv == SessionInv /\ [Next]_vars => SessionInv'
<1> SUFFICES ASSUME SessionInv, [Next]_vars PROVE SessionInv'
    OBVIOUS
<1> USE SessionAssumption DEF SessionInv, TypeOK, Requests, Phases, Ops, store
<1>1. ASSUME NEW c \in Calls, NEW op \in Ops, Send(c, op)
      PROVE  SessionInv'
  BY <1>1 DEF Send, Sent, NoRequest, OneRefresh, NobodyForgotten, QueueWaits, ProviderOrder
<1>2. CASE Mount
  BY <1>2 DEF Mount, Sent, NoRequest, OneRefresh, NobodyForgotten, QueueWaits, ProviderOrder
<1>3. CASE Reload
  BY <1>3 DEF Reload, NoRequest, OneRefresh, NobodyForgotten, QueueWaits, ProviderOrder
<1>4. ASSUME NEW r \in Requests, NEW hasToken \in BOOLEAN, Answered(r, hasToken)
      PROVE  SessionInv'
  BY <1>4 DEF Answered, Settled, SettledRequest, Sent, NoRequest,
              OneRefresh, NobodyForgotten, QueueWaits, ProviderOrder
<1>5. ASSUME NEW r \in Requests, Rejected(r)
      PROVE  SessionInv'
  BY <1>5 DEF Rejected, ClearsOnFailure, Settled, SettledRequest, NoRequest,
              OneRefresh, NobodyForgotten, QueueWaits, ProviderOrder
<1>6. ASSUME NEW r \in Requests, Unauthorized(r)
      PROVE  SessionInv'
  BY <1>6 DEF Unauthorized, OneRefresh, NobodyForgotten, QueueWaits, ProviderOrder
<1>7. ASSUME NEW r \in Requests, RefreshRefused(r)
      PROVE  SessionInv'
  BY <1>7 DEF RefreshRefused, RefreshOpen, OneRefresh, NobodyForgotten, QueueWaits, ProviderOrder
<1>8. ASSUME NEW r \in Requests, NEW hasToken \in BOOLEAN, RefreshAnswered(r, hasToken)
      PROVE  SessionInv'
  <2>1. /\ request[r].phase = "refreshing"
        /\ isRefreshing' = FALSE /\ refreshQueue' = {} /\ mounted' = mounted
        /\ badAnswers \subseteq badAnswers'
        /\ ~hasToken => "tokenless" \in badAnswers'
    BY <1>8 DEF RefreshAnswered, RefreshOpen
  <2>2. TypeOK'
    <3>1. request' \in [Requests -> [phase : Phases, op : Ops, retry : BOOLEAN]]
      <4>1. CASE hasToken
        BY <1>8, <4>1 DEF RefreshAnswered, Resent
      <4>2. CASE ~hasToken
        BY <1>8, <4>2 DEF RefreshAnswered
      <4> QED
        BY <4>1, <4>2
    <3>2. badAnswers' \subseteq {"tokenless", "refused"}
      BY <1>8 DEF RefreshAnswered
    <3>3. user' \in BOOLEAN /\ accessToken' \in BOOLEAN
      BY <1>8, Zenon DEF RefreshAnswered
    <3> QED
      BY <2>1, <3>1, <3>2, <3>3
  <2>3. \A q \in Requests :
           /\ request'[q].op = request[q].op
           /\ \/ request'[q].phase = request[q].phase /\ q # r
              \/ request'[q].phase = "sent" /\ request[q].phase \in {"queued", "refreshing"}
           /\ hasToken /\ q \in refreshQueue => request'[q].phase = "sent"
    <3>1. CASE hasToken
      BY <1>8, <2>1, <3>1 DEF RefreshAnswered, Resent, QueueWaits
    <3>2. CASE ~hasToken
      BY <1>8, <2>1, <3>2 DEF RefreshAnswered
    <3> QED
      BY <3>1, <3>2
  <2>4. \A q \in Requests : request'[q].phase # "refreshing"
    BY <2>1, <2>3 DEF OneRefresh
  <2>5. OneRefresh'
    BY <2>1, <2>4 DEF OneRefresh
  <2>6. NobodyForgotten' /\ QueueWaits'
    BY <2>1, <2>3 DEF NobodyForgotten, QueueWaits
  <2>7. ProviderOrder'
    <3>1. Load \in Requests /\ Me \in Requests
      OBVIOUS
    <3> QED
      BY <2>1, <2>3, <3>1 DEF ProviderOrder
  <2> QED
    BY <2>2, <2>5, <2>6, <2>7
<1>9. ASSUME NEW r \in Requests, RefreshFails(r)
      PROVE  SessionInv'
  BY <1>9 DEF RefreshFails, RefreshOpen, Settled, SettledRequest, NoRequest,
              OneRefresh, NobodyForgotten, QueueWaits, ProviderOrder
<1>10. CASE UNCHANGED vars
  BY <1>10 DEF vars, OneRefresh, NobodyForgotten, QueueWaits, ProviderOrder
<1> QED
  BY <1>1, <1>2, <1>3, <1>4, <1>5, <1>6, <1>7, <1>8, <1>9, <1>10 DEF Next, RequestStep

(* The inductive invariant holds in every reachable state. *)
LEMMA Invariance == Spec => []SessionInv
BY InitSessionInv, NextSessionInv, PTL DEF Spec

(* The session's variables keep their types, whatever the server answers. *)
THEOREM TypeCorrect == Spec => []TypeOK
BY Invariance, PTL DEF SessionInv

(* However many requests meet a 401 together, one refresh is under way for *)
(* them and isRefreshing tells whether it is.                              *)
THEOREM SingleRefresh == Spec => []OneRefresh
BY Invariance, PTL DEF SessionInv

(* A request waits in the queue only while a refresh that will empty it is *)
(* under way, and is not lost from it while answers carry a token.         *)
THEOREM NobodyIsForgotten == Spec => []NobodyForgotten
BY Invariance, PTL DEF SessionInv

----
(* The feed and searches, for any items, dates, filters and limits.        *)
(* The walk at the page that it will ask for next: nothing it has shown    *)
(* comes after its cursor, and what it owes the reader does.  A cursor of  *)
(* an undated item is left out: the next page is answered 500.             *)
AtAPage(w) == w.cursor \in {FirstPage, Garbage} \/ w.cursor.at # NoDate

WalkShape ==
    /\ \A i \in walk.steady : Active(i) /\ Dated(i) /\ Matches(walk.filter, i)
    /\ walk.pc = "walking" => walk.size >= 1
    /\ walk.pc = "walking" /\ walk.cursor \in {FirstPage, Garbage} => walk.shown = {}
    /\ walk.pc = "walking" /\ AtAPage(walk) =>
          /\ \A i \in walk.shown : Dated(i) /\ ~After(walk.cursor, i)
          /\ \A i \in walk.steady : i \in walk.shown \/ After(walk.cursor, i)

(* A search knows the items that were active all the while, or at times,   *)
(* and has found no more than it was asked for.                            *)
SearchShape ==
    search.pc # "idle" =>
        /\ \A i \in search.steady : Active(i)
        /\ \A i \in Items : Active(i) => i \in search.everActive
        /\ search.found \subseteq search.everActive
        /\ Cardinality(search.found) <= search.limit
        /\ search.pc \in {"asked", "extracted", "resolved", "embedded"} => search.found = {}
        /\ search.mode = "hybrid" => search.pc = "answered"
        /\ search.limit \in Nat

ReaderInv == ReaderTypeOK /\ WalkShape /\ WalkIsStable /\ SearchShape /\ AnswerIsFull

----
LEMMA FiniteItems ==
  ASSUME NEW S \in SUBSET Items
  PROVE  IsFiniteSet(S) /\ Cardinality(S) \in Nat
BY DiscoveryAssumption, FS_Subset, FS_CardinalityType

LEMMA ItemFacts ==
  ASSUME ReaderTypeOK, NEW i \in Items
  PROVE  /\ i \in Int /\ i # NoId /\ i # BadId
         /\ item[i].at \in Dates \cup {NoDate} /\ (Dated(i) => item[i].at \in Int)
         /\ item[i].status \in Hidden \cup {"active"}
BY DiscoveryAssumption DEF ReaderTypeOK, Dated

(* The feed's order is a strict total order on the items, ties included. *)
LEMMA BeforeFacts ==
  ASSUME ReaderTypeOK
  PROVE  /\ \A i \in Items : ~Before(i, i)
         /\ \A i, j \in Items : i # j => Before(i, j) \/ Before(j, i)
         /\ \A i, j, k \in Items : Before(i, j) /\ Before(j, k) => Before(i, k)
<1>1. \A i \in Items : ~Before(i, i)
  BY ItemFacts DEF Before, Dated
<1>2. ASSUME NEW i \in Items, NEW j \in Items, i # j
      PROVE  Before(i, j) \/ Before(j, i)
  <2>1. /\ i \in Int /\ j \in Int /\ item[i].at \in Dates \cup {NoDate}
        /\ item[j].at \in Dates \cup {NoDate}
        /\ Dated(i) => item[i].at \in Int
        /\ Dated(j) => item[j].at \in Int
    BY ItemFacts
  <2> QED
    BY <1>2, <2>1 DEF Before, Dated
<1>3. ASSUME NEW i \in Items, NEW j \in Items, NEW k \in Items, Before(i, j), Before(j, k)
      PROVE  Before(i, k)
  <2>1. /\ i \in Int /\ j \in Int /\ k \in Int
        /\ Dated(i) => item[i].at \in Int
        /\ Dated(j) => item[j].at \in Int
        /\ Dated(k) => item[k].at \in Int
    BY ItemFacts
  <2> QED
    BY <1>3, <2>1 DEF Before, Dated
<1> QED
  BY <1>1, <1>2, <1>3

(* So that a set of items has a first and a last one. *)
LEMMA Extremes ==
  ASSUME ReaderTypeOK, NEW S \in SUBSET Items, S # {}
  PROVE  /\ \E i \in S : \A j \in S : ~Before(j, i)
         /\ \E i \in S : \A j \in S : ~Before(i, j)
<1>1. S \subseteq Items
  OBVIOUS
<1>2. \E i \in S : \A j \in S : ~Before(j, i)
  <2> DEFINE Ahead(i) == {j \in S : Before(j, i)}
             F == {Ahead(i) : i \in S}
  <2>1. F \in SUBSET FiniteSubsetsOf(S) /\ F # {}
    <3>1. \A i \in S : Ahead(i) \in SUBSET S /\ Ahead(i) \in SUBSET Items
      OBVIOUS
    <3>2. \A i \in S : IsFiniteSet(Ahead(i))
      BY <3>1, FiniteItems
    <3>3. \A i \in S : Ahead(i) \in FiniteSubsetsOf(S)
      BY <3>1, <3>2 DEF FiniteSubsetsOf
    <3>4. F \in SUBSET FiniteSubsetsOf(S)
      BY <3>3
    <3>5. PICK i \in S : TRUE
      OBVIOUS
    <3>6. Ahead(i) \in F
      OBVIOUS
    <3> QED
      BY <3>4, <3>6
  <2> HIDE DEF F
  <2>2. PICK T \in F : \A U \in F : U \subseteq T => U = T
    BY <2>1, LeastSet
  <2>3. PICK i \in S : T = Ahead(i)
    BY DEF F
  <2>4. \A j \in S : Ahead(j) \subseteq Ahead(i) => Ahead(j) = Ahead(i)
    BY <2>2, <2>3 DEF F
  <2>5. ASSUME NEW j \in S, Before(j, i)
        PROVE  FALSE
    <3>1. Ahead(j) \subseteq Ahead(i)
      BY <1>1, <2>5, BeforeFacts
    <3>2. j \in Ahead(i) /\ j \notin Ahead(j)
      BY <1>1, <2>5, BeforeFacts
    <3> QED
      BY <2>4, <3>1, <3>2
  <2> QED
    BY <2>5
<1>3. \E i \in S : \A j \in S : ~Before(i, j)
  <2> DEFINE Behind(i) == {j \in S : Before(i, j)}
             F == {Behind(i) : i \in S}
  <2>1. F \in SUBSET FiniteSubsetsOf(S) /\ F # {}
    <3>1. \A i \in S : Behind(i) \in SUBSET S /\ Behind(i) \in SUBSET Items
      OBVIOUS
    <3>2. \A i \in S : IsFiniteSet(Behind(i))
      BY <3>1, FiniteItems
    <3>3. \A i \in S : Behind(i) \in FiniteSubsetsOf(S)
      BY <3>1, <3>2 DEF FiniteSubsetsOf
    <3>4. F \in SUBSET FiniteSubsetsOf(S)
      BY <3>3
    <3>5. PICK i \in S : TRUE
      OBVIOUS
    <3>6. Behind(i) \in F
      OBVIOUS
    <3> QED
      BY <3>4, <3>6
  <2> HIDE DEF F
  <2>2. PICK T \in F : \A U \in F : U \subseteq T => U = T
    BY <2>1, LeastSet
  <2>3. PICK i \in S : T = Behind(i)
    BY DEF F
  <2>4. \A j \in S : Behind(j) \subseteq Behind(i) => Behind(j) = Behind(i)
    BY <2>2, <2>3 DEF F
  <2>5. ASSUME NEW j \in S, Before(i, j)
        PROVE  FALSE
    <3>1. Behind(j) \subseteq Behind(i)
      BY <1>1, <2>5, BeforeFacts
    <3>2. j \in Behind(i) /\ j \notin Behind(j)
      BY <1>1, <2>5, BeforeFacts
    <3> QED
      BY <2>4, <3>1, <3>2
  <2> QED
    BY <2>5
<1> QED
  BY <1>2, <1>3

LEMMA LastOfFacts ==
  ASSUME ReaderTypeOK, NEW S \in SUBSET Items, S # {}
  PROVE  LastOf(S) \in S /\ \A j \in S \ {LastOf(S)} : Before(j, LastOf(S))
<1>1. PICK i \in S : \A j \in S : ~Before(i, j)
  BY Extremes
<1>2. \A j \in S \ {i} : Before(j, i)
  BY <1>1, BeforeFacts
<1> QED
  BY <1>2 DEF LastOf

(* FirstOf(S, n): what precedes one of the first n is one of them; there   *)
(* is one if there is any; and when they are fewer than n, they are all.   *)
LEMMA FirstClosed ==
  ASSUME ReaderTypeOK, NEW S \in SUBSET Items, NEW n \in Nat,
         NEW p \in FirstOf(S, n), NEW i \in S, Before(i, p)
  PROVE  i \in FirstOf(S, n)
<1> DEFINE Ahead(k) == {j \in S : Before(j, k)}
<1>1. p \in Items /\ i \in Items /\ p \in S
  BY DEF FirstOf
<1>2. Ahead(i) \subseteq Ahead(p)
  BY <1>1, BeforeFacts
<1>3. Ahead(p) \in SUBSET Items /\ Ahead(i) \in SUBSET Ahead(p) /\ Ahead(i) \in SUBSET Items
  BY <1>2
<1>4. Cardinality(Ahead(i)) <= Cardinality(Ahead(p))
  BY <1>3, FiniteItems, FS_Subset
<1>5. Cardinality(Ahead(i)) \in Nat /\ Cardinality(Ahead(p)) \in Nat
  BY <1>3, FiniteItems
<1>6. Cardinality(Ahead(p)) < n
  BY DEF FirstOf
<1>7. Cardinality(Ahead(i)) < n
  BY <1>4, <1>5, <1>6
<1> QED
  BY <1>7 DEF FirstOf

LEMMA FirstExists ==
  ASSUME ReaderTypeOK, NEW S \in SUBSET Items, S # {}, NEW n \in Nat \ {0}
  PROVE  FirstOf(S, n) # {}
<1>1. PICK i \in S : \A j \in S : ~Before(j, i)
  BY Extremes
<1>2. {j \in S : Before(j, i)} = {}
  BY <1>1
<1>3. Cardinality({j \in S : Before(j, i)}) = 0
  BY <1>2, FS_EmptySet
<1> QED
  BY <1>3 DEF FirstOf

LEMMA FirstFew ==
  ASSUME ReaderTypeOK, NEW S \in SUBSET Items, NEW n \in Nat, Cardinality(S) <= n
  PROVE  FirstOf(S, n) = S
<1> SUFFICES ASSUME NEW i \in S
             PROVE  Cardinality({j \in S : Before(j, i)}) < n
  BY DEF FirstOf
<1> DEFINE Ahead == {j \in S : Before(j, i)}
<1>1. Ahead \in SUBSET S /\ i \notin Ahead
  BY BeforeFacts
<1>2. IsFiniteSet(S) /\ Cardinality(S) \in Nat /\ Cardinality(Ahead) \in Nat
  BY <1>1, FiniteItems
<1>3. Cardinality(Ahead) <= Cardinality(S) /\ Cardinality(S) # Cardinality(Ahead)
  BY <1>1, <1>2, FS_Subset
<1> HIDE DEF Ahead
<1>4. Cardinality(Ahead) < n
  BY <1>2, <1>3
<1> QED
  BY <1>4 DEF Ahead

LEMMA FirstAll ==
  ASSUME ReaderTypeOK, NEW S \in SUBSET Items, NEW n \in Nat,
         Cardinality(FirstOf(S, n + 1)) <= n
  PROVE  FirstOf(S, n + 1) = S
<1> DEFINE first == FirstOf(S, n + 1)
           rest == S \ first
<1>0. first \in SUBSET S /\ first \in SUBSET Items /\ rest \in SUBSET Items
  BY DEF FirstOf
<1> SUFFICES ASSUME rest # {}
             PROVE  FALSE
  BY <1>0
<1>1. PICK i \in rest : \A j \in rest : ~Before(j, i)
  BY <1>0, Extremes
<1> DEFINE Ahead == {j \in S : Before(j, i)}
<1>2. Ahead \in SUBSET first /\ Ahead \in SUBSET Items
  BY <1>0, <1>1
<1>3. Cardinality(Ahead) <= Cardinality(first)
  BY <1>0, <1>2, FiniteItems, FS_Subset
<1>4. Cardinality(Ahead) \in Nat /\ Cardinality(first) \in Nat
  BY <1>0, <1>2, FiniteItems
<1>5. Cardinality(first) <= n
  OBVIOUS
<1>6. i \in S /\ i \notin first
  OBVIOUS
<1>7. ~(Cardinality(Ahead) < n + 1)
  BY <1>6 DEF FirstOf
<1> HIDE DEF Ahead, first
<1> QED
  BY <1>3, <1>4, <1>5, <1>7

----
(* A row is written: what a walk owes or has shown keeps its place in the  *)
(* order, and what a search counts on stays active.                        *)
LEMMA WriteStep ==
  ASSUME ReaderInv, NEW i \in Items, NEW status \in Hidden \cup {"active"},
         NEW at \in Dates \cup {NoDate}, Write(i, status, at)
  PROVE  ReaderInv'
<1> DEFINE moved == IF Dated(i) /\ at # item[i].at THEN {i} ELSE {}
           gone == IF status = "active" THEN moved ELSE {i}
<1>1. /\ item' = [item EXCEPT ![i] = [status |-> status, at |-> at]]
      /\ walk' = [walk EXCEPT !.steady = walk.steady \ gone, !.shown = walk.shown \ moved]
      /\ search' = [search EXCEPT !.steady = search.steady \ gone,
                        !.everActive = IF search.pc # "idle" /\ status = "active"
                                       THEN search.everActive \cup {i} ELSE search.everActive]
  BY DEF Write
<1>2. \A j \in Items : /\ j # i => item'[j] = item[j]
                       /\ j = i => item'[j].status = status /\ item'[j].at = at
  BY <1>1 DEF ReaderInv, ReaderTypeOK
<1>3. /\ walk'.pc = walk.pc /\ walk'.cursor = walk.cursor /\ walk'.size = walk.size
      /\ walk'.filter = walk.filter /\ walk'.again = walk.again
      /\ walk'.steady = walk.steady \ gone /\ walk'.shown = walk.shown \ moved
  BY <1>1 DEF ReaderInv, ReaderTypeOK
<1>4. /\ search'.pc = search.pc /\ search'.found = search.found /\ search'.limit = search.limit
      /\ search'.mode = search.mode /\ search'.answer = search.answer
      /\ search'.steady = search.steady \ gone
      /\ search'.everActive = IF search.pc # "idle" /\ status = "active"
                              THEN search.everActive \cup {i} ELSE search.everActive
  BY <1>1 DEF ReaderInv, ReaderTypeOK
<1>5. ReaderTypeOK'
  <2>1. item' \in [Items -> [status : Hidden \cup {"active"}, at : Dates \cup {NoDate}]]
    BY <1>1 DEF ReaderInv, ReaderTypeOK
  <2>2. /\ walk.steady \ gone \in SUBSET Items /\ walk.shown \ moved \in SUBSET Items
        /\ search.steady \ gone \in SUBSET Items
        /\ (IF search.pc # "idle" /\ status = "active"
            THEN search.everActive \cup {i} ELSE search.everActive) \in SUBSET Items
    BY DEF ReaderInv, ReaderTypeOK
  <2> QED
    BY <1>1, <2>1, <2>2 DEF ReaderInv, ReaderTypeOK
<1>6. moved \subseteq gone
  OBVIOUS
<1>7. WalkIsStable'
  BY <1>3, <1>6 DEF ReaderInv, WalkIsStable
<1>8. \A j \in Items : Dated(j) /\ j \notin moved => item'[j].at = item[j].at
  BY <1>2
<1>9. WalkShape'
  <2>1. ASSUME NEW j \in walk'.steady
        PROVE  /\ item'[j].status = "active" /\ item'[j].at # NoDate
               /\ Matches(walk.filter, j)
    <3>1. j \in walk.steady /\ j \in Items /\ j \notin gone /\ j \notin moved
      BY <1>3, <1>6, <2>1 DEF ReaderInv, ReaderTypeOK
    <3>2. Active(j) /\ Dated(j) /\ Matches(walk.filter, j)
      BY <3>1 DEF ReaderInv, WalkShape
    <3>3. item'[j].at = item[j].at
      BY <1>8, <3>1, <3>2
    <3>4. j = i => status = "active"
      BY <3>1
    <3> QED
      BY <1>2, <3>1, <3>2, <3>3, <3>4 DEF Active, Dated
  <2>2. \A j \in walk'.steady : Matches(walk.filter, j)' 
    BY <2>1, <1>3 DEF Matches
  <2>3. ASSUME walk.pc = "walking", AtAPage(walk), NEW j \in walk'.shown
        PROVE  item'[j].at # NoDate /\ ~After(walk.cursor, j) /\ item'[j].at = item[j].at
    <3>1. j \in walk.shown /\ j \in Items /\ j \notin moved
      BY <1>3, <2>3 DEF ReaderInv, ReaderTypeOK
    <3>2. Dated(j) /\ ~After(walk.cursor, j)
      BY <2>3, <3>1 DEF ReaderInv, WalkShape
    <3> QED
      BY <1>8, <3>1, <3>2 DEF Dated
  <2>4. ASSUME walk.pc = "walking", AtAPage(walk), NEW j \in walk'.steady
        PROVE  j \in walk'.shown \/ (After(walk.cursor, j) /\ item'[j].at = item[j].at)
    <3>1. j \in walk.steady /\ j \in Items /\ j \notin moved
      BY <1>3, <1>6, <2>4 DEF ReaderInv, ReaderTypeOK
    <3>2. Dated(j) /\ (j \in walk.shown \/ After(walk.cursor, j))
      BY <2>4, <3>1 DEF ReaderInv, WalkShape
    <3> QED
      BY <1>3, <1>8, <3>1, <3>2
  <2>5. AtAPage(walk') <=> AtAPage(walk)
    BY <1>3 DEF AtAPage
  <2>6. walk'.pc = "walking" => walk'.size >= 1
    BY <1>3 DEF ReaderInv, WalkShape
  <2>7. walk'.pc = "walking" /\ walk'.cursor \in {FirstPage, Garbage} => walk'.shown = {}
    BY <1>3 DEF ReaderInv, WalkShape
  <2>8. ASSUME walk'.pc = "walking", AtAPage(walk')
        PROVE  /\ \A j \in walk'.shown : Dated(j)' /\ ~After(walk.cursor, j)'
               /\ \A j \in walk'.steady : j \in walk'.shown \/ After(walk.cursor, j)'
    <3>1. walk.pc = "walking" /\ AtAPage(walk)
      BY <1>3, <2>5, <2>8
    <3> QED
      BY <1>3, <2>3, <2>4, <3>1 DEF After, Dated
  <2> QED
    BY <1>3, <2>1, <2>2, <2>6, <2>7, <2>8 DEF WalkShape, Active, Dated
<1>10. SearchShape'
  <2>1. \A j \in search'.steady : j \in search.steady /\ j \in Items /\ j \notin gone
    BY <1>4 DEF ReaderInv, ReaderTypeOK
  <2>2. search.pc # "idle" => \A j \in search'.steady : Active(j)'
    BY <1>2, <2>1 DEF ReaderInv, SearchShape, Active
  <2>3. search.pc # "idle" => \A j \in Items : Active(j)' => j \in search'.everActive
    BY <1>2, <1>4 DEF ReaderInv, SearchShape, Active
  <2> QED
    BY <1>4, <2>2, <2>3 DEF ReaderInv, SearchShape
<1>11. AnswerIsFull'
  BY <1>4 DEF ReaderInv, AnswerIsFull
<1> QED
  BY <1>5, <1>7, <1>9, <1>10, <1>11 DEF ReaderInv

LEMMA ModerateStep ==
  ASSUME ReaderInv, Moderate
  PROVE  ReaderInv'
<1>1. PICK i \in Items : \/ \E d \in Dates : Scrape(i, d) \/ Approve(i, d) \/ Redate(i, d)
                         \/ BulkApprove(i)
                         \/ \E s \in Hidden : Hide(i, s)
  BY DEF Moderate
<1>2. item[i].at \in Dates \cup {NoDate}
  BY ItemFacts DEF ReaderInv
<1>3. \E status \in Hidden \cup {"active"}, at \in Dates \cup {NoDate} : Write(i, status, at)
  BY <1>1, <1>2 DEF Scrape, Approve, Redate, BulkApprove, Hide, Hidden
<1> QED
  BY <1>3, WriteStep

----
(* A step of the walk that leaves the rows and the search alone. *)
LEMMA WalkStep ==
  ASSUME ReaderInv, UNCHANGED <<item, search>>, ReaderTypeOK',
         ~walk'.again, walk'.pc = "ended" => walk'.steady \subseteq walk'.shown,
         \A i \in walk'.steady : Active(i) /\ Dated(i) /\ Matches(walk'.filter, i),
         walk'.pc = "walking" => walk'.size >= 1,
         walk'.pc = "walking" /\ walk'.cursor \in {FirstPage, Garbage} => walk'.shown = {},
         walk'.pc = "walking" /\ AtAPage(walk') =>
            /\ \A i \in walk'.shown : Dated(i) /\ ~After(walk'.cursor, i)
            /\ \A i \in walk'.steady : i \in walk'.shown \/ After(walk'.cursor, i)
  PROVE  ReaderInv'
<1>1. WalkIsStable'
  BY DEF WalkIsStable
<1>2. WalkShape'
  BY DEF WalkShape, AtAPage, After, Active, Dated, Matches
<1>3. SearchShape' /\ AnswerIsFull'
  BY DEF ReaderInv, SearchShape, AnswerIsFull, Active
<1> QED
  BY <1>1, <1>2, <1>3 DEF ReaderInv

LEMMA BeginWalkStep ==
  ASSUME ReaderInv, NEW f \in Filters, NEW n \in PageSizes, NEW c \in {FirstPage} \cup Links,
         BeginWalk(f, n, c)
  PROVE  ReaderInv'
<1> DEFINE owed == {i \in Items : Active(i) /\ Dated(i) /\ Matches(f, i) /\ After(c, i)}
           w == [NoWalk EXCEPT !.pc = "walking", !.filter = f, !.size = n, !.cursor = c,
                               !.steady = owed]
<1>1. walk' = w /\ UNCHANGED <<item, search>>
  BY DEF BeginWalk
<1>2. c \in Cursors /\ n \in Nat /\ n >= 1
  BY DiscoveryAssumption DEF Cursors, FirstPage, Garbage
<1>3. owed \in SUBSET Items /\ \A i \in owed : Active(i) /\ Dated(i) /\ Matches(f, i) /\ After(c, i)
  OBVIOUS
<1> HIDE DEF owed
<1>4. /\ w.pc = "walking" /\ w.filter = f /\ w.size = n /\ w.cursor = c /\ w.steady = owed
      /\ w.shown = {} /\ w.again = FALSE
  BY DEF NoWalk
<1>5. w \in [pc : {"idle", "walking", "ended", "failed"}, filter : Filters \cup {Unset},
             size : PageSizes \cup {0}, cursor : Cursors, shown : SUBSET Items,
             again : BOOLEAN, steady : SUBSET Items]
  BY <1>2, <1>3 DEF NoWalk
<1> HIDE DEF w
<1>6. ReaderTypeOK'
  BY <1>1, <1>5 DEF ReaderInv, ReaderTypeOK
<1> QED
  BY <1>1, <1>2, <1>3, <1>4, <1>6, WalkStep

LEMMA LeaveFeedStep ==
  ASSUME ReaderInv, LeaveFeed
  PROVE  ReaderInv'
<1>1. walk' = NoWalk /\ UNCHANGED <<item, search>>
  BY DEF LeaveFeed
<1>2. /\ NoWalk.pc = "idle" /\ NoWalk.steady = {} /\ NoWalk.again = FALSE
      /\ NoWalk \in [pc : {"idle", "walking", "ended", "failed"}, filter : Filters \cup {Unset},
             size : PageSizes \cup {0}, cursor : Cursors, shown : SUBSET Items,
             again : BOOLEAN, steady : SUBSET Items]
  BY DEF NoWalk, Cursors
<1>3. ReaderTypeOK'
  BY <1>1, <1>2 DEF ReaderInv, ReaderTypeOK
<1> QED
  BY <1>1, <1>2, <1>3, WalkStep

WalkType == [pc : {"idle", "walking", "ended", "failed"}, filter : Filters \cup {Unset},
             size : PageSizes \cup {0}, cursor : Cursors, shown : SUBSET Items,
             again : BOOLEAN, steady : SUBSET Items]

(* The cursors that say nothing are those with no item. *)
LEMMA CursorFacts ==
  ASSUME NEW c \in Cursors
  PROVE  /\ c \in {FirstPage, Garbage} => c.at = NoDate
         /\ c \notin {FirstPage, Garbage} => c.id \in Items /\ c.at \in Dates \cup {NoDate}
         /\ \A d \in Dates \cup {NoDate}, i \in Items :
               /\ [at |-> d, id |-> i] \notin {FirstPage, Garbage}
               /\ [at |-> d, id |-> i] \in Cursors
<1>1. FirstPage.id = NoId /\ Garbage.id = BadId /\ FirstPage.at = NoDate /\ Garbage.at = NoDate
  BY DEF FirstPage, Garbage
<1>2. \A d, i : [at |-> d, id |-> i].id = i
  OBVIOUS
<1> QED
  BY <1>1, <1>2, DiscoveryAssumption DEF Cursors

(* The last page holds all that was left, and another one ends with an     *)
(* item after which the walk goes on without a gap and without a repeat.   *)
LEMMA ListItemsStep ==
  ASSUME ReaderInv, ListItems
  PROVE  ReaderInv'
<1> DEFINE c == walk.cursor
           S == {i \in Items : Active(i) /\ Matches(walk.filter, i) /\ After(c, i)}
           rows == FirstOf(S, walk.size + 1)
           page == FirstOf(rows, walk.size)
           more == Cardinality(rows) > walk.size
           last == LastOf(page)
<1>0. /\ walk \in WalkType /\ c \in Cursors /\ walk.pc = "walking" /\ walk.size \in Nat \ {0}
      /\ ReaderTypeOK /\ UNCHANGED <<item, search>> /\ walk.again = FALSE
  <2>1. walk \in WalkType /\ walk.pc = "walking" /\ UNCHANGED <<item, search>>
    BY DEF ReaderInv, ReaderTypeOK, WalkType, ListItems
  <2>2. walk.size >= 1 /\ walk.size \in PageSizes \cup {0}
    BY <2>1 DEF ReaderInv, WalkShape, WalkType
  <2>3. \A n \in PageSizes : n \in Nat
    BY DiscoveryAssumption
  <2>4. walk.size \in Nat
    BY <2>2, <2>3
  <2> QED
    BY <2>1, <2>2, <2>4 DEF ReaderInv, WalkIsStable, WalkType
<1>1. CASE c \notin {FirstPage, Garbage} /\ c.at = NoDate
  <2>1. walk' = [walk EXCEPT !.pc = "failed"]
    BY <1>1 DEF ListItems
  <2>2. /\ walk' \in WalkType /\ walk'.pc = "failed" /\ walk'.again = walk.again
        /\ walk'.steady = walk.steady /\ walk'.filter = walk.filter
    BY <1>0, <2>1 DEF WalkType
  <2>3. ReaderTypeOK'
    BY <1>0, <2>2 DEF ReaderTypeOK, WalkType
  <2> QED
    BY <1>0, <2>2, <2>3, WalkStep DEF ReaderInv, WalkShape
<1>2. CASE ~(c \notin {FirstPage, Garbage} /\ c.at = NoDate)
  <2>1. AtAPage(walk)
    BY <1>2 DEF AtAPage
  <2>2. /\ \A i \in walk.shown : ~After(c, i)
        /\ c \notin {FirstPage, Garbage} => \A i \in walk.shown : Dated(i)
        /\ \A i \in walk.steady : i \in walk.shown \/ After(c, i)
        /\ c \in {FirstPage, Garbage} => walk.shown = {}
        /\ \A i \in walk.steady : Active(i) /\ Dated(i) /\ Matches(walk.filter, i)
    BY <1>0, <2>1 DEF ReaderInv, WalkShape
  <2>3. /\ S \in SUBSET Items /\ walk.shown \in SUBSET Items /\ walk.steady \in SUBSET Items
        /\ S \cap walk.shown = {} /\ walk.steady \subseteq walk.shown \cup S
    BY <1>0, <2>2 DEF WalkType
  <2>4. /\ rows \in SUBSET S /\ page \in SUBSET rows /\ rows \in SUBSET Items
        /\ page \in SUBSET Items
    BY <2>3 DEF FirstOf
  <2>5. page \cap walk.shown = {}
    BY <2>3, <2>4
  <2> DEFINE next == IF more THEN NextCursor(page) ELSE c
             w == [walk EXCEPT !.pc = IF more THEN "walking" ELSE "ended", !.cursor = next,
                               !.again = FALSE, !.shown = walk.shown \cup page]
  <2>6. walk' = w
    <3>1. Rows(walk.filter, c, walk.size + 1) = rows
      BY DEF Rows
    <3>2. (walk.again \/ page \cap walk.shown # {}) = FALSE
      BY <1>0, <2>5
    <3> QED
      BY <1>2, <3>1, <3>2 DEF ListItems
  <2>7. Cardinality(rows) \in Nat
    BY <2>4, FiniteItems
  <2>8. CASE ~more
    <3>1. Cardinality(rows) <= walk.size
      BY <1>0, <2>7, <2>8
    <3>2. rows = S
      BY <1>0, <2>3, <3>1, FirstAll
    <3>3. page = rows
      BY <1>0, <2>4, <3>1, FirstFew
    <3> HIDE DEF S, rows, page, c
    <3>4. /\ w \in WalkType /\ w.pc = "ended" /\ w.again = FALSE /\ w.filter = walk.filter
          /\ w.steady = walk.steady /\ w.shown = walk.shown \cup page
      BY <1>0, <2>3, <2>4, <2>8 DEF WalkType
    <3> HIDE DEF w
    <3>5. walk'.steady \subseteq walk'.shown
      BY <2>3, <2>6, <3>2, <3>3, <3>4
    <3>6. ReaderTypeOK'
      BY <1>0, <2>6, <3>4 DEF ReaderTypeOK, WalkType
    <3> QED
      BY <1>0, <2>2, <2>6, <3>4, <3>5, <3>6, WalkStep
  <2>9. CASE more
    <3>1. rows # {}
      <4>1. CASE rows = {}
        <5>1. Cardinality({}) = 0
          BY FS_EmptySet
        <5>2. Cardinality(rows) = 0
          BY <4>1, <5>1
        <5> QED
          BY <1>0, <2>9, <5>2
      <4> QED
        BY <4>1
    <3>2. page # {}
      BY <1>0, <2>4, <3>1, FirstExists
    <3>3. last \in page /\ \A j \in page \ {last} : Before(j, last)
      BY <1>0, <2>4, <3>2, LastOfFacts
    <3>4. last \in Items /\ last \in S /\ After(c, last)
      BY <2>4, <3>3
    <3>5. next = [at |-> item[last].at, id |-> last]
      BY <2>9 DEF NextCursor
    <3>6. /\ next \in Cursors /\ next \notin {FirstPage, Garbage}
          /\ next.at = item[last].at /\ next.id = last
      <4>1. item[last].at \in Dates \cup {NoDate}
        BY <1>0, <3>4, ItemFacts
      <4> HIDE DEF next, last, c
      <4>2. \A d \in Dates \cup {NoDate}, i \in Items :
               /\ [at |-> d, id |-> i] \notin {FirstPage, Garbage}
               /\ [at |-> d, id |-> i] \in Cursors
        BY <1>0, CursorFacts
      <4>3. next \in Cursors /\ next \notin {FirstPage, Garbage}
        BY <3>4, <3>5, <4>1, <4>2
      <4> QED
        BY <3>5, <4>3
    <3> HIDE DEF next, last
    <3>7. ASSUME NEW i \in S \ page, i # last
          PROVE  Before(last, i)
      <4> SUFFICES ASSUME Before(i, last)
                   PROVE  FALSE
        BY <1>0, <2>3, <3>4, <3>7, BeforeFacts
      <4>1. last \in FirstOf(S, walk.size + 1) /\ walk.size + 1 \in Nat
        BY <1>0, <2>4, <3>3
      <4>2. i \in rows
        BY <1>0, <2>3, <3>7, <4>1, FirstClosed
      <4>3. i \in page
        BY <1>0, <2>4, <3>3, <4>2, FirstClosed
      <4> QED
        BY <3>7, <4>3
    <3>8. ASSUME Dated(last), NEW i \in page
          PROVE  Dated(i) /\ ~After(next, i)
      <4>1. i \in Items /\ i \in Int /\ last \in Int /\ item[last].at \in Int
        BY <1>0, <2>4, <3>4, <3>8, ItemFacts
      <4>2. Dated(i) => item[i].at \in Int
        BY <1>0, <4>1, ItemFacts
      <4>3. i = last \/ Before(i, last)
        BY <3>3
      <4>4. CASE i = last
        BY <3>6, <3>8, <4>1, <4>4 DEF After, Dated
      <4>5. CASE Before(i, last)
        <5>1. Dated(i) /\ item[last].at # NoDate
          BY <3>8, <4>5 DEF Before, Dated
        <5>2. ~(item[i].at < item[last].at \/ (item[i].at = item[last].at /\ i < last))
          BY <4>1, <4>2, <4>5, <5>1 DEF Before, Dated
        <5> QED
          BY <3>6, <5>1, <5>2 DEF After
      <4> QED
        BY <4>3, <4>4, <4>5
    <3>9. ASSUME Dated(last), NEW i \in walk.shown
          PROVE  Dated(i) /\ ~After(next, i)
      <4>1. c \notin {FirstPage, Garbage} /\ c.at # NoDate /\ Dated(i) /\ ~After(c, i)
        BY <1>2, <2>2, <3>9
      <4>2. c.at \in Dates \cup {NoDate} /\ c.id \in Items
        BY <1>0, <4>1, CursorFacts
      <4>3. c.at \in Int /\ c.id \in Int
        BY <4>1, <4>2, DiscoveryAssumption
      <4>4. /\ i \in Items /\ i \in Int /\ last \in Int /\ item[last].at \in Int
            /\ item[i].at \in Int
        BY <1>0, <2>3, <3>4, <3>9, <4>1, ItemFacts
      <4>5. item[last].at < c.at \/ (item[last].at = c.at /\ last < c.id)
        BY <3>4, <4>1 DEF After
      <4>6. ~(item[i].at < c.at \/ (item[i].at = c.at /\ i < c.id))
        BY <4>1 DEF After
      <4>7. ~(item[i].at < item[last].at \/ (item[i].at = item[last].at /\ i < last))
        BY <4>3, <4>4, <4>5, <4>6
      <4> QED
        BY <3>6, <4>1, <4>7 DEF After
    <3>10. ASSUME Dated(last), NEW i \in walk.steady
           PROVE  i \in walk.shown \cup page \/ After(next, i)
      <4>1. CASE i \in S \ page
        <5>1. Before(last, i) /\ Dated(i)
          BY <2>2, <3>3, <3>7, <4>1
        <5>2. i \in Int /\ last \in Int /\ item[last].at \in Int /\ item[i].at \in Int
          BY <1>0, <2>3, <3>4, <3>10, <5>1, ItemFacts
        <5>3. item[i].at < item[last].at \/ (item[i].at = item[last].at /\ i < last)
          BY <3>10, <5>1, <5>2 DEF Before
        <5>4. item[last].at # NoDate
          BY <3>10 DEF Dated
        <5> QED
          BY <3>6, <5>1, <5>3, <5>4 DEF After
      <4> QED
        BY <2>3, <4>1
    <3> HIDE DEF S, rows, page, c, last, next
    <3>11. /\ w \in WalkType /\ w.pc = "walking" /\ w.again = FALSE /\ w.filter = walk.filter
           /\ w.steady = walk.steady /\ w.shown = walk.shown \cup page /\ w.cursor = next
           /\ w.size = walk.size
      BY <1>0, <2>3, <2>4, <2>9, <3>6 DEF WalkType
    <3> HIDE DEF w
    <3>12. ReaderTypeOK'
      BY <1>0, <2>6, <3>11 DEF ReaderTypeOK, WalkType
    <3>13. AtAPage(walk') => Dated(last)
      BY <2>6, <3>6, <3>11 DEF AtAPage, Dated
    <3> QED
      BY <1>0, <2>2, <2>6, <3>6, <3>8, <3>9, <3>10, <3>11, <3>12, <3>13, WalkStep
  <2> QED
    BY <2>8, <2>9
<1> QED
  BY <1>1, <1>2

----
Faults == {"none", "extraction", "keywords", "vector", "text"}
SearchType == [pc : {"idle", "asked", "extracted", "resolved", "embedded", "looked",
                     "answered", "failed"},
               limit : Limits \cup {0}, tags : SUBSET UNION TagSets, raw : BOOLEAN,
               clean : BOOLEAN, keywords : BOOLEAN,
               found : SUBSET Items, answer : SUBSET Items,
               mode : {"vector", "hybrid"}, fault : Faults,
               steady : SUBSET Items, everActive : SUBSET Items]

LEMMA MinFacts ==
  ASSUME NEW a \in Nat, NEW b \in Nat
  PROVE  /\ Min({a, b}) \in Nat /\ Min({a, b}) <= a /\ Min({a, b}) <= b
         /\ Min({a, b}) = a \/ Min({a, b}) = b
<1>1. \E m \in {a, b} : \A y \in {a, b} : m <= y
  <2>1. CASE a <= b
    BY <2>1
  <2>2. CASE b <= a
    BY <2>2
  <2> QED
    BY <2>1, <2>2
<1>2. Min({a, b}) \in {a, b} /\ \A y \in {a, b} : Min({a, b}) <= y
  BY <1>1 DEF Min
<1> QED
  BY <1>2

LEMMA SubsetFacts ==
  ASSUME NEW k, NEW S \in SUBSET Items, NEW T \in kSubset(k, S)
  PROVE  T \subseteq S /\ T \in SUBSET Items /\ Cardinality(T) = k
BY DEF kSubset

(* A step of the search that leaves the rows and the walk alone. *)
LEMMA SearchStep ==
  ASSUME ReaderInv, UNCHANGED <<item, walk>>, search' \in SearchType,
         search'.pc # "idle" =>
            /\ \A i \in search'.steady : Active(i)
            /\ \A i \in Items : Active(i) => i \in search'.everActive
            /\ search'.found \subseteq search'.everActive
            /\ Cardinality(search'.found) <= search'.limit
            /\ search'.pc \in {"asked", "extracted", "resolved", "embedded"} =>
                   search'.found = {}
            /\ search'.mode = "hybrid" => search'.pc = "answered"
            /\ search'.limit \in Nat,
         search'.pc = "answered" =>
            /\ Cardinality(search'.answer) <= search'.limit
            /\ search'.answer \subseteq search'.everActive
            /\ search'.mode = "hybrid" /\ Cardinality(search'.answer) < search'.limit
                   => TextHits \cap search'.steady \subseteq search'.answer
  PROVE  ReaderInv'
<1>1. ReaderTypeOK'
  BY DEF ReaderInv, ReaderTypeOK, SearchType, Faults
<1>2. WalkShape' /\ WalkIsStable'
  BY DEF ReaderInv, WalkShape, WalkIsStable, AtAPage, After, Active, Dated, Matches
<1>3. SearchShape'
  BY DEF SearchShape, Active
<1>4. AnswerIsFull'
  BY DEF AnswerIsFull
<1> QED
  BY <1>1, <1>2, <1>3, <1>4 DEF ReaderInv

LEMMA BeginSearchStep ==
  ASSUME ReaderInv, NEW n \in Limits, NEW profile \in TagSets, BeginSearch(n, profile)
  PROVE  ReaderInv'
<1> DEFINE active == {i \in Items : Active(i)}
<1>1. search' = [NoSearch EXCEPT !.pc = "asked", !.limit = n, !.tags = profile,
                    !.steady = active, !.everActive = active]
  BY DEF BeginSearch
<1>2. UNCHANGED <<item, walk>> /\ active \in SUBSET Items
  BY DEF BeginSearch
<1>3. profile \in SUBSET UNION TagSets
  OBVIOUS
<1>4. \A i \in active : Active(i)
  OBVIOUS
<1>5. \A i \in Items : Active(i) => i \in active
  OBVIOUS
<1> HIDE DEF active
<1>6. /\ search' \in SearchType /\ search'.pc = "asked" /\ search'.found = {}
      /\ search'.limit = n /\ search'.mode = "vector"
      /\ search'.steady = active /\ search'.everActive = active
  BY <1>1, <1>2, <1>3 DEF SearchType, NoSearch, Faults
<1>7. n \in Nat /\ 0 <= n /\ Cardinality({}) = 0
  BY DiscoveryAssumption, FS_EmptySet
<1> QED
  BY <1>2, <1>4, <1>5, <1>6, <1>7, SearchStep

LEMMA LeaveSearchStep ==
  ASSUME ReaderInv, LeaveSearch
  PROVE  ReaderInv'
<1>1. search' = NoSearch /\ UNCHANGED <<item, walk>>
  BY DEF LeaveSearch
<1>2. NoSearch \in SearchType /\ NoSearch.pc = "idle"
  BY DEF NoSearch, SearchType, Faults
<1> QED
  BY <1>1, <1>2, SearchStep

(* What a running search goes on knowing while it does not find or answer. *)
LEMMA GoesOn ==
  ASSUME ReaderInv, search.pc \notin {"idle", "answered"}, UNCHANGED <<item, walk>>,
         search' \in SearchType,
         search'.pc \in {"extracted", "resolved", "embedded", "looked", "failed"},
         search'.pc \in {"extracted", "resolved", "embedded"} =>
             search.pc \in {"asked", "extracted", "resolved"},
         search'.steady = search.steady, search'.everActive = search.everActive,
         search'.found = search.found, search'.limit = search.limit, search'.mode = search.mode
  PROVE  ReaderInv'
BY SearchStep DEF ReaderInv, SearchShape

LEMMA FailStep ==
  ASSUME ReaderInv, search.pc \notin {"idle", "answered"}, UNCHANGED <<item, walk>>,
         NEW fault \in Faults, Fail(fault)
  PROVE  ReaderInv'
<1>1. search \in SearchType
  BY DEF ReaderInv, ReaderTypeOK, SearchType, Faults
<1>2. /\ search' \in SearchType /\ search'.pc = "failed"
      /\ search'.steady = search.steady /\ search'.everActive = search.everActive
      /\ search'.found = search.found /\ search'.limit = search.limit
      /\ search'.mode = search.mode
  BY <1>1 DEF Fail, SearchType
<1> QED
  BY <1>2, GoesOn

LEMMA ExtractionFacts ==
  ASSUME NEW x \in Extractions
  PROVE  x.clean \in BOOLEAN /\ x.keywords \in BOOLEAN
<1>1. CASE x = Failed
  <2>1. Failed.clean = TRUE /\ Failed.keywords = FALSE
    BY DEF Failed
  <2> QED
    BY <1>1, <2>1
<1>2. CASE x \in [keywords : BOOLEAN, clean : BOOLEAN]
  BY <1>2
<1> QED
  BY <1>1, <1>2 DEF Extractions

LEMMA GatherStep ==
  ASSUME ReaderInv, Gather
  PROVE  ReaderInv'
<1>0. /\ search \in SearchType /\ search.pc = "asked" /\ UNCHANGED <<item, walk>>
      /\ "extraction" \in Faults
  BY DEF ReaderInv, ReaderTypeOK, SearchType, Gather, Faults
<1>1. CASE Fail("extraction")
  BY <1>0, <1>1, FailStep
<1>2. CASE ~Fail("extraction")
  <2>1. PICK raw \in BOOLEAN, x \in Extractions :
            search' = [search EXCEPT !.pc = "extracted", !.raw = raw, !.clean = x.clean,
                                     !.keywords = x.keywords]
    BY <1>2 DEF Gather
  <2>2. x.clean \in BOOLEAN /\ x.keywords \in BOOLEAN
    BY ExtractionFacts
  <2>3. /\ search' \in SearchType /\ search'.pc = "extracted"
        /\ search'.steady = search.steady /\ search'.everActive = search.everActive
        /\ search'.found = search.found /\ search'.limit = search.limit
        /\ search'.mode = search.mode
    BY <1>0, <2>1, <2>2 DEF SearchType
  <2> QED
    BY <1>0, <2>3, GoesOn
<1> QED
  BY <1>1, <1>2

LEMMA ResolveStep ==
  ASSUME ReaderInv, NEW tags \in TagSets, ResolveKeywords(tags)
  PROVE  ReaderInv'
<1>0. /\ search \in SearchType /\ search.pc = "extracted" /\ UNCHANGED <<item, walk>>
      /\ "keywords" \in Faults
  BY DEF ReaderInv, ReaderTypeOK, SearchType, ResolveKeywords, Faults
<1>1. CASE Fail("keywords")
  BY <1>0, <1>1, FailStep
<1>2. CASE ~Fail("keywords")
  <2>1. search' = [search EXCEPT !.pc = "resolved", !.tags = search.tags \cup tags,
                                 !.keywords = FALSE]
    BY <1>2 DEF ResolveKeywords
  <2>2. search.tags \cup tags \in SUBSET UNION TagSets
    BY <1>0 DEF SearchType
  <2>3. /\ search' \in SearchType /\ search'.pc = "resolved"
        /\ search'.steady = search.steady /\ search'.everActive = search.everActive
        /\ search'.found = search.found /\ search'.limit = search.limit
        /\ search'.mode = search.mode
    BY <1>0, <2>1, <2>2 DEF SearchType
  <2> QED
    BY <1>0, <2>3, GoesOn
<1> QED
  BY <1>1, <1>2

LEMMA EmbedStep ==
  ASSUME ReaderInv, Embed
  PROVE  ReaderInv'
<1>1. /\ \E pc \in {"embedded", "looked"} : search' = [search EXCEPT !.pc = pc]
      /\ search.pc = "resolved" /\ UNCHANGED <<item, walk>>
  BY DEF Embed
<1>2. search \in SearchType
  BY DEF ReaderInv, ReaderTypeOK, SearchType, Faults
<1>3. /\ search' \in SearchType /\ search'.pc \in {"embedded", "looked"}
      /\ search'.steady = search.steady /\ search'.everActive = search.everActive
      /\ search'.found = search.found /\ search'.limit = search.limit
      /\ search'.mode = search.mode
  BY <1>1, <1>2 DEF SearchType
<1> QED
  BY <1>1, <1>3, GoesOn

LEMMA VectorStep ==
  ASSUME ReaderInv, VectorSearch
  PROVE  ReaderInv'
<1> DEFINE near == Nearest(search.tags)
           k == Min({search.limit, Cardinality(near)})
<1>0. /\ search \in SearchType /\ search.pc = "embedded" /\ UNCHANGED <<item, walk>>
      /\ search.limit \in Nat
  BY DEF ReaderInv, ReaderTypeOK, SearchType, Faults, SearchShape, VectorSearch
<1>1. CASE search' = [search EXCEPT !.pc = "looked", !.fault = "vector"]
  <2>1. /\ search' \in SearchType /\ search'.pc = "looked"
        /\ search'.steady = search.steady /\ search'.everActive = search.everActive
        /\ search'.found = search.found /\ search'.limit = search.limit
        /\ search'.mode = search.mode
    BY <1>0, <1>1 DEF SearchType, Faults
  <2> QED
    BY <1>0, <2>1, GoesOn
<1>2. CASE \E S \in kSubset(k, near) : search' = [search EXCEPT !.pc = "looked", !.found = S]
  <2>1. near \in SUBSET Items /\ \A i \in near : Active(i)
    BY DEF Nearest
  <2>2. k <= search.limit
    BY <1>0, <2>1, FiniteItems, MinFacts
  <2>3. PICK S \in kSubset(k, near) : search' = [search EXCEPT !.pc = "looked", !.found = S]
    BY <1>2
  <2> HIDE DEF near, k
  <2>4. S \subseteq near /\ S \in SUBSET Items /\ Cardinality(S) = k
    BY <2>1, SubsetFacts
  <2>5. /\ search' \in SearchType /\ search'.pc = "looked" /\ search'.found = S
        /\ search'.steady = search.steady /\ search'.everActive = search.everActive
        /\ search'.limit = search.limit /\ search'.mode = search.mode
    BY <1>0, <2>3, <2>4 DEF SearchType
  <2>6. S \subseteq search.everActive
    BY <1>0, <2>1, <2>4 DEF ReaderInv, SearchShape
  <2> QED
    BY <1>0, <2>2, <2>4, <2>5, <2>6, SearchStep DEF ReaderInv, SearchShape
<1> QED
  BY <1>1, <1>2 DEF VectorSearch

(* The text search brings as much as there is room for, of what is not     *)
(* there yet: if room is left, nothing was left out.                       *)
LEMMA CompletedFacts ==
  ASSUME NEW hits \in SUBSET Items, NEW found \in SUBSET Items, NEW limit \in Nat,
         Cardinality(found) <= limit,
         NEW fts \in kSubset(Min({limit, Cardinality(hits)}), hits),
         NEW more \in Added(fts, found, limit)
  PROVE  /\ found \cup more \in SUBSET Items /\ more \subseteq hits
         /\ Cardinality(found \cup more) <= limit
         /\ Cardinality(found \cup more) < limit => hits \subseteq found \cup more
<1> DEFINE new == fts \ found
           room == limit - Cardinality(found)
           few == Min({limit, Cardinality(hits)})
           count == Min({Cardinality(new), room})
<1>1. /\ Cardinality(hits) \in Nat /\ IsFiniteSet(hits) /\ Cardinality(found) \in Nat
      /\ IsFiniteSet(found)
  BY FiniteItems
<1>2. fts \subseteq hits /\ fts \in SUBSET Items /\ Cardinality(fts) = few
  BY SubsetFacts
<1>3. new \in SUBSET Items /\ new \cap found = {} /\ new \subseteq fts
  BY <1>2
<1>4. Cardinality(new) \in Nat /\ IsFiniteSet(new) /\ room \in Nat
  BY <1>1, <1>3, FiniteItems
<1>5. more \in kSubset(count, new)
  BY DEF Added
<1> HIDE DEF new, room, few, count
<1>6. more \subseteq new /\ more \in SUBSET Items /\ Cardinality(more) = count
  BY <1>3, <1>5, SubsetFacts
<1>7. count \in Nat /\ count <= room /\ count <= Cardinality(new)
      /\ (count = room \/ count = Cardinality(new))
  BY <1>4, MinFacts DEF count
<1>8. IsFiniteSet(more) /\ found \cap more = {} /\ Cardinality(found \cap more) = 0
  BY <1>3, <1>6, FiniteItems, FS_EmptySet
<1>9. Cardinality(found \cup more) = Cardinality(found) + count
  BY <1>1, <1>6, <1>7, <1>8, FS_Union
<1>10. Cardinality(found \cup more) <= limit
  BY <1>1, <1>7, <1>9 DEF room
<1>11. ASSUME Cardinality(found \cup more) < limit
       PROVE  hits \subseteq found \cup more
  <2>1. count = Cardinality(new)
    BY <1>1, <1>7, <1>9, <1>11 DEF room
  <2>2. more = new
    BY <1>4, <1>6, <2>1, FS_Subset
  <2>3. fts \subseteq found \cup more
    BY <2>2 DEF new
  <2>4. Cardinality(fts) <= Cardinality(found \cup more)
    <3>1. found \cup more \in SUBSET Items
      BY <1>6
    <3> QED
      BY <2>3, <3>1, FiniteItems, FS_Subset
  <2>5. few \in Nat /\ (few = limit \/ few = Cardinality(hits))
    BY <1>1, MinFacts DEF few
  <2>6. Cardinality(found \cup more) \in Nat
    BY <1>1, <1>7, <1>9
  <2>7. Cardinality(fts) = Cardinality(hits)
    BY <1>2, <1>11, <2>4, <2>5, <2>6
  <2>8. fts = hits
    BY <1>1, <1>2, <2>7, FS_Subset
  <2> QED
    BY <2>3, <2>8
<1> QED
  BY <1>2, <1>3, <1>6, <1>10, <1>11

LEMMA CompleteStep ==
  ASSUME ReaderInv, Complete
  PROVE  ReaderInv'
<1>0. /\ search \in SearchType /\ search.pc = "looked" /\ UNCHANGED <<item, walk>>
      /\ search.limit \in Nat /\ search.mode = "vector"
      /\ search.found \subseteq search.everActive /\ search.found \in SUBSET Items
      /\ Cardinality(search.found) <= search.limit
  BY DEF ReaderInv, ReaderTypeOK, SearchType, Faults, SearchShape, Complete
<1>1. CASE search' = [search EXCEPT !.pc = "answered", !.answer = search.found]
  <2>1. /\ search' \in SearchType /\ search'.pc = "answered" /\ search'.answer = search.found
        /\ search'.steady = search.steady /\ search'.everActive = search.everActive
        /\ search'.found = search.found /\ search'.limit = search.limit
        /\ search'.mode = search.mode
    BY <1>0, <1>1 DEF SearchType
  <2> QED
    BY <1>0, <2>1, SearchStep DEF ReaderInv, SearchShape
<1>2. CASE Fail("vector") \/ Fail("text")
  <2>1. "vector" \in Faults /\ "text" \in Faults
    BY DEF Faults
  <2> QED
    BY <1>0, <1>2, <2>1, FailStep
<1>3. CASE \E fts \in TextRows(search.limit) :
              \E more \in Added(fts, search.found, search.limit) :
                 search' = [search EXCEPT !.pc = "answered", !.mode = "hybrid",
                                          !.answer = search.found \cup more]
  <2>a. PICK fts \in TextRows(search.limit) :
              \E more \in Added(fts, search.found, search.limit) :
                 search' = [search EXCEPT !.pc = "answered", !.mode = "hybrid",
                                          !.answer = search.found \cup more]
    BY <1>3
  <2>1. PICK more \in Added(fts, search.found, search.limit) :
                 search' = [search EXCEPT !.pc = "answered", !.mode = "hybrid",
                                          !.answer = search.found \cup more]
    BY <2>a
  <2> DEFINE hits == {i \in TextHits : Active(i)}
             answer == search.found \cup more
  <2>2. hits \in SUBSET Items /\ fts \in kSubset(Min({search.limit, Cardinality(hits)}), hits)
    BY DiscoveryAssumption DEF TextRows
  <2>3. /\ \A i \in hits : Active(i) /\ i \in Items
        /\ \A i \in TextHits : Active(i) => i \in hits
    BY <2>2
  <2> HIDE DEF hits
  <2>4. /\ answer \in SUBSET Items /\ more \subseteq hits
        /\ Cardinality(answer) <= search.limit
        /\ Cardinality(answer) < search.limit => hits \subseteq answer
    <3> DEFINE limit == search.limit
               found == search.found
    <3>1. /\ limit \in Nat /\ found \in SUBSET Items /\ Cardinality(found) <= limit
          /\ fts \in kSubset(Min({limit, Cardinality(hits)}), hits)
          /\ more \in Added(fts, found, limit) /\ answer = found \cup more
      BY <1>0, <2>2
    <3> HIDE DEF limit, found, answer
    <3>2. /\ found \cup more \in SUBSET Items /\ more \subseteq hits
          /\ Cardinality(found \cup more) <= limit
          /\ Cardinality(found \cup more) < limit => hits \subseteq found \cup more
      BY <2>2, <3>1, CompletedFacts
    <3> QED
      BY <3>1, <3>2 DEF limit
  <2>5. answer \subseteq search.everActive
    BY <1>0, <2>3, <2>4 DEF ReaderInv, SearchShape
  <2>6. TextHits \cap search.steady \subseteq hits
    BY <1>0, <2>3 DEF ReaderInv, SearchShape
  <2>7. search' = [search EXCEPT !.pc = "answered", !.mode = "hybrid", !.answer = answer]
    BY <2>1
  <2> HIDE DEF answer
  <2>8. /\ search' \in SearchType /\ search'.pc = "answered" /\ search'.answer = answer
        /\ search'.steady = search.steady /\ search'.everActive = search.everActive
        /\ search'.found = search.found /\ search'.limit = search.limit
        /\ search'.mode = "hybrid"
    BY <1>0, <2>4, <2>7 DEF SearchType
  <2>9. /\ \A i \in search.steady : Active(i)
        /\ \A i \in Items : Active(i) => i \in search.everActive
    BY <1>0 DEF ReaderInv, SearchShape
  <2> QED
    BY <1>0, <2>4, <2>5, <2>6, <2>8, <2>9, SearchStep
<1> QED
  BY <1>1, <1>2, <1>3 DEF Complete

----
LEMMA InitReaderInv == ReaderInit => ReaderInv
<1> SUFFICES ASSUME ReaderInit
             PROVE  ReaderInv
  OBVIOUS
<1>1. ReaderTypeOK
  BY DEF ReaderInit, ReaderTypeOK, NoWalk, NoSearch, Hidden, Cursors
<1>2. WalkShape /\ WalkIsStable /\ SearchShape /\ AnswerIsFull
  BY DEF ReaderInit, WalkShape, WalkIsStable, SearchShape, AnswerIsFull, NoWalk, NoSearch
<1> QED
  BY <1>1, <1>2 DEF ReaderInv

LEMMA NextReaderInv == ReaderInv /\ [ReaderNext]_reading => ReaderInv'
<1> SUFFICES ASSUME ReaderInv, [ReaderNext]_reading
             PROVE  ReaderInv'
  OBVIOUS
<1>1. CASE UNCHANGED reading
  BY <1>1 DEF reading, ReaderInv, ReaderTypeOK, WalkShape, WalkIsStable, SearchShape,
              AnswerIsFull, AtAPage, After, Active, Dated, Matches
<1>2. CASE Moderate
  BY <1>2, ModerateStep
<1>3. CASE Browse
  BY <1>3, BeginWalkStep, ListItemsStep, LeaveFeedStep DEF Browse
<1>4. CASE Ask
  BY <1>4, BeginSearchStep, LeaveSearchStep DEF Ask
<1>5. CASE Handle
  BY <1>5, GatherStep, ResolveStep, EmbedStep, VectorStep, CompleteStep DEF Handle
<1> QED
  BY <1>1, <1>2, <1>3, <1>4, <1>5 DEF ReaderNext

(* The readers' inductive invariant holds in every reachable state. *)
LEMMA ReaderInvHolds == ReaderSpec => []ReaderInv
<1>1. ReaderInit => ReaderInv
  BY InitReaderInv
<1>2. ReaderInv /\ [ReaderNext]_reading => ReaderInv'
  BY NextReaderInv
<1> QED
  BY <1>1, <1>2, PTL DEF ReaderSpec

(* The keyset pages of the feed, for any number of items and dates, any    *)
(* page size and filter: whatever moderators write between two pages, no   *)
(* item is shown twice and none that stayed is left out (list_items).      *)
THEOREM FeedIsStable == ReaderSpec => []WalkIsStable
<1>1. ReaderInv => WalkIsStable
  BY DEF ReaderInv
<1> QED
  BY <1>1, ReaderInvHolds, PTL

(* An answer keeps to the limit and to items that were active, and leaves  *)
(* out no match that was active all the while unless it is full (search).  *)
THEOREM SearchIsFull == ReaderSpec => []AnswerIsFull
<1>1. ReaderInv => AnswerIsFull
  BY DEF ReaderInv
<1> QED
  BY <1>1, ReaderInvHolds, PTL
====
