---- MODULE Taxonomy_proofs ----
(***************************************************************************)
(* Proofs about Taxonomy, for any sets of types, tags, items, names and    *)
(* slugs, any number of requests and any rows at the start.  ConstraintsHold  *)
(* speaks of committed rows only; the inductive invariant also says what   *)
(* a request's uncommitted rows may be beside the committed ones (Sound)   *)
(* and beside those of each other request (Apart), which is what the row   *)
(* locks and the unique indexes guarantee between flush and commit.        *)
(***************************************************************************)
EXTENDS Taxonomy, TLAPS

PCs == {"idle", "merge", "updated", "pruned", "replacing", "flushed", "read", "stored",
        "cleared", "done"}
Written(K, R) == UNION {[D -> R \cup {Dropped}] : D \in SUBSET K}
WriteSets == [types : Written(Types, TypeRows), tags : Written(Tags, TagRows),
              add : SUBSET (Items \X Tags), del : SUBSET (Items \X Tags)]
Trees == {NoTree} \cup [types : SUBSET (Types \X Names), tags : SUBSET (Tags \X Types \X Slugs)]
Transactions == [pc : PCs, w : WriteSets, source : Tags \cup {NoRow}, target : Tags \cup {NoRow},
                 seen : SUBSET (Items \cup Tags), put : SUBSET (Items \X Tags), tree : Trees]

TypeOK ==
    /\ types \in [Types -> TypeRows \cup {NoRow, Dropped}]
    /\ tags \in [Tags -> TagRows \cup {NoRow, Dropped}]
    /\ tagged \in SUBSET (Items \X Tags)
    /\ cache \in Trees
    /\ req \in [Requests -> Transactions]

\* What w is about to write: type or tag rows, and rows it is about to delete.
NewType(w, t) == t \in DOMAIN w.types /\ w.types[t] # Dropped
OldType(w, t) == t \in DOMAIN w.types /\ w.types[t] = Dropped
NewTag(w, g) == g \in DOMAIN w.tags /\ w.tags[g] # Dropped
OldTag(w, g) == g \in DOMAIN w.tags /\ w.tags[g] = Dropped

(* Two rows of one table with the same key. *)
SameSlug(a, b) == a.type = b.type /\ a.slug = b.slug

(* The uncommitted rows w keep every constraint beside the committed rows. *)
Sound(w) ==
    /\ \A t \in Types : NewType(w, t) =>
           \A u \in Types : /\ u # t /\ HasType(u) => types[u].name # w.types[t].name
                            /\ u # t /\ NewType(w, u) => w.types[u].name # w.types[t].name
    /\ \A t \in Types : OldType(w, t) =>
           \A g \in Tags : HasTag(g) => tags[g].type # t
    /\ \A g \in Tags : NewTag(w, g) =>
           /\ tags[g] # Dropped
           /\ HasType(w.tags[g].type) /\ ~OldType(w, w.tags[g].type)
           /\ \A h \in Tags : /\ h # g /\ HasTag(h) => ~SameSlug(tags[h], w.tags[g])
                              /\ h # g /\ NewTag(w, h) => ~SameSlug(w.tags[h], w.tags[g])
    /\ \A g \in Tags : OldTag(w, g) => RowsOf(g) \subseteq w.del
    /\ \A p \in w.add : HasTag(p[2]) /\ ~OldTag(w, p[2])

(* The uncommitted rows v of one request beside those of another. *)
Apart(v, w) ==
    /\ DOMAIN v.types \cap DOMAIN w.types = {}
    /\ DOMAIN v.tags \cap DOMAIN w.tags = {}
    /\ \A t, u \in Types : NewType(v, t) /\ NewType(w, u) => v.types[t].name # w.types[u].name
    /\ \A g, h \in Tags : NewTag(v, g) /\ NewTag(w, h) => ~SameSlug(v.tags[g], w.tags[h])
    /\ \A g \in Tags : NewTag(v, g) => ~OldType(w, v.tags[g].type)
    /\ \A p \in v.add : ~OldTag(w, p[2])

(* A merge adds rows of the target only, which is not the source. *)
Merging(r) == req[r].pc \in {"merge", "updated", "pruned"}
MergeShape ==
    \A r \in Requests : Merging(r) =>
        /\ req[r].source \in Tags /\ req[r].target \in Tags /\ req[r].source # req[r].target
        /\ req[r].pc # "merge" => /\ req[r].w.types = None
                                 /\ \A p \in req[r].w.add : p[2] = req[r].target

SeenTags == \A r \in Requests : req[r].pc \in {"read", "stored"} => req[r].seen \subseteq Tags

IInv ==
    /\ TypeOK /\ ConstraintsHold /\ MergeShape /\ SeenTags
    /\ \A r \in Requests : Sound(req[r].w)
    /\ \A r, s \in Requests : r # s => Apart(req[r].w, req[s].w)

(* What MergeKeepsSeenItems needs of a request q: a merge deletes pairs of *)
(* its source only, and so, when it commits, of the tag that it drops; and *)
(* what it saw of its source, and a PATCH has not taken the target from,   *)
(* has the target, now or once the merge commits, unless the target is     *)
(* gone.                                                                   *)
Carries(q) ==
    /\ q.pc \in {"updated", "pruned"} => \A p \in q.w.del : p[2] = q.source
    /\ q.source # NoRow /\ q.pc \in {"flushed", "cleared"} =>
           \A p \in q.w.del : OldTag(q.w, p[2])
    /\ q.source # NoRow => q.pc \in {"merge", "updated", "pruned", "flushed", "cleared"}
    /\ q.source # NoRow /\ q.pc # "merge" =>
           /\ q.target \in Tags
           /\ \A i \in q.seen : tags[q.target] = Dropped \/ <<i, q.target>> \in tagged \cup q.w.add
KInv == IInv /\ \A r \in Requests : Carries(req[r])

----
(* Rows written and applied. *)
LEMMA WrittenFacts ==
  ASSUME NEW K, NEW R, NEW f \in Written(K, R)
  PROVE  DOMAIN f \subseteq K /\ \A x \in DOMAIN f : f[x] \in R \cup {Dropped}
BY DEF Written

LEMMA OnlyType ==
  ASSUME NEW t \in Types, NEW row \in TypeRows \cup {Dropped}
  PROVE  /\ Only(t, row) \in Written(Types, TypeRows)
         /\ DOMAIN Only(t, row) = {t} /\ Only(t, row)[t] = row
<1>1. Only(t, row) \in [{t} -> TypeRows \cup {Dropped}]
  BY DEF Only
<1> QED
  BY <1>1 DEF Only, Written

LEMMA OnlyTag ==
  ASSUME NEW g \in Tags, NEW row \in TagRows \cup {Dropped}
  PROVE  /\ Only(g, row) \in Written(Tags, TagRows)
         /\ DOMAIN Only(g, row) = {g} /\ Only(g, row)[g] = row
<1>1. Only(g, row) \in [{g} -> TagRows \cup {Dropped}]
  BY DEF Only
<1> QED
  BY <1>1 DEF Only, Written

LEMMA AppliedRows ==
  ASSUME NEW K, NEW R, NEW f \in Written(K, R), NEW rows \in [K -> R \cup {NoRow, Dropped}]
  PROVE  /\ Apply(f, rows) \in [K -> R \cup {NoRow, Dropped}]
         /\ \A x \in K : Apply(f, rows)[x] = IF x \in DOMAIN f THEN f[x] ELSE rows[x]
BY WrittenFacts DEF Apply

LEMMA NothingWritten ==
  /\ NoWrites \in WriteSets
  /\ NoWrites.types = None /\ NoWrites.tags = None /\ NoWrites.add = {} /\ NoWrites.del = {}
  /\ DOMAIN None = {}
<1>1. \A K, R : None \in [{} -> R \cup {Dropped}] /\ {} \in SUBSET K
  BY DEF None
<1>2. None \in Written(Types, TypeRows) /\ None \in Written(Tags, TagRows)
  BY <1>1 DEF Written
<1> QED
  BY <1>2 DEF NoWrites, WriteSets, None

LEMMA EmptyIsSound == Sound(NoWrites)
BY NothingWritten DEF Sound, NewType, OldType, NewTag, OldTag

LEMMA EmptyIsApart ==
  ASSUME NEW w \in WriteSets
  PROVE  Apart(NoWrites, w) /\ Apart(w, NoWrites)
BY NothingWritten DEF Apart, NewType, OldType, NewTag, OldTag

----
(* What a step of one request does to the records. *)
LEMMA MoveFacts ==
  ASSUME TypeOK, NEW r \in Requests, NEW pc \in PCs, NEW w \in WriteSets, Move(r, pc, w)
  PROVE  /\ req' \in [Requests -> Transactions]
         /\ req'[r].pc = pc /\ req'[r].w = w
         /\ req'[r].source = req[r].source /\ req'[r].target = req[r].target
         /\ req'[r].seen = req[r].seen
         /\ \A s \in Requests \ {r} : req'[s] = req[s]
BY DEF Move, TypeOK, Transactions

LEMMA IdleFacts ==
  ASSUME NEW pc \in PCs
  PROVE  LET q == [Idle EXCEPT !.pc = pc]
         IN /\ q \in Transactions /\ q.pc = pc /\ q.w = NoWrites /\ q.source = NoRow
            /\ q.seen = {}
BY NothingWritten DEF Idle, Transactions, Trees, PCs

LEMMA EndFacts ==
  ASSUME TypeOK, NEW r \in Requests, End(r)
  PROVE  /\ req' \in [Requests -> Transactions]
         /\ req'[r].pc \in {"idle", "done"} /\ req'[r].w = NoWrites
         /\ req'[r].source = NoRow /\ req'[r].seen = {}
         /\ \A s \in Requests \ {r} : req'[s] = req[s]
<1> DEFINE pc == IF r \in Readers THEN "idle" ELSE "done"
           q == [Idle EXCEPT !.pc = pc]
<1>1. pc \in {"idle", "done"} /\ pc \in PCs
  BY DEF PCs
<1>2. /\ q \in Transactions /\ q.pc = pc /\ q.w = NoWrites /\ q.source = NoRow
      /\ q.seen = {}
  BY <1>1, IdleFacts
<1>3. req' = [req EXCEPT ![r] = q]
  BY DEF End, Ended
<1> HIDE DEF q, pc
<1> QED
  BY <1>1, <1>2, <1>3 DEF TypeOK

(* What the guards say of the other requests: those that are not in        *)
(* Others(r) have written nothing.                                         *)
LEMMA FreeFacts ==
  ASSUME TypeOK, NEW r \in Requests, NEW s \in Requests, s # r
  PROVE  /\ req[s].w \in WriteSets
         /\ \A t \in Types : TypeFree(r, t) => t \notin DOMAIN req[s].w.types
         /\ \A t \in Types : TypeUnused(r, t) =>
                \A g \in Tags : NewTag(req[s].w, g) => req[s].w.tags[g].type # t
         /\ \A g \in Tags : TagFree(r, g) => g \notin DOMAIN req[s].w.tags
         /\ \A g \in Tags : TagUnused(r, g) => \A p \in req[s].w.add : p[2] # g
         /\ \A n \in Names : NameFree(r, n) =>
                \A u \in Types : NewType(req[s].w, u) => req[s].w.types[u].name # n
         /\ \A t \in Types, l \in Slugs : SlugFree(r, t, l) =>
                \A g \in Tags : NewTag(req[s].w, g) =>
                    ~(req[s].w.tags[g].type = t /\ req[s].w.tags[g].slug = l)
<1>1. req[s].w \in WriteSets
  BY DEF TypeOK, Transactions
<1>2. CASE req[s].w = NoWrites
  BY <1>1, <1>2, NothingWritten DEF NewType, NewTag
<1>3. CASE req[s].w # NoWrites
  <2>1. s \in Others(r)
    BY <1>3 DEF Others
  <2> QED
    BY <1>1, <2>1 DEF TypeFree, TypeUnused, TagFree, TagUnused, NameFree, SlugFree, NewTagOf,
                      RefersTo, NewType, NewTag
<1> QED
  BY <1>2, <1>3

(* A step of one request that leaves the tables alone. *)
LEMMA OwnStep ==
  ASSUME IInv, NEW r \in Requests, UNCHANGED <<types, tags, tagged>>, cache' \in Trees,
         req' \in [Requests -> Transactions],
         \A s \in Requests \ {r} : req'[s] = req[s],
         Sound(req'[r].w),
         \A s \in Requests \ {r} : Apart(req'[r].w, req[s].w) /\ Apart(req[s].w, req'[r].w),
         req'[r].pc \in {"merge", "updated", "pruned"} =>
            /\ req'[r].source \in Tags /\ req'[r].target \in Tags
            /\ req'[r].source # req'[r].target
            /\ req'[r].pc # "merge" => /\ req'[r].w.types = None
                                      /\ \A p \in req'[r].w.add : p[2] = req'[r].target,
         req'[r].pc \in {"read", "stored"} => req'[r].seen \subseteq Tags
  PROVE  IInv'
<1>1. TypeOK'
  BY DEF IInv, TypeOK
<1>2. ConstraintsHold'
  BY DEF IInv, ConstraintsHold, HasType, HasTag
<1>3. MergeShape' /\ SeenTags'
  BY DEF IInv, MergeShape, SeenTags, Merging
<1>4. \A s \in Requests : Sound(req[s].w)'
  <2> TAKE s \in Requests
  <2>1. Sound(req'[s].w)
    BY DEF IInv
  <2> QED
    BY <2>1 DEF Sound, HasType, HasTag, RowsOf, NewType, OldType, NewTag, OldTag
<1>5. \A s, q \in Requests : s # q => Apart(req'[s].w, req'[q].w)
  BY DEF IInv
<1>6. \A s, q \in Requests : s # q => Apart(req[s].w, req[q].w)'
  BY <1>5 DEF Apart, NewType, OldType, NewTag, OldTag
<1> QED
  BY <1>1, <1>2, <1>3, <1>4, <1>6 DEF IInv

(* A step that ends a request, or that writes no rows. *)
LEMMA EndStep ==
  ASSUME IInv, NEW r \in Requests, End(r), UNCHANGED Rows
  PROVE  IInv'
<1>1. TypeOK /\ UNCHANGED <<types, tags, tagged>> /\ cache' \in Trees
  BY DEF IInv, TypeOK, Rows
<1>2. /\ req' \in [Requests -> Transactions]
      /\ req'[r].pc \in {"idle", "done"} /\ req'[r].w = NoWrites
      /\ \A s \in Requests \ {r} : req'[s] = req[s]
  BY <1>1, EndFacts
<1>3. \A s \in Requests : req[s].w \in WriteSets
  BY <1>1 DEF TypeOK, Transactions
<1> QED
  BY <1>1, <1>2, <1>3, EmptyIsSound, EmptyIsApart, OwnStep

LEMMA SameWrites ==
  ASSUME IInv, NEW r \in Requests, UNCHANGED <<types, tags, tagged>>, cache' \in Trees,
         req' \in [Requests -> Transactions],
         \A s \in Requests \ {r} : req'[s] = req[s],
         req'[r].w = req[r].w,
         req'[r].pc \in {"merge", "updated", "pruned"} =>
            /\ req'[r].source \in Tags /\ req'[r].target \in Tags
            /\ req'[r].source # req'[r].target
            /\ req'[r].pc # "merge" => /\ req'[r].w.types = None
                                      /\ \A p \in req'[r].w.add : p[2] = req'[r].target,
         req'[r].pc \in {"read", "stored"} => req'[r].seen \subseteq Tags
  PROVE  IInv'
<1>1. Sound(req'[r].w)
  BY DEF IInv
<1>2. \A s \in Requests \ {r} : Apart(req'[r].w, req[s].w) /\ Apart(req[s].w, req'[r].w)
  BY DEF IInv
<1> QED
  BY <1>1, <1>2, OwnStep

(* A mutation writes w, which is neither merging nor reading. *)
LEMMA FlushStep ==
  ASSUME IInv, NEW r \in Requests, NEW w \in WriteSets, NEW pc \in {"replacing", "flushed", "cleared"},
         Move(r, pc, w), UNCHANGED Rows,
         Sound(w),
         \A s \in Requests \ {r} : Apart(w, req[s].w) /\ Apart(req[s].w, w)
  PROVE  IInv'
<1>1. TypeOK /\ UNCHANGED <<types, tags, tagged>> /\ cache' \in Trees /\ pc \in PCs
  BY DEF IInv, TypeOK, Rows, PCs
<1>2. /\ req' \in [Requests -> Transactions]
      /\ req'[r].pc = pc /\ req'[r].w = w
      /\ \A s \in Requests \ {r} : req'[s] = req[s]
  BY <1>1, MoveFacts
<1> QED
  BY <1>1, <1>2, OwnStep

(* Creating and updating a type: the new row t of types. *)
LEMMA TypeWriteStep ==
  ASSUME IInv, NEW r \in Requests, NEW t \in Types, NEW n \in Names, NEW f \in BOOLEAN,
         TypeFree(r, t), NameFree(r, n),
         Flush(r, ~NameTaken(n, {t}), [NoWrites EXCEPT !.types = Only(t, TypeRow(n, f))])
  PROVE  IInv'
<1> DEFINE w == [NoWrites EXCEPT !.types = Only(t, TypeRow(n, f))]
<1>1. CASE NameTaken(n, {t})
  BY <1>1, EndStep DEF Flush
<1>2. CASE ~NameTaken(n, {t})
  <2>1. TypeRow(n, f) \in TypeRows /\ TypeRow(n, f) # Dropped /\ TypeRow(n, f).name = n
    BY TaxonomyAssumption DEF TypeRow, TypeRows
  <2>2. /\ Only(t, TypeRow(n, f)) \in Written(Types, TypeRows)
        /\ DOMAIN Only(t, TypeRow(n, f)) = {t} /\ Only(t, TypeRow(n, f))[t] = TypeRow(n, f)
    BY <2>1, OnlyType
  <2>3. /\ w \in WriteSets /\ w.types = Only(t, TypeRow(n, f))
        /\ w.tags = None /\ w.add = {} /\ w.del = {} /\ DOMAIN w.tags = {}
    BY <2>2, NothingWritten DEF WriteSets
  <2> HIDE DEF w
  <2>4. \A u \in Types : NewType(w, u) => u = t /\ w.types[u].name = n
    BY <2>1, <2>2, <2>3 DEF NewType
  <2>5. /\ \A u \in Types : ~OldType(w, u)
        /\ \A g \in Tags : ~NewTag(w, g) /\ ~OldTag(w, g)
    BY <2>1, <2>2, <2>3 DEF OldType, NewTag, OldTag
  <2>6. Sound(w)
    BY <1>2, <2>3, <2>4, <2>5 DEF Sound, NameTaken
  <2>7. ASSUME NEW s \in Requests \ {r}
        PROVE  Apart(w, req[s].w) /\ Apart(req[s].w, w)
    <3>1. TypeOK /\ t \notin DOMAIN req[s].w.types
      BY FreeFacts DEF IInv
    <3>2. \A u \in Types : NewType(req[s].w, u) => req[s].w.types[u].name # n
      BY <3>1, FreeFacts
    <3>3. \A p \in req[s].w.add : p[2] \in Tags
      BY <3>1 DEF TypeOK, Transactions, WriteSets
    <3>4. \A g \in Tags : NewTag(req[s].w, g) => ~OldType(w, req[s].w.tags[g].type)
      BY <2>1, <2>2, <2>3 DEF OldType
    <3> QED
      BY <2>2, <2>3, <2>4, <2>5, <3>1, <3>2, <3>3, <3>4 DEF Apart
  <2> QED
    BY <1>2, <2>3, <2>6, <2>7, FlushStep DEF Flush, w
<1> QED
  BY <1>1, <1>2

LEMMA CreateTypeStep ==
  ASSUME IInv, NEW r \in Requests, NEW t \in Types, NEW n \in Names, CreateType(r, t, n)
  PROVE  IInv'
<1>1. ~HasType(t)
  BY DEF CreateType, HasType
<1>2. NameTaken(n, {}) <=> NameTaken(n, {t})
  BY <1>1 DEF NameTaken
<1> QED
  BY <1>2, TypeWriteStep DEF CreateType, Flush

LEMMA UpdateTypeStep ==
  ASSUME IInv, NEW r \in Requests, NEW t \in Types, NEW n \in Names, NEW f \in BOOLEAN,
         UpdateType(r, t, n, f)
  PROVE  IInv'
BY TypeWriteStep DEF UpdateType

(* Deleting a type that no committed or uncommitted tag has. *)
LEMMA DeleteTypeStep ==
  ASSUME IInv, NEW r \in Requests, NEW t \in Types, DeleteType(r, t)
  PROVE  IInv'
<1> DEFINE w == [NoWrites EXCEPT !.types = Only(t, Dropped)]
           unused == \A g \in Tags : HasTag(g) => tags[g].type # t
<1>1. CASE ~unused
  BY <1>1, EndStep DEF DeleteType, Flush
<1>2. CASE unused
  <2>1. /\ Only(t, Dropped) \in Written(Types, TypeRows)
        /\ DOMAIN Only(t, Dropped) = {t} /\ Only(t, Dropped)[t] = Dropped
    BY OnlyType
  <2>2. /\ w \in WriteSets /\ w.types = Only(t, Dropped)
        /\ w.tags = None /\ w.add = {} /\ w.del = {} /\ DOMAIN w.tags = {}
    BY <2>1, NothingWritten DEF WriteSets
  <2> HIDE DEF w
  <2>3. /\ \A u : OldType(w, u) => u = t
        /\ \A u \in Types : ~NewType(w, u)
        /\ \A g \in Tags : ~NewTag(w, g) /\ ~OldTag(w, g)
    BY <2>1, <2>2 DEF NewType, OldType, NewTag, OldTag
  <2>4. Sound(w)
    BY <1>2, <2>2, <2>3 DEF Sound
  <2>5. ASSUME NEW s \in Requests \ {r}
        PROVE  Apart(w, req[s].w) /\ Apart(req[s].w, w)
    <3>1. /\ TypeOK /\ t \notin DOMAIN req[s].w.types
          /\ \A g \in Tags : NewTag(req[s].w, g) => req[s].w.tags[g].type # t
      BY FreeFacts DEF IInv, DeleteType, TypeUnused
    <3>2. \A p \in req[s].w.add : p[2] \in Tags
      BY <3>1 DEF TypeOK, Transactions, WriteSets
    <3> QED
      BY <2>1, <2>2, <2>3, <3>1, <3>2 DEF Apart
  <2> QED
    BY <1>2, <2>2, <2>4, <2>5, FlushStep DEF DeleteType, Flush, w
<1> QED
  BY <1>1, <1>2

(* Creating and updating a tag: the row g of tags, of an existing type     *)
(* that nobody deletes, with a slug that is free.                          *)
LEMMA TagWriteStep ==
  ASSUME IInv, NEW r \in Requests, NEW g \in Tags, NEW t \in Types, NEW l \in Slugs,
         NEW a \in BOOLEAN,
         TagFree(r, g), tags[g] # Dropped, HasType(t), ~SlugTaken(t, l, {g}),
         \A s \in Requests \ {r} : ~OldType(req[s].w, t),
         \A s \in Requests \ {r} : \A h \in Tags :
            NewTag(req[s].w, h) => ~(req[s].w.tags[h].type = t /\ req[s].w.tags[h].slug = l),
         Move(r, "flushed", [NoWrites EXCEPT !.tags = Only(g, TagRow(t, l, a))]),
         UNCHANGED Rows
  PROVE  IInv'
<1> DEFINE row == TagRow(t, l, a)
           w == [NoWrites EXCEPT !.tags = Only(g, row)]
<1>1. row \in TagRows /\ row # Dropped /\ row.type = t /\ row.slug = l
  BY TaxonomyAssumption DEF TagRow, TagRows
<1> HIDE DEF row
<1>2. /\ Only(g, row) \in Written(Tags, TagRows)
      /\ DOMAIN Only(g, row) = {g} /\ Only(g, row)[g] = row
  BY <1>1, OnlyTag
<1>3. /\ w \in WriteSets /\ w.tags = Only(g, row)
      /\ w.types = None /\ w.add = {} /\ w.del = {} /\ DOMAIN w.types = {}
  BY <1>2, NothingWritten DEF WriteSets
<1>w. Move(r, "flushed", w)
  BY DEF row
<1> HIDE DEF w
<1>4. \A h \in Tags : NewTag(w, h) => h = g /\ w.tags[h] = row
  BY <1>1, <1>2, <1>3 DEF NewTag
<1>5. /\ \A h : ~OldTag(w, h)
      /\ \A u : ~NewType(w, u) /\ ~OldType(w, u)
  BY <1>1, <1>2, <1>3 DEF OldType, NewType, OldTag
<1>6. \A h \in Tags : h # g /\ HasTag(h) => ~SameSlug(tags[h], row)
  BY <1>1 DEF SlugTaken, SameSlug
<1>7. Sound(w)
  BY <1>1, <1>3, <1>4, <1>5, <1>6 DEF Sound
<1>8. ASSUME NEW s \in Requests \ {r}
      PROVE  Apart(w, req[s].w) /\ Apart(req[s].w, w)
  <2>1. g \notin DOMAIN req[s].w.tags
    BY FreeFacts DEF IInv
  <2>2. \A h \in Tags : NewTag(req[s].w, h) =>
            ~SameSlug(req[s].w.tags[h], row) /\ ~SameSlug(row, req[s].w.tags[h])
    BY <1>1 DEF SameSlug
  <2> QED
    BY <1>1, <1>2, <1>3, <1>4, <1>5, <2>1, <2>2 DEF Apart
<1> QED
  BY <1>3, <1>7, <1>8, <1>w, FlushStep

LEMMA CreateTagStep ==
  ASSUME IInv, NEW r \in Requests, NEW g \in Tags, NEW t \in Types, NEW l \in Slugs,
         CreateTag(r, g, t, l)
  PROVE  IInv'
<1>1. CASE ~(HasType(t) /\ ~SlugTaken(t, l, {}))
  BY <1>1, EndStep DEF CreateTag, Flush
<1>2. CASE HasType(t) /\ ~SlugTaken(t, l, {})
  <2>1. tags[g] # Dropped /\ ~SlugTaken(t, l, {g})
    BY <1>2, TaxonomyAssumption DEF CreateTag, SlugTaken
  <2>2. ASSUME NEW s \in Requests \ {r}
        PROVE  /\ ~OldType(req[s].w, t)
               /\ \A h \in Tags : NewTag(req[s].w, h) =>
                      ~(req[s].w.tags[h].type = t /\ req[s].w.tags[h].slug = l)
    BY FreeFacts DEF IInv, CreateTag, OldType
  <2> QED
    BY <1>2, <2>1, <2>2, TagWriteStep DEF CreateTag, Flush
<1> QED
  BY <1>1, <1>2

(* A committed tag keeps its type; its own slug is in nobody else's rows. *)
LEMMA UpdateTagStep ==
  ASSUME IInv, NEW r \in Requests, NEW g \in Tags, NEW l \in Slugs, NEW a \in BOOLEAN,
         UpdateTag(r, g, l, a)
  PROVE  IInv'
<1> DEFINE t == tags[g].type
<1>1. CASE SlugTaken(t, l, {g})
  BY <1>1, EndStep DEF UpdateTag, Flush
<1>2. CASE ~SlugTaken(t, l, {g})
  <2>1. HasTag(g) /\ tags[g] # Dropped /\ TagFree(r, g)
    BY DEF UpdateTag, HasTag, TagUnused
  <2>2. tags[g] \in TagRows /\ t \in Types /\ tags[g].slug \in Slugs
    BY <2>1 DEF IInv, TypeOK, HasTag, TagRows, TagRow
  <2>3. HasType(t)
    BY <2>1 DEF IInv, ConstraintsHold
  <2>4. ASSUME NEW s \in Requests \ {r}
        PROVE  /\ ~OldType(req[s].w, t)
               /\ \A h \in Tags : NewTag(req[s].w, h) =>
                      ~(req[s].w.tags[h].type = t /\ req[s].w.tags[h].slug = l)
    <3>1. Sound(req[s].w) /\ TypeOK /\ g \notin DOMAIN req[s].w.tags
      BY <2>1, FreeFacts DEF IInv
    <3>2. ~OldType(req[s].w, t)
      BY <2>1, <2>2, <3>1 DEF Sound
    <3>3. CASE l = tags[g].slug
      <4>1. \A h \in Tags : NewTag(req[s].w, h) => h # g /\ ~SameSlug(tags[g], req[s].w.tags[h])
        BY <2>1, <3>1 DEF Sound, NewTag
      <4> QED
        BY <3>2, <3>3, <4>1 DEF SameSlug
    <3>4. CASE l # tags[g].slug
      BY <2>2, <3>1, <3>2, <3>4, FreeFacts DEF UpdateTag
    <3> QED
      BY <3>3, <3>4
  <2> QED
    BY <1>2, <2>1, <2>2, <2>3, <2>4, TagWriteStep DEF UpdateTag, Flush
<1> QED
  BY <1>1, <1>2

----
(* Deleting tags: the step writes w, in which the tags of D are dropped    *)
(* with their taggings, and adds pairs of tags outside D only.             *)
LEMMA DropStep ==
  ASSUME IInv, NEW r \in Requests, NEW w \in WriteSets, NEW D \in SUBSET Tags,
         w.types = None, DOMAIN w.tags = D, \A g \in D : w.tags[g] = Dropped,
         \A g \in D : RowsOf(g) \subseteq w.del,
         \A p \in w.add : p[2] \notin D /\ HasTag(p[2]),
         \A s \in Requests \ {r} : \A p \in w.add : ~OldTag(req[s].w, p[2]),
         \A s \in Requests \ {r} : DOMAIN req[s].w.tags \cap D = {},
         \A s \in Requests \ {r} : \A p \in req[s].w.add : p[2] \notin D
  PROVE  Sound(w) /\ \A s \in Requests \ {r} : Apart(w, req[s].w) /\ Apart(req[s].w, w)
<1>1. /\ \A g : ~NewTag(w, g)
      /\ \A g : OldTag(w, g) <=> g \in D
      /\ \A t : ~NewType(w, t) /\ ~OldType(w, t)
      /\ DOMAIN w.types = {}
  BY NothingWritten DEF NewTag, OldTag, NewType, OldType
<1>2. Sound(w)
  BY <1>1 DEF Sound
<1>3. \A s \in Requests \ {r} : Apart(w, req[s].w)
  BY <1>1 DEF Apart
<1>4. \A s \in Requests \ {r} : Apart(req[s].w, w)
  BY <1>1 DEF Apart
<1> QED
  BY <1>2, <1>3, <1>4

LEMMA DeleteTagStep ==
  ASSUME IInv, NEW r \in Requests, NEW g \in Tags, DeleteTag(r, g)
  PROVE  IInv'
<1> DEFINE w == [NoWrites EXCEPT !.tags = Only(g, Dropped), !.del = RowsOf(g)]
<1>1. /\ Only(g, Dropped) \in Written(Tags, TagRows)
      /\ DOMAIN Only(g, Dropped) = {g} /\ Only(g, Dropped)[g] = Dropped
  BY OnlyTag
<1>2. RowsOf(g) \subseteq Items \X Tags
  BY DEF IInv, TypeOK, RowsOf
<1>3. /\ w \in WriteSets /\ w.tags = Only(g, Dropped) /\ w.types = None
      /\ w.add = {} /\ w.del = RowsOf(g)
  BY <1>1, <1>2, NothingWritten DEF WriteSets
<1>4. Move(r, "flushed", w) /\ UNCHANGED Rows
  BY DEF DeleteTag, Flush
<1> HIDE DEF w
<1>5. \A s \in Requests \ {r} : /\ DOMAIN req[s].w.tags \cap {g} = {}
                                /\ \A p \in req[s].w.add : p[2] \notin {g}
  BY FreeFacts DEF DeleteTag, TagUnused, IInv
<1>6. {g} \in SUBSET Tags
  OBVIOUS
<1>7. Sound(w) /\ \A s \in Requests \ {r} : Apart(w, req[s].w) /\ Apart(req[s].w, w)
  BY <1>1, <1>3, <1>5, <1>6, DropStep
<1> QED
  BY <1>3, <1>4, <1>7, FlushStep

(* The reader's transaction deletes the inactive tags it has loaded. *)
LEMMA DeleteOrphansStep ==
  ASSUME IInv, NEW r \in Requests, DeleteOrphans(r)
  PROVE  IInv'
<1> DEFINE gone == {g \in req[r].seen : HasTag(g)}
           rows == UNION {RowsOf(g) : g \in gone}
           f == [g \in gone |-> Dropped]
           w == [NoWrites EXCEPT !.tags = f, !.del = rows]
<1>1. gone \in SUBSET Tags
  BY DEF IInv, SeenTags, DeleteOrphans
<1>2. Move(r, "cleared", w) /\ UNCHANGED Rows /\ \A g \in gone : TagUnused(r, g)
  BY DEF DeleteOrphans
<1>3. rows \subseteq Items \X Tags /\ \A g \in gone : RowsOf(g) \subseteq rows
  BY DEF IInv, TypeOK, RowsOf
<1> HIDE DEF rows, gone
<1>4. f \in Written(Tags, TagRows)
  BY <1>1 DEF Written
<1>5. DOMAIN f = gone /\ \A g \in gone : f[g] = Dropped
  OBVIOUS
<1> HIDE DEF f
<1>6. w \in WriteSets /\ w.tags = f /\ w.types = None /\ w.add = {} /\ w.del = rows
  BY <1>3, <1>4, NothingWritten DEF WriteSets
<1> HIDE DEF w
<1>7. \A s \in Requests \ {r} : /\ DOMAIN req[s].w.tags \cap gone = {}
                                /\ \A p \in req[s].w.add : p[2] \notin gone
  BY <1>1, <1>2, FreeFacts DEF TagUnused, IInv
<1>8. Sound(w) /\ \A s \in Requests \ {r} : Apart(w, req[s].w) /\ Apart(req[s].w, w)
  BY <1>1, <1>3, <1>5, <1>6, <1>7, DropStep
<1> QED
  BY <1>2, <1>6, <1>8, FlushStep

LEMMA TagItemStep ==
  ASSUME IInv, NEW r \in Requests, NEW i \in Items, NEW g \in Tags, TagItem(r, i, g)
  PROVE  IInv'
<1> DEFINE w == [NoWrites EXCEPT !.add = {<<i, g>>}]
<1>1. CASE ~HasTag(g) \/ <<i, g>> \in tagged
  BY <1>1, EndStep DEF TagItem
<1>2. CASE ~(~HasTag(g) \/ <<i, g>> \in tagged)
  <2>1. Move(r, "cleared", w) /\ UNCHANGED Rows /\ HasTag(g) /\ TagFree(r, g)
    BY <1>2 DEF TagItem
  <2>2. /\ w \in WriteSets /\ w.types = None /\ w.tags = None /\ w.del = {}
        /\ w.add = {<<i, g>>}
    BY NothingWritten DEF WriteSets
  <2> HIDE DEF w
  <2>3. \A s \in Requests \ {r} : ~OldTag(req[s].w, g)
    BY <2>1, FreeFacts DEF OldTag, IInv
  <2>4. \A p \in w.add : p[2] = g
    BY <2>2
  <2>5. {} \in SUBSET Tags /\ DOMAIN w.tags = {}
    BY <2>2, NothingWritten
  <2>6. Sound(w) /\ \A s \in Requests \ {r} : Apart(w, req[s].w) /\ Apart(req[s].w, w)
    BY <2>1, <2>2, <2>3, <2>4, <2>5, DropStep
  <2> QED
    BY <2>1, <2>2, <2>6, FlushStep
<1> QED
  BY <1>1, <1>2

(* A PATCH deletes pairs of its item, then adds pairs of tags that nobody  *)
(* is deleting.                                                            *)
LEMMA ReplaceTagsStep ==
  ASSUME IInv, NEW r \in Requests, NEW i \in Items, NEW G \in SUBSET Tags, ReplaceTags(r, i, G)
  PROVE  IInv'
<1> DEFINE w == [NoWrites EXCEPT !.del = {p \in tagged : p[1] = i}]
           put == {i} \X G
           q == [req[r] EXCEPT !.pc = "replacing", !.w = w, !.put = put]
<1>1. /\ req' = [req EXCEPT ![r] = q]
      /\ TypeOK /\ UNCHANGED <<types, tags, tagged>> /\ cache' \in Trees
  BY DEF ReplaceTags, Rows, IInv, TypeOK
<1>2. /\ w \in WriteSets /\ w.types = None /\ w.tags = None /\ w.add = {}
  BY <1>1, NothingWritten DEF WriteSets, TypeOK
<1> HIDE DEF w
<1>3. put \in SUBSET (Items \X Tags)
  OBVIOUS
<1> HIDE DEF put
<1>4. q \in Transactions /\ q.pc = "replacing" /\ q.w = w
  <2>1. req[r] \in Transactions /\ "replacing" \in PCs
    BY <1>1 DEF TypeOK, PCs
  <2> QED
    BY <1>2, <1>3, <2>1 DEF Transactions
<1> HIDE DEF q
<1>5. /\ req' \in [Requests -> Transactions] /\ req'[r] = q
      /\ \A s \in Requests \ {r} : req'[s] = req[s]
  BY <1>1, <1>4 DEF TypeOK
<1>6. {} \in SUBSET Tags /\ DOMAIN w.tags = {}
  BY <1>2, NothingWritten
<1>7. Sound(w) /\ \A s \in Requests \ {r} : Apart(w, req[s].w) /\ Apart(req[s].w, w)
  BY <1>2, <1>6, DropStep
<1> QED
  BY <1>1, <1>4, <1>5, <1>7, OwnStep

LEMMA InsertTagsStep ==
  ASSUME IInv, NEW r \in Requests, InsertTags(r)
  PROVE  IInv'
<1> DEFINE v == req[r].w
           put == req[r].put
           w == [NoWrites EXCEPT !.del = v.del, !.add = put]
<1>1. CASE End(r) /\ UNCHANGED Rows
  BY <1>1, EndStep
<1>2. CASE ~(End(r) /\ UNCHANGED Rows)
  <2>1. /\ TypeOK /\ req[r].pc = "replacing" /\ Move(r, "cleared", w) /\ UNCHANGED Rows
        /\ \A p \in put : HasTag(p[2]) /\ TagFree(r, p[2])
    BY <1>2 DEF InsertTags, IInv
  <2>2. v \in WriteSets /\ put \in SUBSET (Items \X Tags)
    BY <2>1 DEF TypeOK, Transactions
  <2>3. w \in WriteSets /\ w.types = None /\ w.tags = None /\ w.add = put /\ w.del = v.del
    BY <2>2, NothingWritten DEF WriteSets
  <2> HIDE DEF w
  <2>4. \A s \in Requests \ {r} : \A p \in w.add : ~OldTag(req[s].w, p[2])
    BY <2>1, <2>2, <2>3, FreeFacts DEF OldTag
  <2>5. {} \in SUBSET Tags /\ DOMAIN w.tags = {}
    BY <2>3, NothingWritten
  <2>6. Sound(w) /\ \A s \in Requests \ {r} : Apart(w, req[s].w) /\ Apart(req[s].w, w)
    BY <2>1, <2>3, <2>4, <2>5, DropStep
  <2> QED
    BY <2>1, <2>3, <2>6, FlushStep
<1> QED
  BY <1>1, <1>2

----
(* The steps of a merge. *)
LEMMA MergeLoadStep ==
  ASSUME IInv, NEW r \in Requests, NEW a \in Tags, NEW b \in Tags, MergeLoad(r, a, b)
  PROVE  IInv'
<1>1. CASE ~(HasTag(a) /\ HasTag(b))
  BY <1>1, EndStep DEF MergeLoad
<1>2. CASE HasTag(a) /\ HasTag(b)
  <2> DEFINE q == [req[r] EXCEPT !.pc = "merge", !.source = a, !.target = b]
  <2>1. /\ req' = [req EXCEPT ![r] = q] /\ a # b
        /\ TypeOK /\ UNCHANGED <<types, tags, tagged>> /\ cache' \in Trees
    BY <1>2 DEF MergeLoad, Rows, IInv, TypeOK
  <2>2. q \in Transactions /\ q.pc = "merge" /\ q.w = req[r].w /\ q.source = a /\ q.target = b
    BY <2>1 DEF TypeOK, Transactions, PCs
  <2> HIDE DEF q
  <2>3. /\ req' \in [Requests -> Transactions] /\ req'[r] = q
        /\ \A s \in Requests \ {r} : req'[s] = req[s]
    BY <2>1, <2>2 DEF TypeOK
  <2> QED
    BY <2>1, <2>2, <2>3, SameWrites
<1> QED
  BY <1>1, <1>2

(* The rows that are moved get the target, which nobody is deleting. *)
LEMMA MergeUpdateStep ==
  ASSUME IInv, NEW r \in Requests, MergeUpdate(r)
  PROVE  IInv'
<1> DEFINE a == req[r].source
           b == req[r].target
           movable == {i \in Items : <<i, a>> \in tagged /\ <<i, b>> \notin tagged}
           w == [NoWrites EXCEPT !.del = movable \X {a}, !.add = movable \X {b}]
           seen == {p[1] : p \in RowsOf(a)}
           q == [req[r] EXCEPT !.pc = "updated", !.w = w, !.seen = seen]
<1>1. CASE movable # {} /\ ~HasTag(b)
  BY <1>1, EndStep DEF MergeUpdate
<1>2. CASE ~(movable # {} /\ ~HasTag(b))
  <2>1. /\ req' = [req EXCEPT ![r] = q] /\ req[r].pc = "merge"
        /\ TypeOK /\ UNCHANGED <<types, tags, tagged>> /\ cache' \in Trees
        /\ movable # {} => TagFree(r, b) /\ HasTag(b)
    BY <1>2 DEF MergeUpdate, Rows, IInv, TypeOK
  <2>2. a \in Tags /\ b \in Tags /\ a # b
    BY <2>1 DEF IInv, MergeShape, Merging
  <2>3. movable \in SUBSET Items /\ seen \in SUBSET (Items \cup Tags)
    BY <2>1 DEF TypeOK, RowsOf
  <2> HIDE DEF movable, seen
  <2>4. /\ w \in WriteSets /\ w.types = None /\ w.tags = None
        /\ w.del = movable \X {a} /\ w.add = movable \X {b}
    BY <2>2, <2>3, NothingWritten DEF WriteSets
  <2> HIDE DEF w
  <2>5. /\ q \in Transactions /\ q.pc = "updated" /\ q.w = w
        /\ q.source = a /\ q.target = b
    <3>1. req[r] \in Transactions /\ "updated" \in PCs
      BY <2>1 DEF TypeOK, PCs
    <3> QED
      BY <2>3, <2>4, <3>1 DEF Transactions
  <2> HIDE DEF q
  <2>6. /\ req' \in [Requests -> Transactions] /\ req'[r] = q
        /\ \A s \in Requests \ {r} : req'[s] = req[s]
    BY <2>1, <2>5 DEF TypeOK
  <2>7. \A p \in w.add : p[2] = b /\ HasTag(b) /\ TagFree(r, b)
    BY <2>1, <2>4
  <2> HIDE DEF a, b
  <2>8. \A s \in Requests \ {r} : \A p \in w.add : ~OldTag(req[s].w, p[2])
    BY <2>1, <2>2, <2>7, FreeFacts DEF OldTag
  <2>9. {} \in SUBSET Tags /\ DOMAIN w.tags = {}
    BY <2>4, NothingWritten
  <2>10. Sound(w) /\ \A s \in Requests \ {r} : Apart(w, req[s].w) /\ Apart(req[s].w, w)
    BY <2>4, <2>7, <2>8, <2>9, DropStep
  <2> QED
    BY <2>1, <2>2, <2>4, <2>5, <2>6, <2>7, <2>10, OwnStep
<1> QED
  BY <1>1, <1>2

(* Deleting more rows disturbs nobody. *)
LEMMA MergeDeleteRowsStep ==
  ASSUME IInv, NEW r \in Requests, MergeDeleteRows(r)
  PROVE  IInv'
<1> DEFINE v == req[r].w
           rows == RowsOf(req[r].source) \ v.del
           w == [v EXCEPT !.del = v.del \cup rows]
<1>1. /\ TypeOK /\ UNCHANGED <<types, tags, tagged>> /\ cache' \in Trees
      /\ req[r].pc = "updated" /\ Move(r, "pruned", w)
  BY DEF MergeDeleteRows, Rows, IInv, TypeOK
<1>2. rows \subseteq Items \X Tags /\ v \in WriteSets
  BY <1>1 DEF TypeOK, RowsOf, Transactions
<1> HIDE DEF rows
<1>3. /\ w \in WriteSets /\ w.types = v.types /\ w.tags = v.tags /\ w.add = v.add
      /\ w.del = v.del \cup rows
  BY <1>2 DEF WriteSets
<1> HIDE DEF w
<1>4. /\ req' \in [Requests -> Transactions]
      /\ req'[r].pc = "pruned" /\ req'[r].w = w
      /\ req'[r].source = req[r].source /\ req'[r].target = req[r].target
      /\ \A s \in Requests \ {r} : req'[s] = req[s]
  BY <1>1, <1>3, MoveFacts DEF PCs
<1>5. Sound(v) => Sound(w)
  BY <1>3 DEF Sound, NewType, OldType, NewTag, OldTag
<1>6. \A u : (Apart(v, u) => Apart(w, u)) /\ (Apart(u, v) => Apart(u, w))
  BY <1>3 DEF Apart, NewType, OldType, NewTag, OldTag
<1>7. Sound(v) /\ \A s \in Requests \ {r} : Apart(v, req[s].w) /\ Apart(req[s].w, v)
  BY DEF IInv
<1>8. /\ req[r].source \in Tags /\ req[r].target \in Tags /\ req[r].source # req[r].target
      /\ v.types = None /\ \A p \in v.add : p[2] = req[r].target
  BY <1>1 DEF IInv, MergeShape, Merging
<1> QED
  BY <1>1, <1>3, <1>4, <1>5, <1>6, <1>7, <1>8, OwnStep

LEMMA MergeDeleteSourceStep ==
  ASSUME IInv, NEW r \in Requests, MergeDeleteSource(r)
  PROVE  IInv'
<1> DEFINE v == req[r].w
           a == req[r].source
           w == [v EXCEPT !.tags = Only(a, Dropped), !.del = v.del \cup RowsOf(a)]
<1>1. /\ TypeOK /\ UNCHANGED <<types, tags, tagged>> /\ cache' \in Trees
      /\ req[r].pc = "pruned" /\ Move(r, "flushed", w) /\ TagUnused(r, a)
  BY DEF MergeDeleteSource, Rows, IInv, TypeOK
<1>2. /\ a \in Tags /\ req[r].target \in Tags /\ a # req[r].target
      /\ v.types = None /\ \A p \in v.add : p[2] = req[r].target
  BY <1>1 DEF IInv, MergeShape, Merging
<1>3. /\ Only(a, Dropped) \in Written(Tags, TagRows)
      /\ DOMAIN Only(a, Dropped) = {a} /\ Only(a, Dropped)[a] = Dropped
  BY <1>2, OnlyTag
<1>4. RowsOf(a) \subseteq Items \X Tags /\ v \in WriteSets
  BY <1>1 DEF TypeOK, RowsOf, Transactions
<1>5. /\ w \in WriteSets /\ w.types = v.types /\ w.tags = Only(a, Dropped) /\ w.add = v.add
      /\ w.del = v.del \cup RowsOf(a)
  BY <1>3, <1>4 DEF WriteSets
<1> HIDE DEF w
<1>6. \A p \in v.add : HasTag(p[2])
  BY DEF IInv, Sound
<1>7. \A s \in Requests \ {r} : \A p \in v.add : ~OldTag(req[s].w, p[2])
  BY DEF IInv, Apart
<1>8. \A s \in Requests \ {r} : /\ DOMAIN req[s].w.tags \cap {a} = {}
                                /\ \A p \in req[s].w.add : p[2] \notin {a}
  BY <1>1, <1>2, FreeFacts DEF TagUnused
<1>9. {a} \in SUBSET Tags /\ RowsOf(a) \subseteq w.del
  BY <1>2, <1>5
<1>10. Sound(w) /\ \A s \in Requests \ {r} : Apart(w, req[s].w) /\ Apart(req[s].w, w)
  BY <1>2, <1>3, <1>5, <1>6, <1>7, <1>8, <1>9, DropStep
<1> QED
  BY <1>1, <1>5, <1>10, FlushStep DEF Rows, MergeDeleteSource

----
LEMMA AbortStep ==
  ASSUME IInv, NEW r \in Requests, Abort(r)
  PROVE  IInv'
BY EndStep DEF Abort

LEMMA InvalidateStep ==
  ASSUME IInv, NEW r \in Requests, Invalidate(r)
  PROVE  IInv'
<1>1. /\ TypeOK /\ UNCHANGED <<types, tags, tagged>> /\ cache' \in Trees
      /\ Move(r, "cleared", req[r].w) /\ req[r].w \in WriteSets
  BY DEF Invalidate, IInv, TypeOK, Trees, Transactions
<1>2. /\ req' \in [Requests -> Transactions]
      /\ req'[r].pc = "cleared" /\ req'[r].w = req[r].w
      /\ \A s \in Requests \ {r} : req'[s] = req[s]
  BY <1>1, MoveFacts DEF PCs
<1> QED
  BY <1>1, <1>2, SameWrites

LEMMA TreeIsTree == TypeOK => Tree \in Trees
<1> SUFFICES ASSUME TypeOK PROVE Tree \in Trees
  OBVIOUS
<1>1. \A t \in Filterable : t \in Types /\ types[t].name \in Names
  BY DEF TypeOK, Filterable, HasType, TypeRows, TypeRow
<1>2. \A g \in Tags : HasTag(g) => tags[g].type \in Types /\ tags[g].slug \in Slugs
  BY DEF TypeOK, HasTag, TagRows, TagRow
<1> QED
  BY <1>1, <1>2 DEF Tree, Trees

LEMMA ReadMissStep ==
  ASSUME IInv, NEW r \in Requests, ReadMiss(r)
  PROVE  IInv'
<1> DEFINE seen == {g \in Tags : /\ HasTag(g) /\ ~tags[g].active
                                 /\ tags[g].type \in Filterable}
           tree == Tree
           q == [req[r] EXCEPT !.pc = "read", !.tree = tree, !.seen = seen]
<1>1. /\ TypeOK /\ UNCHANGED <<types, tags, tagged>> /\ cache' \in Trees
      /\ req' = [req EXCEPT ![r] = q] /\ seen \in SUBSET Tags
  BY DEF ReadMiss, Rows, IInv, TypeOK
<1>2. tree \in Trees
  BY <1>1, TreeIsTree
<1> HIDE DEF seen, tree
<1>3. q \in Transactions /\ q.pc = "read" /\ q.w = req[r].w /\ q.seen = seen
  BY <1>1, <1>2 DEF TypeOK, Transactions, PCs
<1> HIDE DEF q
<1>4. /\ req' \in [Requests -> Transactions] /\ req'[r] = q
      /\ \A s \in Requests \ {r} : req'[s] = req[s]
  BY <1>1, <1>3 DEF TypeOK
<1> QED
  BY <1>1, <1>3, <1>4, SameWrites

LEMMA StoreStep ==
  ASSUME IInv, NEW r \in Requests, Store(r)
  PROVE  IInv'
<1> DEFINE q == [req[r] EXCEPT !.pc = "stored"]
<1>1. /\ TypeOK /\ UNCHANGED <<types, tags, tagged>>
      /\ req' = [req EXCEPT ![r] = q] /\ req[r].pc = "read"
      /\ cache' \in {req[r].tree, cache}
  BY DEF Store, IInv
<1>2. q \in Transactions /\ q.pc = "stored" /\ q.w = req[r].w /\ q.seen = req[r].seen
  BY <1>1 DEF TypeOK, Transactions, PCs
<1> HIDE DEF q
<1>3. /\ req' \in [Requests -> Transactions] /\ req'[r] = q /\ cache' \in Trees
      /\ \A s \in Requests \ {r} : req'[s] = req[s]
  BY <1>1, <1>2 DEF TypeOK, Transactions
<1>4. req[r].seen \subseteq Tags
  BY <1>1 DEF IInv, SeenTags
<1> QED
  BY <1>1, <1>2, <1>3, <1>4, SameWrites

LEMMA ExpireStep == IInv /\ Expire => IInv'
<1> SUFFICES ASSUME IInv, Expire PROVE IInv'
  OBVIOUS
<1>1. UNCHANGED <<types, tags, tagged, req>> /\ cache' \in Trees
  BY DEF Expire, Trees
<1>2. TypeOK' /\ ConstraintsHold' /\ MergeShape' /\ SeenTags'
  BY <1>1 DEF IInv, TypeOK, ConstraintsHold, HasType, HasTag, MergeShape, Merging, SeenTags
<1>3. \A r \in Requests : Sound(req[r].w)'
  BY <1>1 DEF IInv, Sound, HasType, HasTag, RowsOf, NewType, OldType, NewTag, OldTag
<1>4. \A r, s \in Requests : r # s => Apart(req[r].w, req[s].w)'
  BY <1>1 DEF IInv, Apart, NewType, OldType, NewTag, OldTag
<1> QED
  BY <1>2, <1>3, <1>4 DEF IInv

----
(* The commit of w leaves another request as it is, its history apart. *)
KeepsGoing(s, w) ==
    /\ \A f \in {"pc", "w", "source", "target"} : req'[s][f] = req[s][f]
    /\ req'[s].seen = req[s].seen \ LosesTarget(s, w)

LEMMA CommittedRequests ==
  ASSUME TypeOK, NEW r \in Requests, Commit(r)
  PROVE  /\ req' \in [Requests -> Transactions]
         /\ req'[r].pc \in {"idle", "done"} /\ req'[r].w = NoWrites /\ req'[r].source = NoRow
         /\ \A s \in Requests \ {r} : KeepsGoing(s, req[r].w)
<1> DEFINE q(s) == IF s = r THEN Ended(r)
                   ELSE [req[s] EXCEPT !.seen = @ \ LosesTarget(s, req[r].w)]
<1>1. req' = [s \in Requests |-> q(s)]
  BY DEF Commit
<1>2. /\ Ended(r) \in Transactions /\ Ended(r).pc \in {"idle", "done"}
      /\ Ended(r).w = NoWrites /\ Ended(r).source = NoRow
  BY IdleFacts DEF Ended, PCs
<1>3. ASSUME NEW s \in Requests \ {r}
      PROVE  /\ q(s) \in Transactions /\ q(s).pc = req[s].pc /\ q(s).w = req[s].w
             /\ q(s).source = req[s].source /\ q(s).target = req[s].target
             /\ q(s).seen = req[s].seen \ LosesTarget(s, req[r].w)
  BY DEF TypeOK, Transactions
<1>4. q(r) = Ended(r)
  OBVIOUS
<1>5. \A s \in Requests : q(s) \in Transactions
  BY <1>2, <1>3, <1>4
<1> HIDE DEF q
<1> QED
  BY <1>1, <1>2, <1>3, <1>4, <1>5 DEF KeepsGoing

(* What the commit of w makes of the tables. *)
LEMMA CommittedRows ==
  ASSUME IInv, NEW r \in Requests, Commit(r), NEW w, w = req[r].w
  PROVE  /\ TypeOK' /\ w \in WriteSets
         /\ \A t \in Types : /\ NewType(w, t) => types'[t] = w.types[t] /\ HasType(t)'
                             /\ OldType(w, t) => ~HasType(t)'
                             /\ t \notin DOMAIN w.types => types'[t] = types[t]
                             /\ HasType(t)' /\ ~NewType(w, t) => HasType(t) /\ types'[t] = types[t]
                             /\ HasType(t) /\ ~OldType(w, t) => HasType(t)'
         /\ \A g \in Tags : /\ NewTag(w, g) => tags'[g] = w.tags[g] /\ HasTag(g)'
                            /\ OldTag(w, g) => tags'[g] = Dropped /\ ~HasTag(g)'
                            /\ g \notin DOMAIN w.tags => tags'[g] = tags[g]
                            /\ HasTag(g)' /\ ~NewTag(w, g) => HasTag(g) /\ tags'[g] = tags[g]
                            /\ HasTag(g) /\ ~OldTag(w, g) => HasTag(g)'
         /\ tagged' = (tagged \ w.del) \cup w.add
         /\ req'[r].pc \in {"idle", "done"} /\ req'[r].w = NoWrites /\ req'[r].source = NoRow
         /\ \A s \in Requests \ {r} : KeepsGoing(s, w)
<1>1. /\ TypeOK /\ w \in WriteSets /\ w.types \in Written(Types, TypeRows)
      /\ w.tags \in Written(Tags, TagRows)
  BY DEF IInv, TypeOK, Transactions, WriteSets
<1>2. /\ types' = Apply(w.types, types) /\ tags' = Apply(w.tags, tags)
      /\ tagged' = (tagged \ w.del) \cup w.add /\ cache' = cache
  BY DEF Commit
<1>3. /\ types' \in [Types -> TypeRows \cup {NoRow, Dropped}]
      /\ \A t \in Types : types'[t] = IF t \in DOMAIN w.types THEN w.types[t] ELSE types[t]
  BY <1>1, <1>2, WrittenFacts DEF TypeOK, Apply
<1>4. /\ tags' \in [Tags -> TagRows \cup {NoRow, Dropped}]
      /\ \A g \in Tags : tags'[g] = IF g \in DOMAIN w.tags THEN w.tags[g] ELSE tags[g]
  BY <1>1, <1>2, WrittenFacts DEF TypeOK, Apply
<1>5. /\ \A t \in Types : NewType(w, t) => w.types[t] \in TypeRows
      /\ \A g \in Tags : NewTag(w, g) => w.tags[g] \in TagRows
  BY <1>1, WrittenFacts DEF NewType, NewTag
<1>6. /\ req' \in [Requests -> Transactions]
      /\ req'[r].pc \in {"idle", "done"} /\ req'[r].w = NoWrites /\ req'[r].source = NoRow
      /\ \A s \in Requests \ {r} : KeepsGoing(s, w)
  BY <1>1, CommittedRequests
<1>7. TypeOK'
  BY <1>1, <1>2, <1>3, <1>4, <1>6 DEF TypeOK, WriteSets
<1>8. \A t \in Types : /\ NewType(w, t) => types'[t] = w.types[t] /\ HasType(t)'
                       /\ OldType(w, t) => ~HasType(t)'
                       /\ t \notin DOMAIN w.types => types'[t] = types[t]
                       /\ HasType(t)' /\ ~NewType(w, t) => HasType(t) /\ types'[t] = types[t]
                       /\ HasType(t) /\ ~OldType(w, t) => HasType(t)'
  BY <1>3, <1>5, TaxonomyAssumption DEF HasType, NewType, OldType
<1>9. \A g \in Tags : /\ NewTag(w, g) => tags'[g] = w.tags[g] /\ HasTag(g)'
                      /\ OldTag(w, g) => tags'[g] = Dropped /\ ~HasTag(g)'
                      /\ g \notin DOMAIN w.tags => tags'[g] = tags[g]
                      /\ HasTag(g)' /\ ~NewTag(w, g) => HasTag(g) /\ tags'[g] = tags[g]
                      /\ HasTag(g) /\ ~OldTag(w, g) => HasTag(g)'
  BY <1>4, <1>5, TaxonomyAssumption DEF HasTag, NewTag, OldTag
<1> QED
  BY <1>1, <1>2, <1>6, <1>7, <1>8, <1>9

(* The types that committed and new tags refer to. *)
LEMMA TypesOfTags ==
  ASSUME TypeOK
  PROVE  /\ \A g \in Tags : HasTag(g) => tags[g].type \in Types
         /\ \A r \in Requests, g \in Tags : NewTag(req[r].w, g) => req[r].w.tags[g].type \in Types
         /\ \A p \in tagged : p[2] \in Tags
         /\ \A r \in Requests : \A p \in req[r].w.add : p[2] \in Tags
<1>1. \A g \in Tags : HasTag(g) => tags[g].type \in Types
  BY DEF TypeOK, HasTag, TagRows, TagRow
<1>2. ASSUME NEW r \in Requests, NEW g \in Tags, NewTag(req[r].w, g)
      PROVE  req[r].w.tags[g].type \in Types
  <2>1. req[r].w.tags \in Written(Tags, TagRows)
    BY DEF TypeOK, Transactions, WriteSets
  <2>2. req[r].w.tags[g] \in TagRows
    BY <1>2, <2>1, WrittenFacts DEF NewTag
  <2> QED
    BY <2>2 DEF TagRows, TagRow
<1>3. \A p \in tagged : p[2] \in Tags
  BY DEF TypeOK
<1>4. \A r \in Requests : \A p \in req[r].w.add : p[2] \in Tags
  BY DEF TypeOK, Transactions, WriteSets
<1> QED
  BY <1>1, <1>2, <1>3, <1>4

LEMMA CommitKeepsConstraints ==
  ASSUME IInv, NEW r \in Requests, Commit(r), NEW w, w = req[r].w
  PROVE  ConstraintsHold'
<1>1. /\ TypeOK /\ TypeOK' /\ ConstraintsHold /\ Sound(w)
      /\ tagged' = (tagged \ w.del) \cup w.add
      /\ \A t \in Types : /\ NewType(w, t) => types'[t] = w.types[t] /\ HasType(t)'
                          /\ HasType(t)' /\ ~NewType(w, t) => HasType(t) /\ types'[t] = types[t]
                          /\ HasType(t) /\ ~OldType(w, t) => HasType(t)'
      /\ \A g \in Tags : /\ NewTag(w, g) => tags'[g] = w.tags[g] /\ HasTag(g)'
                         /\ HasTag(g)' /\ ~NewTag(w, g) => HasTag(g) /\ tags'[g] = tags[g]
                         /\ HasTag(g) /\ ~OldTag(w, g) => HasTag(g)'
  BY CommittedRows DEF IInv
<1>2. /\ \A g \in Tags : HasTag(g) => tags[g].type \in Types
      /\ \A g \in Tags : NewTag(w, g) => w.tags[g].type \in Types
      /\ \A p \in tagged : p[2] \in Tags
      /\ \A p \in w.add : p[2] \in Tags
  BY <1>1, TypesOfTags
<1>3. ASSUME NEW t \in Types, NEW u \in Types, HasType(t)', HasType(u)',
             types'[t].name = types'[u].name
      PROVE  t = u
  BY <1>1, <1>3 DEF Sound, ConstraintsHold
<1>4. ASSUME NEW g \in Tags, HasTag(g)'
      PROVE  HasType(tags[g].type)'
  <2>1. CASE NewTag(w, g)
    BY <1>1, <1>2, <2>1 DEF Sound
  <2>2. CASE ~NewTag(w, g)
    <3>1. HasTag(g) /\ tags'[g] = tags[g]
      BY <1>1, <1>4, <2>2
    <3>2. HasType(tags[g].type) /\ ~OldType(w, tags[g].type)
      BY <1>1, <1>2, <3>1 DEF ConstraintsHold, Sound
    <3> QED
      BY <1>1, <1>2, <3>1, <3>2
  <2> QED
    BY <2>1, <2>2
<1>5. ASSUME NEW g \in Tags, NEW h \in Tags \ {g}, HasTag(g)', HasTag(h)'
      PROVE  ~SameSlug(tags'[g], tags'[h])
  BY <1>1, <1>5 DEF Sound, ConstraintsHold, SameSlug
<1>6. ASSUME NEW p \in tagged'
      PROVE  HasTag(p[2])'
  <2>1. CASE p \in w.add
    BY <1>1, <1>2, <2>1 DEF Sound
  <2>2. CASE p \in tagged /\ p \notin w.del
    <3>1. HasTag(p[2]) /\ p \in RowsOf(p[2])
      BY <1>1, <2>2 DEF ConstraintsHold, RowsOf
    <3> QED
      BY <1>1, <1>2, <2>2, <3>1 DEF Sound
  <2> QED
    BY <1>1, <2>1, <2>2
<1> QED
  BY <1>3, <1>4, <1>5, <1>6 DEF ConstraintsHold, SameSlug

(* The rows of another request stay sound when w is committed. *)
LEMMA CommitKeepsSound ==
  ASSUME IInv, NEW r \in Requests, Commit(r), NEW s \in Requests \ {r},
         NEW w, w = req[r].w, NEW v, v = req[s].w
  PROVE  Sound(v)'
<1>1. /\ TypeOK /\ Sound(v) /\ Apart(v, w) /\ Apart(w, v)
      /\ tagged' = (tagged \ w.del) \cup w.add
      /\ \A t \in Types : /\ NewType(w, t) => types'[t] = w.types[t] /\ HasType(t)'
                          /\ HasType(t)' /\ ~NewType(w, t) => HasType(t) /\ types'[t] = types[t]
                          /\ HasType(t) /\ ~OldType(w, t) => HasType(t)'
      /\ \A g \in Tags : /\ NewTag(w, g) => tags'[g] = w.tags[g] /\ HasTag(g)'
                         /\ HasTag(g)' /\ ~NewTag(w, g) => HasTag(g) /\ tags'[g] = tags[g]
                         /\ HasTag(g) /\ ~OldTag(w, g) => HasTag(g)'
                         /\ g \notin DOMAIN w.tags => tags'[g] = tags[g]
      /\ req'[s].w = v
  BY CommittedRows DEF IInv, KeepsGoing
<1>2. /\ \A g \in Tags : HasTag(g) => tags[g].type \in Types
      /\ \A g \in Tags : NewTag(w, g) => w.tags[g].type \in Types
      /\ \A g \in Tags : NewTag(v, g) => v.tags[g].type \in Types
      /\ \A p \in v.add : p[2] \in Tags
  BY <1>1, TypesOfTags
<1>3. ASSUME NEW t \in Types, NewType(v, t), NEW u \in Types
      PROVE  /\ u # t /\ HasType(u)' => types'[u].name # v.types[t].name
             /\ u # t /\ NewType(v, u) => v.types[u].name # v.types[t].name
  BY <1>1, <1>3 DEF Sound, Apart
<1>4. ASSUME NEW t \in Types, OldType(v, t), NEW g \in Tags, HasTag(g)'
      PROVE  tags'[g].type # t
  BY <1>1, <1>4 DEF Sound, Apart
<1>5. ASSUME NEW g \in Tags, NewTag(v, g)
      PROVE  /\ tags'[g] # Dropped
             /\ HasType(v.tags[g].type)' /\ ~OldType(v, v.tags[g].type)
             /\ \A h \in Tags : /\ h # g /\ HasTag(h)' => ~SameSlug(tags'[h], v.tags[g])
                                /\ h # g /\ NewTag(v, h) => ~SameSlug(v.tags[h], v.tags[g])
  <2>1. g \notin DOMAIN w.tags /\ tags'[g] # Dropped
    BY <1>1, <1>5 DEF Sound, Apart, NewTag
  <2>2. HasType(v.tags[g].type)' /\ ~OldType(v, v.tags[g].type)
    BY <1>1, <1>2, <1>5 DEF Sound, Apart
  <2>3. ASSUME NEW h \in Tags, h # g
        PROVE  /\ HasTag(h)' => ~SameSlug(tags'[h], v.tags[g])
               /\ NewTag(v, h) => ~SameSlug(v.tags[h], v.tags[g])
    BY <1>1, <1>5, <2>3 DEF Sound, Apart
  <2> QED
    BY <2>1, <2>2, <2>3
<1>6. ASSUME NEW g \in Tags, OldTag(v, g)
      PROVE  RowsOf(g)' \subseteq v.del
  BY <1>1, <1>6 DEF Sound, Apart, RowsOf
<1>7. ASSUME NEW p \in v.add
      PROVE  HasTag(p[2])' /\ ~OldTag(v, p[2])
  BY <1>1, <1>2, <1>7 DEF Sound, Apart
<1> QED
  BY <1>3, <1>4, <1>5, <1>6, <1>7 DEF Sound, NewType, OldType, NewTag, OldTag

LEMMA CommitStep ==
  ASSUME IInv, NEW r \in Requests, Commit(r)
  PROVE  IInv'
<1>1. PICK w : w = req[r].w
  OBVIOUS
<1>2. /\ TypeOK' /\ TypeOK
      /\ req'[r].pc \in {"idle", "done"} /\ req'[r].w = NoWrites
      /\ \A s \in Requests \ {r} :
             /\ req'[s].pc = req[s].pc /\ req'[s].w = req[s].w
             /\ req'[s].source = req[s].source /\ req'[s].target = req[s].target
             /\ req'[s].seen \subseteq req[s].seen
  BY <1>1, CommittedRows DEF IInv, KeepsGoing
<1>3. ConstraintsHold'
  BY <1>1, CommitKeepsConstraints
<1>4. MergeShape' /\ SeenTags'
  BY <1>2 DEF IInv, MergeShape, SeenTags, Merging
<1>5. ASSUME NEW s \in Requests
      PROVE  Sound(req[s].w)'
  <2>1. CASE s = r
    BY <1>2, <2>1, NothingWritten DEF Sound, NewType, OldType, NewTag, OldTag
  <2>2. CASE s # r
    <3>1. PICK v : v = req[s].w
      OBVIOUS
    <3>2. Sound(v)'
      BY <1>1, <2>2, <3>1, CommitKeepsSound
    <3>3. req'[s].w = v
      BY <1>2, <2>2, <3>1
    <3> QED
      BY <3>2, <3>3 DEF Sound, NewType, OldType, NewTag, OldTag
  <2> QED
    BY <2>1, <2>2
<1>6. \A s \in Requests : req[s].w \in WriteSets
  BY <1>2 DEF TypeOK, Transactions
<1>7. \A s, q \in Requests : s # q => Apart(req'[s].w, req'[q].w)
  BY <1>2, <1>6, EmptyIsApart DEF IInv
<1>8. \A s, q \in Requests : s # q => Apart(req[s].w, req[q].w)'
  BY <1>7 DEF Apart, NewType, OldType, NewTag, OldTag
<1> QED
  BY <1>2, <1>3, <1>4, <1>5, <1>8 DEF IInv

----
LEMMA InitIInv == Init => IInv
<1> SUFFICES ASSUME Init PROVE IInv
  OBVIOUS
<1>1. /\ Idle \in Transactions /\ Idle.w = NoWrites /\ Idle.pc = "idle"
  BY NothingWritten DEF Idle, Transactions, Trees, PCs
<1>2. /\ \A t \in Types : types[t] = IF t \in DOMAIN Types0 THEN Types0[t] ELSE NoRow
      /\ \A g \in Tags : tags[g] = IF g \in DOMAIN Tags0 THEN Tags0[g] ELSE NoRow
      /\ tagged = Tagged0
  BY DEF Init
<1>3. TypeOK
  BY <1>1, TaxonomyAssumption DEF Init, TypeOK, Trees
<1>4. /\ \A t \in Types : HasType(t) <=> t \in DOMAIN Types0
      /\ \A g \in Tags : HasTag(g) <=> g \in DOMAIN Tags0
  BY <1>2, TaxonomyAssumption DEF HasType, HasTag
<1>5. ConstraintsHold
  BY <1>2, <1>4, TaxonomyAssumption DEF ConstraintsHold
<1>6. \A r \in Requests : req[r].w = NoWrites /\ req[r].pc = "idle"
  BY <1>1 DEF Init
<1>7. \A r \in Requests : Sound(req[r].w)
  BY <1>6, EmptyIsSound
<1>8. \A r, s \in Requests : Apart(req[r].w, req[s].w)
  BY <1>6, NothingWritten, EmptyIsApart
<1> QED
  BY <1>3, <1>5, <1>6, <1>7, <1>8 DEF IInv, MergeShape, Merging, SeenTags

LEMMA NextIInv == IInv /\ [Next]_vars => IInv'
<1> SUFFICES ASSUME IInv, [Next]_vars PROVE IInv'
  OBVIOUS
<1>1. CASE Expire
  BY <1>1, ExpireStep
<1>2. ASSUME NEW r \in Requests, Mutate(r) PROVE IInv'
  BY <1>2, CreateTypeStep, UpdateTypeStep, DeleteTypeStep, CreateTagStep, UpdateTagStep,
     DeleteTagStep, MergeLoadStep, TagItemStep, ReplaceTagsStep, TaxonomyAssumption DEF Mutate
<1>3. ASSUME NEW r \in Requests, ReadMiss(r) PROVE IInv'
  BY <1>3, ReadMissStep
<1>4. ASSUME NEW r \in Requests, Continue(r) PROVE IInv'
  BY <1>4, MergeUpdateStep, MergeDeleteRowsStep, MergeDeleteSourceStep, InsertTagsStep,
     InvalidateStep, CommitStep, StoreStep, DeleteOrphansStep DEF Continue
<1>5. ASSUME NEW r \in Requests, Abort(r) PROVE IInv'
  BY <1>5, AbortStep
<1>6. CASE UNCHANGED vars
  <2>1. UNCHANGED <<types, tags, tagged, cache, req>>
    BY <1>6 DEF vars
  <2>2. TypeOK' /\ ConstraintsHold' /\ MergeShape' /\ SeenTags'
    BY <2>1 DEF IInv, TypeOK, ConstraintsHold, HasType, HasTag, MergeShape, Merging, SeenTags
  <2>3. \A r \in Requests : Sound(req[r].w)'
    BY <2>1 DEF IInv, Sound, HasType, HasTag, RowsOf, NewType, OldType, NewTag, OldTag
  <2>4. \A r, s \in Requests : r # s => Apart(req[r].w, req[s].w)'
    BY <2>1 DEF IInv, Apart, NewType, OldType, NewTag, OldTag
  <2> QED
    BY <2>2, <2>3, <2>4 DEF IInv
<1> QED
  BY <1>1, <1>2, <1>3, <1>4, <1>5, <1>6 DEF Next

LEMMA IInvHolds == Spec => []IInv
BY InitIInv, NextIInv, PTL DEF Spec

(* Names and slugs stay unique, a tag keeps its type and a tagging its     *)
(* tag, however the checks of concurrent requests and their writes         *)
(* interleave (create_type, update_type, delete_type, create_tag,          *)
(* update_tag, delete_tag, merge_tags).                                    *)
THEOREM TablesStayConsistent == Spec => []ConstraintsHold
<1>1. IInv => ConstraintsHold
  BY DEF IInv
<1> QED
  BY <1>1, IInvHolds, PTL

----
(* The second invariant, step by step. *)
LEMMA CarriesStep ==
  ASSUME KInv, IInv', NEW r \in Requests, UNCHANGED <<tags, tagged>>,
         \A s \in Requests \ {r} : req'[s] = req[s], Carries(req'[r])
  PROVE  KInv'
<1>1. \A s \in Requests : Carries(req'[s])
  BY DEF KInv
<1>2. \A s \in Requests : Carries(req[s])'
  BY <1>1 DEF Carries, OldTag
<1> QED
  BY <1>2 DEF KInv

LEMMA EndCarries ==
  ASSUME KInv, IInv', NEW r \in Requests, End(r), UNCHANGED Rows
  PROVE  KInv'
<1>1. /\ req'[r].pc \in {"idle", "done"} /\ req'[r].source = NoRow
      /\ \A s \in Requests \ {r} : req'[s] = req[s]
  BY EndFacts DEF KInv, IInv
<1> QED
  BY <1>1, CarriesStep DEF Carries, Rows

(* Requests that are no merges. *)
LEMMA FlushCarries ==
  ASSUME KInv, IInv', NEW r \in Requests, NEW pc \in {"flushed", "cleared"}, NEW w,
         req[r].pc \in {"idle", "stored", "replacing"}, Move(r, pc, w), UNCHANGED Rows
  PROVE  KInv'
<1>1. TypeOK /\ req[r].source = NoRow
  BY DEF KInv, IInv, Carries
<1>2. /\ req'[r].pc = pc /\ req'[r].w = w /\ req'[r].source = NoRow
      /\ \A s \in Requests \ {r} : req'[s] = req[s]
  BY <1>1 DEF Move, TypeOK, Transactions
<1> QED
  BY <1>2, CarriesStep DEF Carries, Rows

LEMMA MutateCarries ==
  ASSUME KInv, IInv', NEW r \in Requests, Mutate(r)
  PROVE  KInv'
<1>1. ASSUME NEW w, NEW allowed, Begins(r), Flush(r, allowed, w)
      PROVE  KInv'
  BY <1>1, EndCarries, FlushCarries DEF Flush, Begins
<1>2. ASSUME NEW t \in Types, NEW n \in Names, CreateType(r, t, n) PROVE KInv'
  BY <1>1, <1>2 DEF CreateType
<1>3. ASSUME NEW t \in Types, NEW n \in Names, NEW f \in BOOLEAN, UpdateType(r, t, n, f)
      PROVE  KInv'
  BY <1>1, <1>3 DEF UpdateType
<1>4. ASSUME NEW t \in Types, DeleteType(r, t) PROVE KInv'
  BY <1>1, <1>4 DEF DeleteType
<1>5. ASSUME NEW g \in Tags, NEW t \in Types, NEW l \in Slugs, CreateTag(r, g, t, l)
      PROVE  KInv'
  BY <1>1, <1>5 DEF CreateTag
<1>6. ASSUME NEW g \in Tags, NEW l \in Slugs, NEW a \in BOOLEAN, UpdateTag(r, g, l, a)
      PROVE  KInv'
  BY <1>1, <1>6 DEF UpdateTag
<1>7. ASSUME NEW g \in Tags, DeleteTag(r, g) PROVE KInv'
  BY <1>1, <1>7 DEF DeleteTag
<1>8. ASSUME NEW a \in Tags, NEW b \in Tags, MergeLoad(r, a, b) PROVE KInv'
  <2>1. CASE ~(HasTag(a) /\ HasTag(b))
    BY <1>8, <2>1, EndCarries DEF MergeLoad
  <2>2. CASE HasTag(a) /\ HasTag(b)
    <3>1. TypeOK /\ req' = [req EXCEPT ![r] =
                [req[r] EXCEPT !.pc = "merge", !.source = a, !.target = b]]
      BY <1>8, <2>2 DEF MergeLoad, KInv, IInv
    <3>2. req'[r].pc = "merge" /\ \A s \in Requests \ {r} : req'[s] = req[s]
      BY <3>1 DEF TypeOK, Transactions
    <3> QED
      BY <1>8, <3>2, CarriesStep DEF Carries, MergeLoad, Rows
  <2> QED
    BY <2>1, <2>2
<1>9. ASSUME NEW i \in Items, NEW g \in Tags, TagItem(r, i, g) PROVE KInv'
  BY <1>9, EndCarries, FlushCarries DEF TagItem
<1>10. ASSUME NEW i \in Items, NEW G, ReplaceTags(r, i, G) PROVE KInv'
  <2> DEFINE w == [NoWrites EXCEPT !.del = {p \in tagged : p[1] = i}]
             put == {i} \X G
  <2>1. /\ TypeOK /\ UNCHANGED <<tags, tagged>> /\ req[r].pc = "idle"
        /\ req' = [req EXCEPT ![r] = [req[r] EXCEPT !.pc = "replacing", !.w = w, !.put = put]]
    BY <1>10 DEF ReplaceTags, Rows, KInv, IInv
  <2> HIDE DEF w, put
  <2>2. req[r].source = NoRow
    BY <2>1 DEF KInv, Carries
  <2>3. /\ req'[r].pc = "replacing" /\ req'[r].source = NoRow
        /\ \A s \in Requests \ {r} : req'[s] = req[s]
    BY <2>1, <2>2 DEF TypeOK, Transactions
  <2> QED
    BY <2>1, <2>3, CarriesStep DEF Carries
<1> QED
  BY <1>2, <1>3, <1>4, <1>5, <1>6, <1>7, <1>8, <1>9, <1>10 DEF Mutate

LEMMA InsertTagsCarries ==
  ASSUME KInv, IInv', NEW r \in Requests, InsertTags(r)
  PROVE  KInv'
BY EndCarries, FlushCarries DEF InsertTags

(* Each item seen with the source has the target or is given it. *)
LEMMA MergeUpdateCarries ==
  ASSUME KInv, IInv', NEW r \in Requests, MergeUpdate(r)
  PROVE  KInv'
<1> DEFINE a == req[r].source
           b == req[r].target
           movable == {i \in Items : <<i, a>> \in tagged /\ <<i, b>> \notin tagged}
           w == [NoWrites EXCEPT !.del = movable \X {a}, !.add = movable \X {b}]
           seen == {p[1] : p \in RowsOf(a)}
           q == [req[r] EXCEPT !.pc = "updated", !.w = w, !.seen = seen]
<1>1. CASE movable # {} /\ ~HasTag(b)
  BY <1>1, EndCarries DEF MergeUpdate
<1>2. CASE ~(movable # {} /\ ~HasTag(b))
  <2>1. /\ req' = [req EXCEPT ![r] = q] /\ req[r].pc = "merge" /\ TypeOK
        /\ UNCHANGED <<tags, tagged>>
    BY <1>2 DEF MergeUpdate, Rows, KInv, IInv
  <2>2. b \in Tags
    BY <2>1 DEF KInv, IInv, MergeShape, Merging
  <2>3. \A i \in seen : <<i, a>> \in tagged /\ i \in Items
    BY <2>1 DEF RowsOf, TypeOK
  <2>4. \A i \in seen : <<i, b>> \in tagged \/ i \in movable
    BY <2>3
  <2> HIDE DEF movable, seen
  <2>5. w.del = movable \X {a} /\ w.add = movable \X {b}
    BY DEF NoWrites
  <2> HIDE DEF w
  <2>6. /\ q.pc = "updated" /\ q.w = w /\ q.seen = seen
        /\ q.source = a /\ q.target = b
    BY <2>1 DEF TypeOK, Transactions
  <2> HIDE DEF q
  <2>7. req'[r] = q /\ \A s \in Requests \ {r} : req'[s] = req[s]
    BY <2>1 DEF TypeOK
  <2>8. \A p \in w.del : p[2] = a
    BY <2>5
  <2>9. \A i \in seen : <<i, b>> \in tagged \cup w.add
    BY <2>4, <2>5
  <2>10. Carries(q)
    BY <2>2, <2>6, <2>8, <2>9 DEF Carries
  <2> QED
    BY <2>1, <2>7, <2>10, CarriesStep
<1> QED
  BY <1>1, <1>2

LEMMA MergeDeleteRowsCarries ==
  ASSUME KInv, IInv', NEW r \in Requests, MergeDeleteRows(r)
  PROVE  KInv'
<1> DEFINE v == req[r].w
           rows == RowsOf(req[r].source) \ v.del
           w == [v EXCEPT !.del = v.del \cup rows]
<1>1. TypeOK /\ UNCHANGED <<tags, tagged>> /\ req[r].pc = "updated" /\ Move(r, "pruned", w)
  BY DEF MergeDeleteRows, Rows, KInv, IInv
<1>2. v \in WriteSets /\ \A p \in rows : p[2] = req[r].source
  BY <1>1 DEF TypeOK, Transactions, RowsOf
<1> HIDE DEF rows
<1>3. w.add = v.add /\ w.del = v.del \cup rows
  BY <1>2 DEF WriteSets
<1> HIDE DEF w
<1>4. /\ req'[r].pc = "pruned" /\ req'[r].w = w /\ req'[r].seen = req[r].seen
      /\ req'[r].source = req[r].source /\ req'[r].target = req[r].target
      /\ \A s \in Requests \ {r} : req'[s] = req[s]
  BY <1>1 DEF Move, TypeOK, Transactions
<1>5. Carries(req[r])
  BY DEF KInv
<1>6. Carries(req'[r])
  BY <1>1, <1>2, <1>3, <1>4, <1>5 DEF Carries
<1> QED
  BY <1>1, <1>4, <1>6, CarriesStep

LEMMA MergeDeleteSourceCarries ==
  ASSUME KInv, IInv', NEW r \in Requests, MergeDeleteSource(r)
  PROVE  KInv'
<1> DEFINE v == req[r].w
           a == req[r].source
           w == [v EXCEPT !.tags = Only(a, Dropped), !.del = v.del \cup RowsOf(a)]
<1>1. TypeOK /\ UNCHANGED <<tags, tagged>> /\ req[r].pc = "pruned" /\ Move(r, "flushed", w)
  BY DEF MergeDeleteSource, Rows, KInv, IInv
<1>2. v \in WriteSets /\ \A p \in RowsOf(a) : p[2] = a
  BY <1>1 DEF TypeOK, Transactions, RowsOf
<1>3. a \in Tags
  BY <1>1 DEF KInv, IInv, MergeShape, Merging
<1>4. w.add = v.add /\ w.del = v.del \cup RowsOf(a) /\ w.tags = Only(a, Dropped)
  BY <1>2 DEF WriteSets
<1> HIDE DEF w
<1>5. /\ req'[r].pc = "flushed" /\ req'[r].w = w /\ req'[r].seen = req[r].seen
      /\ req'[r].source = req[r].source /\ req'[r].target = req[r].target
      /\ \A s \in Requests \ {r} : req'[s] = req[s]
  BY <1>1 DEF Move, TypeOK, Transactions
<1>6. Carries(req[r])
  BY DEF KInv
<1>7. \A p \in w.del : OldTag(w, p[2])
  <2>0. DOMAIN Only(a, Dropped) = {a} /\ Only(a, Dropped)[a] = Dropped
    BY <1>3, OnlyTag
  <2>1. DOMAIN w.tags = {a} /\ w.tags[a] = Dropped
    BY <1>4, <2>0
  <2>2. \A p \in w.del : p[2] = a
    BY <1>1, <1>2, <1>4, <1>6 DEF Carries
  <2> QED
    BY <2>1, <2>2 DEF OldTag
<1>8. Carries(req'[r])
  BY <1>1, <1>4, <1>5, <1>6, <1>7 DEF Carries
<1> QED
  BY <1>1, <1>5, <1>8, CarriesStep

LEMMA InvalidateCarries ==
  ASSUME KInv, IInv', NEW r \in Requests, Invalidate(r)
  PROVE  KInv'
<1>1. /\ TypeOK /\ UNCHANGED <<tags, tagged>> /\ req[r].pc = "flushed"
      /\ Move(r, "cleared", req[r].w)
  BY DEF Invalidate, KInv, IInv
<1>2. /\ req'[r].pc = "cleared" /\ req'[r].w = req[r].w /\ req'[r].seen = req[r].seen
      /\ req'[r].source = req[r].source /\ req'[r].target = req[r].target
      /\ \A s \in Requests \ {r} : req'[s] = req[s]
  BY <1>1 DEF Move, TypeOK, Transactions
<1>3. Carries(req[r])
  BY DEF KInv
<1>4. Carries(req'[r])
  BY <1>1, <1>2, <1>3 DEF Carries
<1> QED
  BY <1>1, <1>2, <1>4, CarriesStep

LEMMA ReaderCarries ==
  ASSUME KInv, IInv', NEW r \in Requests, ReadMiss(r) \/ Store(r)
  PROVE  KInv'
<1>1. /\ TypeOK /\ UNCHANGED <<tags, tagged>> /\ req[r].pc \in {"idle", "read"}
      /\ Carries(req[r])
  BY DEF ReadMiss, Store, Rows, KInv, IInv
<1>2. req[r].source = NoRow
  BY <1>1 DEF Carries
<1>3. CASE ReadMiss(r)
  <2> DEFINE seen == {g \in Tags : HasTag(g) /\ ~tags[g].active /\ tags[g].type \in Filterable}
             tree == Tree
  <2>1. req' = [req EXCEPT ![r] = [req[r] EXCEPT !.pc = "read", !.tree = tree, !.seen = seen]]
    BY <1>3 DEF ReadMiss
  <2> HIDE DEF seen, tree
  <2>2. /\ req'[r].pc = "read" /\ req'[r].source = NoRow
        /\ \A s \in Requests \ {r} : req'[s] = req[s]
    BY <1>1, <1>2, <2>1 DEF TypeOK, Transactions
  <2> QED
    BY <1>1, <2>2, CarriesStep DEF Carries
<1>4. CASE Store(r)
  <2>1. /\ req'[r].pc = "stored" /\ req'[r].source = NoRow
        /\ \A s \in Requests \ {r} : req'[s] = req[s]
    BY <1>1, <1>2, <1>4 DEF Store, TypeOK, Transactions
  <2> QED
    BY <1>1, <2>1, CarriesStep DEF Carries
<1> QED
  BY <1>3, <1>4

LEMMA DeleteOrphansCarries ==
  ASSUME KInv, IInv', NEW r \in Requests, DeleteOrphans(r)
  PROVE  KInv'
BY FlushCarries DEF DeleteOrphans

(* A commit takes the target from no item that a merge still accounts for, *)
(* and a dropped tag does not come back.                                   *)
LEMMA CommitCarries ==
  ASSUME KInv, IInv', NEW r \in Requests, Commit(r)
  PROVE  KInv'
<1>1. PICK w : w = req[r].w
  OBVIOUS
<1>2. /\ TypeOK /\ TypeOK'
      /\ \A g \in Tags : /\ OldTag(w, g) => tags'[g] = Dropped
                         /\ g \notin DOMAIN w.tags => tags'[g] = tags[g]
      /\ tagged' = (tagged \ w.del) \cup w.add
      /\ req'[r].pc \in {"idle", "done"} /\ req'[r].source = NoRow
      /\ \A s \in Requests \ {r} : KeepsGoing(s, w)
  BY <1>1, CommittedRows DEF KInv, IInv
<1>3. \A g \in Tags : NewTag(w, g) => tags[g] # Dropped
  BY <1>1 DEF KInv, IInv, Sound
<1>4. \A g \in Tags : tags[g] = Dropped => tags'[g] = Dropped
  BY <1>2, <1>3 DEF OldTag, NewTag
<1>5. ASSUME NEW s \in Requests \ {r}
      PROVE  Carries(req[s])'
  <2>1. Carries(req[s]) /\ MergeShape
    BY DEF KInv, IInv
  <2>2. /\ req'[s].pc = req[s].pc /\ req'[s].w = req[s].w
        /\ req'[s].source = req[s].source /\ req'[s].target = req[s].target
        /\ req'[s].seen = req[s].seen \ LosesTarget(s, w)
    BY <1>2 DEF KeepsGoing
  <2> DEFINE b == req[s].target
             add == req[s].w.add
  <2>3. ASSUME b \in Tags, NEW i \in req'[s].seen,
               tags[b] = Dropped \/ <<i, b>> \in tagged \cup add
        PROVE  tags'[b] = Dropped \/ <<i, b>> \in tagged' \cup add
    <3>1. CASE <<i, b>> \in tagged
      <4>1. i \in Items
        BY <1>2, <3>1 DEF TypeOK
      <4>2. <<i, b>> \notin w.del \/ <<i, b>> \in w.add
        BY <2>2, <4>1 DEF LosesTarget
      <4> QED
        BY <1>2, <3>1, <4>2
    <3> QED
      BY <1>4, <2>3, <3>1
  <2>4. ASSUME req[s].source # NoRow, req[s].pc # "merge"
        PROVE  /\ b \in Tags
               /\ \A i \in req'[s].seen : tags'[b] = Dropped \/ <<i, b>> \in tagged' \cup add
    BY <2>1, <2>2, <2>3, <2>4 DEF Carries
  <2> HIDE DEF b, add
  <2> QED
    BY <2>1, <2>2, <2>4 DEF Carries, OldTag, b, add
<1>6. ASSUME NEW s \in Requests PROVE Carries(req[s])'
  <2>1. CASE s = r
    BY <1>2, <2>1 DEF Carries
  <2> QED
    BY <1>5, <2>1
<1> QED
  BY <1>6 DEF KInv

LEMMA NextKInv == KInv /\ [Next]_vars => KInv'
<1> SUFFICES ASSUME KInv, [Next]_vars PROVE KInv'
  OBVIOUS
<1>0. IInv'
  BY NextIInv DEF KInv
<1>1. CASE Expire \/ UNCHANGED vars
  <2>1. UNCHANGED <<tags, tagged, req>>
    BY <1>1 DEF Expire, vars
  <2> QED
    BY <1>0, <2>1 DEF KInv, Carries, OldTag
<1>2. ASSUME NEW r \in Requests, Mutate(r) PROVE KInv'
  BY <1>0, <1>2, MutateCarries
<1>3. ASSUME NEW r \in Requests, ReadMiss(r) PROVE KInv'
  BY <1>0, <1>3, ReaderCarries
<1>4. ASSUME NEW r \in Requests, Continue(r) PROVE KInv'
  BY <1>0, <1>4, MergeUpdateCarries, MergeDeleteRowsCarries, MergeDeleteSourceCarries,
     InsertTagsCarries, InvalidateCarries, CommitCarries, ReaderCarries, DeleteOrphansCarries DEF Continue
<1>5. ASSUME NEW r \in Requests, Abort(r) PROVE KInv'
  BY <1>0, <1>5, EndCarries DEF Abort
<1> QED
  BY <1>1, <1>2, <1>3, <1>4, <1>5 DEF Next

LEMMA KInvHolds == Spec => []KInv
<1>1. Init => KInv
  <2> SUFFICES ASSUME Init PROVE KInv
    OBVIOUS
  <2>1. \A r \in Requests : req[r].pc = "idle" /\ req[r].source = NoRow
    BY DEF Init, Idle
  <2> QED
    BY <2>1, InitIInv DEF KInv, Carries
<1> QED
  BY <1>1, NextKInv, PTL DEF Spec

(* What merge_tags saw of its source when it repointed the taggings is not *)
(* lost, whatever commits between its statements: when the merge commits,  *)
(* each of those items has the target, unless the target has been deleted  *)
(* or a PATCH of the item's tags (update_item) has taken it from the item. *)
THEOREM MergeLosesNoneSeen == Spec => MergeKeepsSeenItems
<1>1. ASSUME KInv, Next, NEW r \in Admins, MergeCommits(r), NEW i \in req[r].seen
      PROVE  Carried(r, i)
  <2>1. r \in Requests /\ Commit(r) /\ req[r].source # NoRow /\ req[r].pc = "cleared"
    BY <1>1 DEF MergeCommits, Requests
  <2>2. PICK w : w = req[r].w
    OBVIOUS
  <2>3. PICK b : b = req[r].target
    OBVIOUS
  <2>4. /\ \A p \in w.del : OldTag(w, p[2])
        /\ b \in Tags /\ (tags[b] = Dropped \/ <<i, b>> \in tagged \cup w.add)
    BY <1>1, <2>1, <2>2, <2>3 DEF KInv, Carries
  <2>5. /\ \A g \in Tags : /\ OldTag(w, g) => tags'[g] = Dropped
                           /\ g \notin DOMAIN w.tags => tags'[g] = tags[g]
        /\ tagged' = (tagged \ w.del) \cup w.add
    BY <1>1, <2>1, <2>2, CommittedRows DEF KInv
  <2>6. NewTag(w, b) => tags[b] # Dropped
    BY <1>1, <2>1, <2>2, <2>4 DEF KInv, IInv, Sound
  <2>7. ASSUME tags'[b] # Dropped PROVE <<i, b>> \in tagged'
    <3> DEFINE p == <<i, b>>
    <3>1. tags[b] # Dropped /\ ~OldTag(w, b) /\ p[2] = b
      BY <2>4, <2>5, <2>6, <2>7 DEF NewTag, OldTag
    <3>2. p \notin w.del
      BY <2>4, <3>1
    <3> QED
      BY <2>4, <2>5, <3>1, <3>2
  <2> QED
    BY <2>3, <2>7 DEF Carried
<1>2. KInv /\ [Next]_vars =>
        [\A r \in Admins : MergeCommits(r) => \A i \in req[r].seen : Carried(r, i)]_vars
  BY <1>1
<1> QED
  BY <1>2, KInvHolds, PTL DEF Spec, MergeKeepsSeenItems
====
