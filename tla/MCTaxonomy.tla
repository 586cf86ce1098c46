---- MODULE MCTaxonomy ----
(* One type with an active and an inactive tag, one without tags, a free   *)
(* id of each kind, an item that has both tags; two admins with one        *)
(* request each, a tagger, whose PATCH gives the item one of them and the  *)
(* tag of the free id, and a reader.                                       *)
EXTENDS Taxonomy, TLC

CONSTANTS t1, t2, t3, g1, g2, g3, i1, n1, n2, n3, s1, s2, s3, a1, a2, x1, d1

MCTypes == {t1, t2, t3}
MCTags == {g1, g2, g3}
MCItems == {i1}
MCNames == {n1, n2, n3}
MCSlugs == {s1, s2, s3}
MCAdmins == {a1, a2}
MCTaggers == {x1}
MCReaders == {d1}
MCLists == {{g1, g3}}
MCTypes0 == t1 :> [name |-> n1, filterable |-> TRUE]
            @@ t2 :> [name |-> n2, filterable |-> FALSE]
MCTags0 == g1 :> [type |-> t1, slug |-> s1, active |-> TRUE]
           @@ g2 :> [type |-> t1, slug |-> s2, active |-> FALSE]
MCTagged0 == {<<i1, g1>>, <<i1, g2>>}
====
