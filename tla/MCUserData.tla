---- MODULE MCUserData ----
(* What users leave behind: their wishlists and their interactions.  The   *)
(* two share no state and run one at a time (a bound), so that their state *)
(* spaces add.                                                             *)
(* Wishlists: one list, two users, an item of the catalogue and one that   *)
(* does not exist, three overlapping requests of any kind, a token for     *)
(* each of them.                                                           *)
(* Interactions: one user with two tabs; an item with both tags, one with  *)
(* one tag and one that does not exist; two saves exceed the score; a      *)
(* reader of the recommendations and one edit of the catalogue.            *)
EXTENDS Wishlists, Interactions

CONSTANTS u1, u2, l1, i1, i2, i3, g1, g2, r1, r2, r3, q1, t1, t2, t3

MCUsers == {u1, u2}
MCLists == {l1}
MCItems == {i1, i3}
MCStock == {i1}
MCRequests == {r1, r2, r3}
MCTokens == {t1, t2, t3}

ASSUME TokensSuffice == Cardinality(Tokens) >= Cardinality(Requests)

MCShoppers == {u1}
MCGifts == {i1, i2, i3}
MCCatalogue == {i1, i2}
MCTags == {g1, g2}
MCTagged0 == {<<i1, g1>>, <<i1, g2>>, <<i2, g2>>}
MCRecordings == {r1, r2}
MCReaders == {q1}
MCKinds == {"save", "dismiss"}

Listing == \/ lists # [l \in Lists |-> Unborn]
           \/ \E r \in Requests : req[r].pc # "idle"
Interacting == \/ \E u \in Shoppers : cache[u] # NoRecs
               \/ edits > 0
               \/ \E r \in Recordings : rec[r] # NotRecording
               \/ \E q \in Readers : read[q] # NoRead

MCInit == Init /\ InteractInit
MCNext == \/ ~Interacting /\ Next /\ UNCHANGED interaction
          \/ ~Listing /\ InteractNext /\ UNCHANGED vars
MCSpec == MCInit /\ [][MCNext]_<<vars, interaction>> /\ Fairness /\ InteractFairness
====
