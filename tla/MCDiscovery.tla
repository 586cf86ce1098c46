---- MODULE MCDiscovery ----
(* Three items, two dates, so ties occur; pages of one and two items;      *)
(* filters by any of two tags and a price, and by both tags; two saved     *)
(* links; searches for two items, which full text completes when the       *)
(* vector search finds fewer.                                              *)
EXTENDS Discovery

CONSTANTS g1, g2

MCItems == 1..3
MCDates == 1..2
MCPriceOf == <<NoPrice, 1, 2>>
MCTagsOf == <<{g1}, {}, {g1, g2}>>
MCTextHits == {1, 2, 3}
MCEmbedded == {1, 2}
MCTagSets == {{}, {g1}}
MCFilters == {Unset, [Unset EXCEPT !.tags = {g1, g2}, !.min = 1],
              [Unset EXCEPT !.tags = {g1, g2}, !.all = TRUE]}
MCLinks == {Garbage, [at |-> 2, id |-> 2]}
MCPageSizes == {1, 2}
MCLimits == {2}
MCFloor == 2
====
