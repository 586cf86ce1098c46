---- MODULE MCIngestion ----
(* The ways in which items come: by hand, from Instagram and from shops.   *)
(* Two requests on a scraped item, two unissued ids and two tags; two      *)
(* fetches of overlapping posts; a crawl of up to two pages, on which two  *)
(* listings are linked to, one of them in three ways.  The parts share no  *)
(* state and run one at a time (a bound), so that their state spaces add.  *)
EXTENDS ManualIngestion, Crawl, InstagramFetch

CONSTANTS r1, r2, i1, n1, n2, g1, g2, k1, k2, p1, p2

MCScraped == {i1}
MCNew == {n1, n2}
MCTags == {g1, g2}
MCRequests == {r1, r2}
MCTagged0 == {<<i1, g1>>}
MCTagLists == {<<g1>>, <<g2, g1>>, <<g1, g1>>}
MCCsvFiles == {<<<<g1>>, BadRow>>, <<<<g1, g1>>, <<g2>>>>, <<<<>>, <<g1>>>>}

MCTasks == {k1, k2}
MCPosts == {p1, p2}
MCResponses == {<<>>, <<p1, p2>>, <<p2, NoId, p1>>, <<p1, p1>>}

Href(l, s, q) == [listing |-> l, slug |-> s, query |-> q]
MCListings == {<<Href(1, "a", "none"), BadHref, Href(2, "a", "none")>>,
               <<Href(2, "a", "ref"), Href(1, "a", "none"), Href(2, "b", "none")>>}

Manual == \E r \in Requests : req[r].pc # "idle"
Fetching == \E t \in Tasks : fetcher[t].pc # "waiting"
Crawling == crawl.pc # "idle"

MCInit == ManualInit /\ FetchInit /\ CrawlInit
MCNext == \/ ~Fetching /\ ~Crawling /\ queue = {} /\ ManualNext /\ UNCHANGED <<fetchVars, crawl>>
          \/ ~Manual /\ ~Crawling /\ FetchNext /\ UNCHANGED <<manual, crawl>>
          \/ ~Manual /\ ~Fetching /\ queue = {} /\ CrawlNext /\ UNCHANGED <<manual, fetchVars>>
MCSpec == /\ MCInit /\ [][MCNext]_<<manual, fetchVars, crawl>>
          /\ FetchFairness /\ CrawlFairness

====
