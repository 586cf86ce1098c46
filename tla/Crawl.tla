---- MODULE Crawl ----
(***************************************************************************)
(* The retailer adapters as the scrape task drives them: the generators of *)
(* backend/app/adapters/generic_html.py, etsy.py and amazon.py, which page *)
(* through a site's listings, fetch each product linked there and yield    *)
(* what can be parsed.  A fetch that fails is None, never an exception; a  *)
(* consumer may close the generator wherever it is suspended in a yield.   *)
(* The site may change between two fetches.                                *)
(***************************************************************************)
EXTENDS Naturals, Sequences, FiniteSets, SequencesExt

CONSTANTS Listings,   \* what a page of the listing may show: sequences of hrefs
          MaxPages,   \* bound: list_pages
          BadHref     \* an anchor without a usable href

ASSUME CrawlAssumption ==
    MaxPages \in Nat /\ \A links \in Listings : links \in Seq(ToSet(links))

VARIABLE crawl

\* An href: [listing, slug, query].
Fresh == [pc |-> "idle", adapter |-> "amazon", page |-> 1, pages |-> 0, links |-> <<>>,
          seen |-> {}, url |-> BadHref, yielded |-> <<>>,
          tried |-> {}, again |-> FALSE, offered |-> {}]

CrawlInit == crawl = Fresh

(* Etsy strips the query string; the HTML adapter takes the href as it is. *)
Canonical(adapter, href) ==
    IF adapter = "etsy" THEN [href EXCEPT !.query = "none"] ELSE href

(* The id of the item: the listing id in Etsy's path, a hash of the url.   *)
ExternalId(adapter, url) == IF adapter = "etsy" THEN url.listing ELSE url

(* What is made of a product's page: None when the url is refused, when    *)
(* the fetch fails or when there is no title.                              *)
None == [id |-> BadHref, url |-> BadHref]
Parses(adapter, url) == {None, [id |-> ExternalId(adapter, url), url |-> url]}

Usable(links) == {links[k] : k \in DOMAIN links} \ {BadHref}

----
(* resolve_adapter, and the head of scrape.  The stub yields nothing; no   *)
(* list_url is as good as no pages.                                        *)
StartCrawl(adapter, pages) ==
    /\ crawl.pc = "idle"
    /\ crawl' = [Fresh EXCEPT !.adapter = adapter, !.pages = pages,
                     !.pc = IF adapter = "amazon" THEN "ended" ELSE "page"]

(* A page that cannot be fetched is passed over. *)
FetchPage ==
    /\ crawl.pc = "page" /\ crawl.page <= crawl.pages
    /\ \/ crawl' = [crawl EXCEPT !.page = @ + 1]
       \/ \E links \in Listings :
              crawl' = [crawl EXCEPT !.pc = "links", !.links = links,
                            !.offered = @ \cup {Canonical(crawl.adapter, h) : h \in Usable(links)}]

EndCrawl ==
    /\ crawl.pc = "page" /\ crawl.page > crawl.pages
    /\ crawl' = [crawl EXCEPT !.pc = "ended"]

NextPage ==
    /\ crawl.pc = "links" /\ crawl.links = <<>>
    /\ crawl' = [crawl EXCEPT !.pc = "page", !.page = @ + 1]

SkipLink ==
    /\ crawl.pc = "links" /\ crawl.links # <<>>
    /\ LET h == Head(crawl.links)
       IN h # BadHref => Canonical(crawl.adapter, h) \in crawl.seen
    /\ crawl' = [crawl EXCEPT !.links = Tail(@)]

\* Mutant: a url is not remembered.
FollowLinkUnseen ==
    /\ crawl.pc = "links" /\ crawl.links # <<>> /\ Head(crawl.links) # BadHref
    /\ LET url == Canonical(crawl.adapter, Head(crawl.links))
       IN /\ url \notin crawl.seen
          /\ crawl' = [crawl EXCEPT !.pc = "item", !.links = Tail(@), !.url = url]

FollowLink ==
    /\ crawl.pc = "links" /\ crawl.links # <<>> /\ Head(crawl.links) # BadHref
    /\ LET url == Canonical(crawl.adapter, Head(crawl.links))
       IN /\ url \notin crawl.seen
          /\ crawl' = [crawl EXCEPT !.pc = "item", !.links = Tail(@), !.seen = @ \cup {url},
                                    !.url = url]

ParseItem ==
    /\ crawl.pc = "item"
    /\ \E item \in Parses(crawl.adapter, crawl.url) :
           crawl' = [crawl EXCEPT !.pc = IF item = None THEN "links" ELSE "yielding",
                         !.yielded = IF item = None THEN @ ELSE Append(@, item),
                         !.again = @ \/ crawl.url \in crawl.tried,
                         !.tried = @ \cup {crawl.url}]

\* Mutant: the generator is not asked for the result after this one.
ResumeNever == FALSE /\ UNCHANGED crawl

\* The task has put the result in its buffer and asks for the next.
Resume ==
    /\ crawl.pc = "yielding"
    /\ crawl' = [crawl EXCEPT !.pc = "links"]

(* The task fails between two results, or a fetch or a parser raises what  *)
(* no handler catches.                                                     *)
Close ==
    /\ crawl.pc \in {"page", "item", "yielding"}
    /\ crawl' = [crawl EXCEPT !.pc = "closed"]

----
Advance == FetchPage \/ EndCrawl \/ NextPage \/ SkipLink \/ FollowLink \/ ParseItem \/ Resume

CrawlNext ==
    \/ \E a \in {"generic_html", "etsy", "amazon"}, n \in 0..MaxPages : StartCrawl(a, n)
    \/ Advance \/ Close

CrawlFairness == WF_crawl(Advance)
CrawlSpec == CrawlInit /\ [][CrawlNext]_crawl /\ CrawlFairness

----
(* What ScrapeTask takes from an adapter: nothing is yielded twice, and a  *)
(* crawl that ends has tried each product that any of its pages linked to, *)
(* once, however the pages overlap, change and fail meanwhile.             *)
CrawlIsExact ==
    /\ ~crawl.again
    /\ IsInjective(crawl.yielded)
    /\ \A item \in ToSet(crawl.yielded) : item.url \in crawl.tried
    /\ crawl.pc = "ended" => crawl.tried = crawl.offered

(* Every crawl ends: a page that cannot be fetched is not tried again.     *)
CrawlEnds == crawl.pc = "page" ~> crawl.pc \in {"ended", "closed"}

(* Does not hold: a listing that Etsy's pages link to under two slugs is   *)
(* fetched under both urls and yielded twice with one source_external_id.  *)
IdsAreDistinct ==
    \A j, k \in DOMAIN crawl.yielded :
        crawl.yielded[j].id = crawl.yielded[k].id => j = k

====
