SPECIFICATION MCSpec
CONSTANTS
    r1 = r1
    r2 = r2
    i1 = i1
    n1 = n1
    n2 = n2
    g1 = g1
    g2 = g2
    k1 = k1
    k2 = k2
    p1 = p1
    p2 = p2
    NoId = NoId
    BadHref = BadHref
    BadRow = BadRow
    NoTags = NoTags
    NoImage = NoImage
    External = External
    Scraped <- MCScraped
    NewItems <- MCNew
    Tags <- MCTags
    Tagged0 <- MCTagged0
    Requests <- MCRequests
    TagLists <- MCTagLists
    CsvFiles <- MCCsvFiles
    Listings <- MCListings
    Tasks <- MCTasks
    PostIds <- MCPosts
    Responses <- MCResponses
    RateLimit = 2
    MaxRetries = 1
    MaxPages = 2
CHECK_DEADLOCK FALSE
INVARIANT AnswersStand
INVARIANT CrawlIsExact
INVARIANT FetchedIsQueued
PROPERTY ReplaceIsExact
PROPERTY FetchSettles
PROPERTY CrawlEnds
