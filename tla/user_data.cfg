SPECIFICATION MCSpec
CONSTANTS
    u1 = u1
    u2 = u2
    l1 = l1
    i1 = i1
    i2 = i2
    i3 = i3
    g1 = g1
    g2 = g2
    r1 = r1
    r2 = r2
    r3 = r3
    q1 = q1
    t1 = t1
    t2 = t2
    t3 = t3
    NoToken = NoToken
    NoRow = NoRow
    NoTag = NoTag
    NoRecs = NoRecs
    Users <- MCUsers
    Lists <- MCLists
    Items <- MCItems
    Stock <- MCStock
    Requests <- MCRequests
    Tokens <- MCTokens
    Shoppers <- MCShoppers
    Gifts <- MCGifts
    Catalogue <- MCCatalogue
    Tags <- MCTags
    Tagged0 <- MCTagged0
    Recordings <- MCRecordings
    Readers <- MCReaders
    Kinds <- MCKinds
    MaxScore = 11
    MaxEdits = 1
CHECK_DEADLOCK FALSE
INVARIANT AggregatesMatchEvents
INVARIANT AnswersMatchEntries
INVARIANT LinksStayGood
INVARIANT FailuresNeedADelete
PROPERTY EveryInteractionEnds
PROPERTY RecsSettle
PROPERTY EveryRequestAnswered
