SPECIFICATION ReaderSpec
CONSTANTS
    g1 = g1
    g2 = g2
    NoDate = NoDate
    NoId = NoId
    BadId = BadId
    NoPrice = NoPrice
    Items <- MCItems
    Dates <- MCDates
    PriceOf <- MCPriceOf
    TagsOf <- MCTagsOf
    TextHits <- MCTextHits
    Embedded <- MCEmbedded
    TagSets <- MCTagSets
    Filters <- MCFilters
    Links <- MCLinks
    PageSizes <- MCPageSizes
    Limits <- MCLimits
    HybridFloor <- MCFloor
CHECK_DEADLOCK FALSE
INVARIANT WalkIsStable
INVARIANT AnswerIsFull
PROPERTY SearchIsAnswered
