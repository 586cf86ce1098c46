SPECIFICATION Spec
CONSTANTS
    t1 = t1
    t2 = t2
    t3 = t3
    g1 = g1
    g2 = g2
    g3 = g3
    i1 = i1
    n1 = n1
    n2 = n2
    n3 = n3
    s1 = s1
    s2 = s2
    s3 = s3
    a1 = a1
    a2 = a2
    x1 = x1
    d1 = d1
    NoRow = NoRow
    Dropped = Dropped
    NoTree = NoTree
    Types <- MCTypes
    Tags <- MCTags
    Items <- MCItems
    Names <- MCNames
    Slugs <- MCSlugs
    Admins <- MCAdmins
    Taggers <- MCTaggers
    Readers <- MCReaders
    Lists <- MCLists
    Types0 <- MCTypes0
    Tags0 <- MCTags0
    Tagged0 <- MCTagged0
CHECK_DEADLOCK FALSE
INVARIANT ConstraintsHold
 
PROPERTY CacheSettles
