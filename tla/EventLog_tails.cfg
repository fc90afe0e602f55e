SPECIFICATION FairSpec
CONSTANTS
    s1 = s1
    s2 = s2
    i1 = i1
    i2 = i2
    i3 = i3
    x = x
    y = y
    w1 = w1
    w2 = w2
    f1 = f1
    f2 = f2
    r1 = r1
    NoOwner = NoOwner
    Local = Local
    Fibers <- MCFibers
    Aggregates <- MCAggregates
    EventIDs <- MCEventIDs
    Contents <- MCOneContent
    Owners <- MCNoOwner
    Wire <- MCOneWire
    Readers <- MCReaders
    MaxSeq = 2
    MaxLives = 0
INVARIANTS
    NoLostWake
    StreamIsExact
PROPERTIES
    StreamsCatchUp
    ImplementsFairFeed
