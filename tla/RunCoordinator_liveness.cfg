SPECIFICATION FairSpec
CONSTANTS
    c1 = c1
    c2 = c2
    e1 = e1
    e2 = e2
    None = None
    Callers <- MCCallers
    EntryIds <- MCEntryIds
    WakeSeqs <- MCFewWakes
    InterruptSeqs <- MCOneInterrupt
PROPERTIES
    WaitersAnswered
    RunReturns
    ImplementsFairLane
