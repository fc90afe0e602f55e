SPECIFICATION Spec
CONSTANTS
    c1 = c1
    c2 = c2
    e1 = e1
    e2 = e2
    None = None
    Callers <- MCCallers
    EntryIds <- MCEntryIds
    WakeSeqs <- MCWakeSeqs
    InterruptSeqs <- MCInterruptSeqs
INVARIANTS
    WakesAfterBoundaryRun
