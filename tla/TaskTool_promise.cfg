SPECIFICATION TasksOnly
CONSTANTS
    c1 = c1
    c2 = c2
    e1 = e1
    e2 = e2
    p1 = p1
    p2 = p2
    q1 = q1
    q2 = q2
    q3 = q3
    None = None
    Nothing = Nothing
    Callers <- MCCallers
    EntryIds <- MCEntryIds
    WakeSeqs <- MCWakeSeqs
    InterruptSeqs <- MCInterruptSeqs
    Prompts <- MCPrompts
    MaxSteps = 2
    MaxSeq = 3
    MaxRetries = 0
    Requests <- MCRequests
    Replies <- MCCallers
    Asks <- MCAsks
    Deniable <- MCDeniable
    MaxTasks = 2
    Clients <- MCCallers
    MaxInstances = 3
INVARIANTS
    NotifiedAsTold
