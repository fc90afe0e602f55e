SPECIFICATION FairSessionSpec
CONSTANTS
    c1 = c1
    e1 = e1
    e2 = e2
    p1 = p1
    None = None
    Callers <- MCCallers
    EntryIds <- MCEntryIds
    WakeSeqs <- MCSeqs
    InterruptSeqs <- MCSeqs
    Prompts <- MCOnePrompt
    MaxSteps = 2
    MaxSeq = 3
    MaxRetries = 1
PROPERTIES
    PromptsRun
