SPECIFICATION RunsOnly
CONSTANTS
    c1 = c1
    c2 = c2
    p1 = p1
    p2 = p2
    x1 = x1
    x2 = x2
    Calls <- MCCalls
    Prompts <- MCPrompts
    Cancels <- OneCancel
    MaxRunners = 2
    MaxWorks = 3
    Asks <- MCAsks
    MaxToolTurns = 1
    MaxStops = 1
CHECK_DEADLOCK FALSE
INVARIANTS
    BusyWhileRunning
