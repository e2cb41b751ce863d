SPECIFICATION FairSpec
CONSTANTS
    p1 = p1
    p2 = p2
    k1 = k1
    k2 = k2
    d1 = d1
    d2 = d2
    d3 = d3
    NoPid = none
    NoKey = nokey
    Keys = {k1, k2}
    KeyOf <- MCKeyOf
    Rank <- MCRank
    MentionOf <- MCMentionOf
    Staggered = TRUE
    MaxFaults = 1
    MaxConcurrent = 1
    Jobs = {1, 2}
    Pids = {p1, p2}
    Deliveries = {d1, d3}
    Polls = {1}
    MaxAttempts = 2
    MaxRecent = 1
INVARIANTS
    TypeOK
    
    
    
PROPERTIES
    Handled
CHECK_DEADLOCK FALSE
