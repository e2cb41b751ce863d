SPECIFICATION Spec
CONSTANTS
    p1 = p1
    p2 = p2
    k1 = k1
    k2 = k2
    d1 = d1
    d2 = d2
    d3 = d3
    NoPid = none
    NoKey = nokey
    Keys = {k1, k2}
    KeyOf <- MCKeyOf
    Rank <- MCRank
    MentionOf <- MCMentionOf
    Staggered = TRUE
    MaxFaults = 1
    MaxConcurrent = 1
    Jobs = {1, 2}
    Pids = {p1}
    Deliveries = {d1, d2, d3}
    Polls = {1, 2}
    MaxAttempts = 1
    MaxRecent = 3
INVARIANTS
    
    ClaimHeld
    TaskStartedOnce
CHECK_DEADLOCK FALSE
