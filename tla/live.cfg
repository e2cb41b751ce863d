SPECIFICATION FairSpec
CONSTANTS
    n1 = n1
    n2 = n2
    end = end
    Nodes = {n1, n2}
    Entry = n1
    End = end
    Targets <- Loop
    Requests = {q1, q2}
    NoRequest = none
    Kinds = {"answer", "revise", "abort"}
    Vias = {"message"}
    MaxVisits = 2
    MaxEscalations = 6
    MaxCrashes = 0
    Deadlines = TRUE
    Deletion = FALSE
    Patient = TRUE
    Prompt = TRUE
INVARIANTS
    PausedIsAnswerable
PROPERTIES
    AnswerTakesEffect
    ExecutionEnds
CHECK_DEADLOCK FALSE
