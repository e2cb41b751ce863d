SPECIFICATION Spec
CONSTANTS
    n1 = n1
    n2 = n2
    end = end
    Nodes = {n1, n2}
    Entry = n1
    End = end
    Targets <- Chain
    Requests = {q1, q2}
    NoRequest = none
    Kinds = {"answer", "revise", "abort"}
    Vias = {"message"}
    MaxVisits = 2
    MaxEscalations = 5
    MaxCrashes = 1
    Deadlines = TRUE
    Deletion = TRUE
    Patient = TRUE
    Prompt = TRUE
INVARIANTS
    CompletedHasOutput
    AnswerIsCommitted
    
    OneOpenQuestion
CHECK_DEADLOCK FALSE
SYMMETRY Symmetry
