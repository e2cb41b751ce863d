SPECIFICATION FairSpec
CONSTANTS
    n1 = n1
    n2 = n2
    end = end
    Nodes = {n1, n2}
    Entry = n1
    End = end
    Targets <- Loop
    Requests = {q1}
    NoRequest = none
    Kinds = {"answer", "revise", "abort"}
    Vias = {"message", "resolve", "resume_api", "abort_api"}
    MaxVisits = 2
    MaxEscalations = 5
    MaxCrashes = 0
    Deadlines = TRUE
    Deletion = TRUE
    Patient = TRUE
    Prompt = FALSE
PROPERTIES
    AnswerTakesEffect
CHECK_DEADLOCK FALSE
