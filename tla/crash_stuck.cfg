SPECIFICATION FairSpec
CONSTANTS
    n1 = n1
    n2 = n2
    end = end
    Nodes = {n1, n2}
    Entry = n1
    End = end
    Targets <- Chain
    Requests = {q1}
    NoRequest = none
    Kinds = {"answer"}
    Vias = {"message"}
    MaxVisits = 2
    MaxEscalations = 5
    MaxCrashes = 1
    Deadlines = FALSE
    Deletion = FALSE
    Patient = TRUE
    Prompt = TRUE
PROPERTIES
    ExecutionEnds
CHECK_DEADLOCK FALSE
