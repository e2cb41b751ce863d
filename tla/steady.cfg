SPECIFICATION Spec
CONSTANTS
    n1 = n1
    n2 = n2
    end = end
    Nodes = {n1, n2}
    Entry = n1
    End = end
    Targets <- Loop
    Requests = {q1, q2, q3, q4}
    NoRequest = none
    Kinds = {"answer", "revise", "abort"}
    Vias = {"message", "resolve"}
    MaxVisits = 1
    MaxEscalations = 9
    MaxCrashes = 0
    Deadlines = FALSE
    Deletion = TRUE
    Patient = TRUE
    Prompt = TRUE
INVARIANTS
    TypeOK
    OneDriver
    OneOpenQuestion
    AnswerFitsNode
    AnswerUsedOnce
    LoopLimit
PROPERTIES
    TerminalIsFinal
    MeetsContract
    DecisionStands
CHECK_DEADLOCK FALSE
SYMMETRY Symmetry
