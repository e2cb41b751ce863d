\* A workflow with room for three rows: the canvas, its autosave, the history
\* and publishing, against other clients and lost requests.  The kinds of slips
\* nothing is claimed about do not happen.
SPECIFICATION FairSpec
CONSTANTS
    Rows = {1, 2, 3}
    Root = root
    Edits = {a, b}
    Others = {b}
    Seed = seed
    NoSlot = noslot
    Slips = {"edit while busy", "publish while saving",
             "outdated canvas", "outdated list"}
    MaxSlips = 1
INVARIANTS
    TypeOK
    
    DraftsStaySeparate
    
    PublishedAsShown
PROPERTIES
    
    Settles
CHECK_DEADLOCK FALSE
