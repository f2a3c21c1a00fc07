SPECIFICATION PilotSpec
CONSTANTS
    Keys = {k1}
    Digests = {g1, g2}
    Reasons = {y1}
    Runs = {r1, r2, r3}
    Threads = {t1, t2}
    Operators = {o1}
    MaxEntries = 5
    Owners <- MCOwners
    Subjects <- MCSubjects
    Facts <- MCFacts
    Responses <- MCResponses
    NoRecord = NoRecord
    NoResponse = NoResponse
    NoResolution = NoResolution
    NoRun = NoRun
    NoCall = NoCall
SYMMETRY MCSymmetry
INVARIANTS
    LedgerVerifies
CHECK_DEADLOCK FALSE
