SPECIFICATION SlotSpec
CONSTANTS
    Writers = {t1, t2}
    CandidateIds = {a, b}
    Layouts = {p, q}
    MaxGeneration = 5
INVARIANTS
    AcceptedWasProbed
CHECK_DEADLOCK FALSE
