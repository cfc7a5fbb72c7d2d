SPECIFICATION ApiFairSpec
CONSTANTS
    Slots = {s1}
    Borrowers = {b1}
    Probes = {p1}
    Lifespans = {l1, l2}
    Loops = {a}
    FailsAfter = {10}
    Unstoppable = {"reader"}
    BreaksAt = {}
    None = None
INVARIANTS BorrowersKeepConnection FailuresCountedOnce PipelineShared
CHECK_DEADLOCK FALSE
PROPERTY ReadinessAnswers
