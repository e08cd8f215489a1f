CONSTANTS
    Absent = Absent
    Invalid = Invalid
    r1 = r1
    r2 = r2
    Request = {r1, r2}
    Body <- Bodies
    Config <- Settings
    Answer <- Answers
SPECIFICATION Spec
INVARIANTS
    NothingDropped
    MetricsAgree
    AnswersCoverInputs
    DirectDataIsSorted
CHECK_DEADLOCK FALSE
