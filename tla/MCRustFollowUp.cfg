SPECIFICATION Spec
CONSTANTS
    c1 = c1
    c2 = c2
    Call = {c1, c2}
    Msg <- MCRequest
INVARIANT
    FollowUpStaysOnTask
CHECK_DEADLOCK FALSE
