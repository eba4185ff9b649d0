\* Four calls, two kinds of request; calls may crash and fail after their commit.
SPECIFICATION Spec
CONSTANTS
    Calls = {c1, c2, c3, c4}
    Requests = {f, g}
    Faults = {"crash", "handler"}
    NoCall = NoCall
INVARIANTS AnswerIsMine AnswersAgree AppliedAgainOnlyIfLost
PROPERTIES KeyIsNotWedged EveryCallReturns
CHECK_DEADLOCK FALSE
