SPECIFICATION Spec
CONSTANTS
    r1 = r1
    r2 = r2
    r3 = r3
    t1 = t1
    t2 = t2
    Requests <- MCRequests
    Templates <- MCTemplates
    Initially = {t1}
    Calls <- MCCalls
    NoCall = NoCall
    NoTemplate = NoTemplate
    NoRow = NoRow
    Unset = Unset
    Guarded = TRUE
    Limit = 2
    MaxFaults = 1
SYMMETRY Symmetry
INVARIANTS RateIsLimited AnswersAreAudited OnlyOverlapsLose BudgetIsKept
CHECK_DEADLOCK FALSE
