SPECIFICATION Spec
CONSTANTS
    o1 = o1
    o2 = o2
    o3 = o3
    d1 = d1
    d2 = d2
    c1 = c1
    c2 = c2
    Operations = {o1, o2, o3}
    Decisions = {d1, d2}
    Processes = {1, 2}
    Starts = {1, 2}
    Calls = {c1, c2}
    Asked <- MCAsked
    Marks <- MCMarks
    ValidUntil <- MCValidUntil
    ClaimedUntil <- MCClaimedUntil
    Skew = 1
    MaxRecords = 1
    MaxClock = 2
INVARIANTS TypeOK OwnAnswer ClaimsExclude AnswersDurable
CHECK_DEADLOCK FALSE
PROPERTY NoEndlessWait
