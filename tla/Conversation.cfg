SPECIFICATION Spec
CONSTANTS
    Callers = {c1, c2}
    Sessions = {s1, s2, s3}
    Lengths = {1, 5}
    SummaryLength = 2
    CharsPerToken = 2
    Threshold = 2
    KeepRecent = 1
    MaxSessions = 1
    MaxFacts = 1
    Setups <- mc_Setups
    MaxTurns = 3
    MaxFaults = 1
INVARIANTS WindowsAreSound LeastRecentGoFirst ArchivedOnce LearnedOrTold
PROPERTIES PushesEnd
CHECK_DEADLOCK FALSE
