\* One thread, all threads scheduled.
CONSTANTS
    Threads = {t1}
    Fetching = {t1}
    MaxUpdates = 2
    MaxEnables = 0
    MaxShocks = 0
SPECIFICATION FairSpec
PROPERTY UpdateReturns
\* The program may be done, or wait for an answer that was missed.
CHECK_DEADLOCK FALSE
