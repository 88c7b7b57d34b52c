\* Two threads ask for readings and turn detection on and off, and one of them
\* fetches the shocks, in any order.
CONSTANTS
    Threads = {t1, t2}
    Fetching = {t1}
    MaxUpdates = 2
    MaxEnables = 2
    MaxShocks = 3
SPECIFICATION Spec
INVARIANT ShocksOnce
\* The program may be done, or wait for an answer that was missed.
CHECK_DEADLOCK FALSE
