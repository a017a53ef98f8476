\* One call of each client and one pledge of others: two rivals each, as many
\* as the page has retries.  All calls end, and so does the system.
CONSTANTS
    Builders = {b1}
    Pages = {g1}
    Other = Other
    PLEDGE_CONTENTION_RETRIES = 4
    PLEDGE_ATTEMPTS = 3
    MaxOthers = 1
    MaxFaults = 2
SPECIFICATION FairSpec
INVARIANT RaceInv
INVARIANT PledgedOnce
INVARIANT BeatenByOthers
PROPERTY EveryCallEnds
PROPERTY EveryPledgeLands
CHECK_DEADLOCK FALSE
