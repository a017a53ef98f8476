\* A page opened by the out point that the first of two pledges made.
CONSTANTS
    Goal = 2
    Deadline = 1
    Links = {1}
    Loads = {l1}
    None = None
    Unlisted = Unlisted
    MAX_CAMPAIGN_HISTORY_HOPS = 2
    MaxPledges = 2
    Horizon = 1
    MaxBoots = 1
    MaxFaults = 0
SPECIFICATION Spec
INVARIANT LinkResolves
