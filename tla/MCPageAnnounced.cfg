\* A pledge after the deadline.  No fault and no restart.
CONSTANTS
    Goal = 1
    Deadline = 1
    Links = {0}
    Loads = {l1}
    None = None
    Unlisted = Unlisted
    MAX_CAMPAIGN_HISTORY_HOPS = 2
    MaxPledges = 1
    Horizon = 2
    MaxBoots = 1
    MaxFaults = 0
SPECIFICATION Spec
INVARIANT AnnouncedFailureStands
