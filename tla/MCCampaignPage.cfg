\* Loads that overlap, one restart of the indexer, one fault, one second run of the
\* effect, a campaign that one pledge funds, opened by its creation out point.  Its two
\* versions after the creation are one more than a walk goes back.
CONSTANTS
    Goal = 1
    Deadline = 1
    Links = {0}
    Loads = {l1, l2}
    None = None
    Unlisted = Unlisted
    MAX_CAMPAIGN_HISTORY_HOPS = 1
    MaxPledges = 1
    Horizon = 1
    MaxBoots = 2
    MaxFaults = 1
SPECIFICATION FairSpec
INVARIANT NotFoundHonest
INVARIANT ShownOutcomeStands
PROPERTY ReadyIsFinal
PROPERTY StaysShown
PROPERTY PageConverges
