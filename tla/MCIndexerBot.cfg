\* One campaign, two pledges, two cycles that overlap, two faults.
CONSTANTS
    Campaigns = {c1}
    Pledges = {p1, p2}
    Polls = {t1, t2}
    Boot = Boot
    NoPledge = NoPledge
    Goal = 2
    MAX_CAMPAIGN_HISTORY_HOPS = 2
    MaxFaults = 2
SPECIFICATION Spec
SYMMETRY Symmetry
INVARIANT BotInv
INVARIANT CountedPledgesListed
INVARIANT TaskCitesDecision
INVARIANT OnlyDropsForget
