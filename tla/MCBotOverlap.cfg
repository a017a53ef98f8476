\* No symmetry: liveness under FairSpec, with cycles that overlap.
CONSTANTS
    Campaigns = {c1}
    Pledges = {p1}
    Polls = {t1, t2}
    Boot = Boot
    NoPledge = NoPledge
    Goal = 1
    MAX_CAMPAIGN_HISTORY_HOPS = 1
    MaxFaults = 2
SPECIFICATION FairSpec
PROPERTY BotFinalizes
 
