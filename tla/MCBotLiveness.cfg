\* No symmetry: liveness under FairSpec.  Both outcomes, two pledges that move the cell.
CONSTANTS
    Campaigns = {c1}
    Pledges = {p1, p2}
    Polls = {t1}
    Boot = Boot
    NoPledge = NoPledge
    Goal = 2
    MAX_CAMPAIGN_HISTORY_HOPS = 1
    MaxFaults = 2
SPECIFICATION FairSpec
PROPERTY BotFinalizes
 
