\* One campaign, two pledge ids, no symmetry: liveness under FairSpec.
CONSTANTS
    Campaigns = {c1}
    Wallets = {w1, w2}
    PledgeIds = {p1, p2}
    U64Max = 12
    MaxBlock = 10
    MIN_PLEDGE_AMOUNT = 2
    MAX_FEE = 1
    GRACE_PERIOD_BLOCKS = 2
    PledgeOccupied = 2
    Goals = {3}
    Deadlines = {2}
    Amounts = {2, 3}
    CampaignCapacity = 3
    Horizon = 4
SPECIFICATION FairSpec
PROPERTY EveryCampaignDecided
PROPERTY EveryPledgeSettled
