\* Two campaigns that share creators, backers and pledge ids, with totals at the
\* top of u64: a sum of pledges that overflows, a settlement that cites or pays
\* the wrong campaign.
CONSTANTS
    Campaigns = {c1, c2}
    Wallets = {w1, w2}
    PledgeIds = {p1, p2, p3}
    U64Max = 8
    MaxBlock = 6
    MIN_PLEDGE_AMOUNT = 2
    MAX_FEE = 1
    GRACE_PERIOD_BLOCKS = 2
    PledgeOccupied = 1
    Goals = {6}
    Deadlines = {4}
    Amounts = {3}
    CampaignCapacity = 3
    Horizon = 6
SPECIFICATION Spec
SYMMETRY Symmetry
INVARIANT AccumulatorExact
INVARIANT PaidInFull
INVARIANT AllOrNothing
