\* The nine scenarios of the four suites, in half CKB: a pledge of 100 CKB is
\* 200, its cell takes 500 (250 CKB) and a fee at most 2.  Digits have base 4
\* and a u64 four bytes of two digits, so that U64Max is 65535.
CONSTANTS
    Creator = creator
    Backer = backer
    Trigger = trigger
    First = c1
    Second = c2
    P1 = p1
    P2 = p2
    P3 = p3
    P4 = p4
    Tip = 2
    Purse = 10000
    Campaigns = {c1, c2}
    Wallets = {creator, backer, trigger}
    PledgeIds = {p1, p2, p3, p4}
    Base = 4
    Width = 4
    U64Max = 65535
    MaxBlock = 1000
    MIN_PLEDGE_AMOUNT = 200
    MAX_FEE = 2
    GRACE_PERIOD_BLOCKS = 50
    PledgeOccupied = 500
    Goals = {}
    Deadlines = {}
    Amounts = {}
    CampaignCapacity = 622
    Horizon = 100
SPECIFICATION SuiteSpec
INVARIANT BalancesExact
INVARIANT DataMatchesCell
PROPERTY EverySuitePasses
CHECK_DEADLOCK FALSE
