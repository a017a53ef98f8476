\* One campaign, two wallets that may each be creator and backer, three pledge
\* ids: two pledges and their merge, or three pledges; against the escrow accounts.
CONSTANTS
    Campaigns = {c1}
    Wallets = {w1, w2}
    PledgeIds = {p1, p2, p3}
    U64Max = 12
    MaxBlock = 10
    MIN_PLEDGE_AMOUNT = 2
    MAX_FEE = 1
    GRACE_PERIOD_BLOCKS = 2
    PledgeOccupied = 2
    Goals = {4}
    Deadlines = {2}
    Amounts = {1, 2, 3}
    CampaignCapacity = 3
    Horizon = 4
SPECIFICATION Spec
SYMMETRY Symmetry
INVARIANT LedgerInv
INVARIANT OneCampaignCell
INVARIANT AccumulatorExact
INVARIANT OutcomeJustified
INVARIANT SuccessIsFunded
INVARIANT AllOrNothing
INVARIANT EscrowUntilDeadline
INVARIANT PaidInFull
INVARIANT ReceiptsMatchPledges
INVARIANT NoLockout
INVARIANT NeverStuck
PROPERTY CampaignCarriedForward
PROPERTY EscrowConserved
PROPERTY ImplementsEscrow
