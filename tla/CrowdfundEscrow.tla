--------------------------- MODULE CrowdfundEscrow ---------------------------
(***************************************************************************)
(* The ledger of cells and scripts implements the escrow accounts: cells   *)
(* that come, merge and go add up to the accounts, and the accumulator the *)
(* scripts maintain decides as the money in escrow would.                  *)
(***************************************************************************)
EXTENDS Crowdfund, TLC

Symmetry == Permutations(Campaigns) \cup Permutations(Wallets) \cup Permutations(PledgeIds)

CellsOf(id) == {c \in campaigns : c.id = id}

PhaseOf(id) ==
    IF id \notin minted THEN "Unborn"
    ELSE IF CellsOf(id) = {} THEN "Gone"
    ELSE (CHOOSE c \in CellsOf(id) : TRUE).status

TermsOf(id) ==
    IF CellsOf(id) = {} THEN [goal |-> 0, deadline |-> 0]
    ELSE LET c == CHOOSE c \in CellsOf(id) : TRUE
         IN  [goal |-> c.goal, deadline |-> c.deadline]

PaidBy(how) == [id \in Campaigns |-> Amount(Settled(id, {how}))]

Accounts == INSTANCE Escrow WITH
    Limit    <- U64Max,
    Grace    <- GRACE_PERIOD_BLOCKS,
    Minimum  <- MIN_PLEDGE_AMOUNT,
    now      <- height,
    phase    <- [id \in Campaigns |-> PhaseOf(id)],
    terms    <- [id \in Campaigns |-> TermsOf(id)],
    held     <- [id \in Campaigns |-> Amount(Bound(pledges, id))],
    paid     <- PaidBy("released"),
    returned <- PaidBy("refunded"),
    rescued  <- PaidBy("rescued")

\* Every behaviour of the ledger is one of the escrow accounts: a merge, a
\* reclaimed receipt and an output of fees leave them alone, and nothing else
\* moves money than what the accounts allow.
ImplementsEscrow == Accounts!Spec

=============================================================================
