------------------------------ MODULE Contracts ------------------------------
(***************************************************************************)
(* The five CKB scripts of the crowdfunding protocol, as predicates over a *)
(* transaction: the campaign type and lock scripts, the pledge type and    *)
(* lock scripts and the receipt type script.  A script accepts exactly     *)
(* when its predicate holds; the error code it returns otherwise is left   *)
(* out.                                                                    *)
(*                                                                         *)
(* A transaction is a record of the cells it consumes and creates, kind by *)
(* kind, the `since` of the script-locked inputs, the live cells it cites  *)
(* as cell deps, and what its outputs pay to each wallet's own lock.  A    *)
(* cell's script hashes are abstracted to what they commit to: a campaign  *)
(* is its TypeID, a pledge lock is (campaign, deadline, backer).           *)
(***************************************************************************)
EXTENDS Integers, FiniteSets, FiniteSetsExt

CONSTANTS
    Campaigns,             \* TypeIDs of campaign cells
    Wallets,               \* lock hashes of creators and backers
    PledgeIds,             \* out points of pledge and receipt cells
    U64Max,                \* largest u64
    MaxBlock,              \* largest block number a `since` can hold: 56 of its 64 bits
    MIN_PLEDGE_AMOUNT,     \* smallest new pledge a campaign counts
    MAX_FEE,               \* what a settlement may cost the receiver
    GRACE_PERIOD_BLOCKS,   \* blocks past the deadline until the fail-safe opens
    PledgeOccupied         \* storage cost of a pledge cell

ASSUME U64Assumption == U64Max \in Nat
ASSUME BlockAssumption == MaxBlock \in Nat /\ MaxBlock < U64Max
ASSUME LimitsAssumption ==
    /\ MIN_PLEDGE_AMOUNT \in Nat
    /\ MAX_FEE \in Nat
    /\ GRACE_PERIOD_BLOCKS \in Nat
    /\ PledgeOccupied \in Nat
\* MAX_FEE is what one byte of a cell costs; a pledge cell takes more than one.
ASSUME FeeAssumption == MAX_FEE <= PledgeOccupied

-----------------------------------------------------------------------------
(* Data                                                                     *)

U64 == 0 .. U64Max

CampaignStatus == {"Active", "Success", "Failed"}

CampaignCell ==
    [id : Campaigns, creator : Wallets, goal : U64, deadline : U64,
     total : U64, status : CampaignStatus, capacity : U64]

PledgeCell ==
    [id : PledgeIds, campaign : Campaigns, deadline : U64, backer : Wallets,
     amount : U64, capacity : U64]

ReceiptCell ==
    [id : PledgeIds, campaign : Campaigns, deadline : U64, backer : Wallets,
     amount : U64]

Transaction ==
    [since : 0 .. MaxBlock, deps : SUBSET CampaignCell,
     campIn : SUBSET CampaignCell, campOut : SUBSET CampaignCell,
     pledgeIn : SUBSET PledgeCell, pledgeOut : SUBSET PledgeCell,
     receiptIn : SUBSET ReceiptCell, receiptOut : SUBSET ReceiptCell,
     pay : [Wallets -> U64]]

\* u64 arithmetic of the scripts: saturating_sub and saturating_add.
SatSub(a, b) == IF a >= b THEN a - b ELSE 0

SatAdd(a, b) == IF a + b <= U64Max THEN a + b ELSE U64Max

Amount(P) == SumFunction([p \in P |-> p.amount])
Capacity(P) == SumFunction([p \in P |-> p.capacity])

\* The args of a pledge lock; cells with equal args share one script group.
LockOf(p) == [campaign |-> p.campaign, deadline |-> p.deadline, backer |-> p.backer]
Group(P, lock) == {p \in P : LockOf(p) = lock}

AtMostOne(S) == \A x, y \in S : x = y

-----------------------------------------------------------------------------
(* Campaign type script                                                     *)

\* CampaignData::validate_creation, and TypeID: an id is minted once, ever.
CampaignCreation(new) ==
    /\ new.goal > 0
    /\ new.deadline > 0
    /\ new.total = 0
    /\ new.status = "Active"

\* Mutant: the capacity check is missing.
CapacityIgnored(old, new) == new.capacity \in U64

CapacityPreserved(old, new) == new.capacity >= old.capacity

ImmutableFields(old, new) ==
    /\ new.creator = old.creator
    /\ new.goal = old.goal
    /\ new.deadline = old.deadline

Bound(P, id) == {p \in P : p.campaign = id}

\* Mutant: the counted cell need not hold what it claims.
PledgeClaimed(p) == p.amount + PledgeOccupied <= U64Max

PledgeFunded(p) ==
    /\ p.amount + PledgeOccupied <= U64Max
    /\ p.capacity >= p.amount + PledgeOccupied

AboveMinimum(p) == p.amount >= MIN_PLEDGE_AMOUNT

\* sum_campaign_pledges refuses a counted cell that does not hold its claim.
PledgesCountable(created, consumed) ==
    /\ \A p \in created : AboveMinimum(p)
    /\ \A p \in created \cup consumed : PledgeFunded(p)
    /\ Amount(created) \in U64
    /\ Amount(consumed) \in U64

\* Mutant: any larger total will do.
TotalLarger(old, new, created, consumed) ==
    /\ Amount(created) > Amount(consumed)
    /\ new.total > old.total

\* Mutant: the sum wraps.
TotalWrapped(old, new, created, consumed) ==
    /\ Amount(created) > Amount(consumed)
    /\ new.total = (old.total + (Amount(created) - Amount(consumed))) % (U64Max + 1)

\* The new total is the old one plus the net pledge inflow, which is positive.
TotalAdvanced(old, new, created, consumed) ==
    /\ Amount(created) > Amount(consumed)
    /\ new.total = old.total + (Amount(created) - Amount(consumed))
    /\ new.total <= U64Max

PledgeUpdate(old, new, tx) ==
    LET created  == Bound(tx.pledgeOut, old.id)
        consumed == Bound(tx.pledgeIn, old.id)
    IN  /\ old.status = "Active"
        /\ ImmutableFields(old, new)
        /\ PledgesCountable(created, consumed)
        /\ TotalAdvanced(old, new, created, consumed)

\* Mutants: a goal met exactly counts as missed, or as neither.
StatusMissedAtGoal(status, total, goal) ==
    \/ status = "Success" /\ total > goal
    \/ status = "Failed" /\ total <= goal

StatusUndecidedAtGoal(status, total, goal) ==
    \/ status = "Success" /\ total > goal
    \/ status = "Failed" /\ total < goal

StatusJustified(status, total, goal) ==
    \/ status = "Success" /\ total >= goal
    \/ status = "Failed" /\ total < goal

\* Mutants: any since will do; the block itself comes too early.
SinceGiven(tx, block) == tx.since > 0 /\ block \in U64
SincePassed(tx, block) == tx.since > block

SinceReached(tx, block) == tx.since > 0 /\ tx.since >= block

Finalization(old, new, tx) ==
    /\ SinceReached(tx, old.deadline)
    /\ old.status = "Active"
    /\ ImmutableFields(old, new)
    /\ new.total = old.total
    /\ StatusJustified(new.status, old.total, old.goal)

GraceDeadline(deadline) == SatAdd(deadline, GRACE_PERIOD_BLOCKS)

\* Mutant: destruction waits for the deadline only.
DestructionAfterDeadline(old, tx) == SinceReached(tx, old.deadline)

DestructionAfterGrace(old, tx) == SinceReached(tx, GraceDeadline(old.deadline))

DestructionPaysCreator(old, tx) ==
    /\ tx.pledgeIn = {}
    /\ tx.pay[old.creator] >= SatSub(old.capacity, MAX_FEE)

\* Mutant: an id may be minted again.
CampaignTypeReminted(tx, id, minted) ==
    LET in  == {c \in tx.campIn : c.id = id}
        out == {c \in tx.campOut : c.id = id}
    IN  /\ AtMostOne(in)
        /\ AtMostOne(out)
        /\ in = {} => \A new \in out : CampaignCreation(new)
        /\ \A old \in in, new \in out :
              /\ CapacityPreserved(old, new)
              /\ IF new.status = "Active" THEN PledgeUpdate(old, new, tx)
                                          ELSE Finalization(old, new, tx)
        /\ out = {} => \A old \in in :
              /\ old.status # "Active"
              /\ DestructionPaysCreator(old, tx)
              /\ DestructionAfterGrace(old, tx)

\* The type script run on the cells of campaign `id`; `minted` are the TypeIDs
\* that exist or have existed.
CampaignType(tx, id, minted) ==
    LET in  == {c \in tx.campIn : c.id = id}
        out == {c \in tx.campOut : c.id = id}
    IN  /\ AtMostOne(in)
        /\ AtMostOne(out)
        /\ in = {} => \A new \in out : id \notin minted /\ CampaignCreation(new)
        /\ \A old \in in, new \in out :
              /\ CapacityPreserved(old, new)
              /\ IF new.status = "Active" THEN PledgeUpdate(old, new, tx)
                                          ELSE Finalization(old, new, tx)
        /\ out = {} => \A old \in in :
              /\ old.status # "Active"
              /\ DestructionPaysCreator(old, tx)
              /\ DestructionAfterGrace(old, tx)

-----------------------------------------------------------------------------
(* Campaign lock script                                                     *)

\* Outputs under the lock of `old` that carry an Active campaign.  The lock
\* commits to the deadline alone.  The script stops at the first of them; each
\* is a campaign of its own type script group, and the clients make one.
CarriedForward(old, tx) ==
    {c \in tx.campOut : c.deadline = old.deadline /\ c.status = "Active"}

CampaignLock(tx, old) ==
    IF CarriedForward(old, tx) # {}
    THEN \A c \in CarriedForward(old, tx) : CapacityPreserved(old, c)
    ELSE SinceReached(tx, old.deadline)

-----------------------------------------------------------------------------
(* Pledge lock script                                                       *)

\* Mutant: whichever campaign is cited.
AnyCampaignDep(tx, lock) == {c \in tx.deps : lock.campaign \in Campaigns}

\* find_campaign_in_cell_deps: at most one cell, for a dep is a live cell.
CampaignDep(tx, lock) == {c \in tx.deps : c.id = lock.campaign}

\* Mutants: no other backer's pledges, or anything, may be settled alongside.
OnlyPledgesOfBacker(tx, lock) == \A p \in tx.pledgeIn : p.backer = lock.backer
AnyPledgesAlongside(tx, lock) == Group(tx.pledgeIn, lock) # {}

\* ensure_only_pledge_group_in_inputs
OnlyPledgeGroup(tx, lock) == tx.pledgeIn = Group(tx.pledgeIn, lock)

\* sum_group_inputs: a claim is never taken for more than the cell holds.
HeldAmount(P) ==
    SumFunction([p \in P |-> IF p.amount <= p.capacity THEN p.amount ELSE p.capacity])

Release(tx, lock, campaign) ==
    LET group    == Group(tx.pledgeIn, lock)
        overhead == Capacity(group) - HeldAmount(group)
    IN  /\ OnlyPledgeGroup(tx, lock)
        /\ Capacity(group) <= U64Max
        /\ IF campaign.creator = lock.backer
           THEN tx.pay[lock.backer] >= SatSub(Capacity(group), MAX_FEE)
           ELSE /\ tx.pay[campaign.creator] >= HeldAmount(group)
                /\ tx.pay[lock.backer] >= SatSub(overhead, MAX_FEE)

Refund(tx, lock) ==
    LET group == Group(tx.pledgeIn, lock)
    IN  /\ OnlyPledgeGroup(tx, lock)
        /\ Capacity(group) <= U64Max
        /\ tx.pay[lock.backer] >= SatSub(Capacity(group), MAX_FEE)

\* Mutant: the merged cell may hold less than the cells it replaces.
MergeLockLossy(tx, lock) ==
    LET group  == Group(tx.pledgeIn, lock)
        merged == Group(tx.pledgeOut, lock)
    IN  /\ ~AtMostOne(group)
        /\ merged # {} /\ AtMostOne(merged)
        /\ \A m \in merged : m.amount = Amount(group)

\* validate_merge: two or more cells into one with the same lock, the same
\* type, the same capacity and the same amount.
MergeLock(tx, lock) ==
    LET group  == Group(tx.pledgeIn, lock)
        merged == Group(tx.pledgeOut, lock)
    IN  /\ ~AtMostOne(group)
        /\ merged # {} /\ AtMostOne(merged)
        /\ \A m \in merged : /\ m.capacity = Capacity(group)
                             /\ m.amount = Amount(group)

\* Mutant: a Failed campaign opens no refund.
PledgeLockNoRefund(tx, lock) ==
    IF tx.since = 0
    THEN MergeLock(tx, lock)
    ELSE /\ SinceReached(tx, lock.deadline)
         /\ IF CampaignDep(tx, lock) = {}
            THEN /\ SinceReached(tx, GraceDeadline(lock.deadline))
                 /\ Refund(tx, lock)
            ELSE \A c \in CampaignDep(tx, lock) :
                    c.status = "Success" /\ Release(tx, lock, c)

PledgeLock(tx, lock) ==
    IF tx.since = 0
    THEN MergeLock(tx, lock)
    ELSE /\ SinceReached(tx, lock.deadline)
         /\ IF CampaignDep(tx, lock) = {}
            THEN /\ SinceReached(tx, GraceDeadline(lock.deadline))
                 /\ Refund(tx, lock)
            ELSE \A c \in CampaignDep(tx, lock) :
                    \/ c.status = "Success" /\ Release(tx, lock, c)
                    \/ c.status = "Failed" /\ Refund(tx, lock)

-----------------------------------------------------------------------------
(* Pledge type script: all pledge cells share it, so they are one group     *)

\* validate_merge_pledge
MergeType(in, out) ==
    /\ \A p, q \in in \cup out : p.campaign = q.campaign
    /\ \A m \in out : m.amount = Amount(in)

\* validate_partial_refund: the difference is what the first receipt says.
PartialRefund(in, out, receipts) ==
    \A p \in in, q \in out :
        /\ p.campaign = q.campaign
        /\ q.amount < p.amount
        /\ \E r \in receipts : p.amount - q.amount = r.amount

PledgeType(tx) ==
    LET in  == tx.pledgeIn
        out == tx.pledgeOut
    IN  /\ in = {} /\ out # {} => \E p \in out : p.amount > 0
        /\ in # {} /\ out # {} =>
              /\ AtMostOne(out)
              /\ IF AtMostOne(in) THEN PartialRefund(in, out, tx.receiptIn)
                                  ELSE MergeType(in, out)

-----------------------------------------------------------------------------
(* Receipt type script: it reads the first receipt of its group, and of the *)
(* pledges of the transaction the first output; clients make one pledge.    *)
(* A refund next to the receipt has to be in one output, here in their sum. *)

ReceiptCreation(r, tx) ==
    /\ r.amount > 0
    /\ \E p \in tx.pledgeOut : /\ p.amount = r.amount
                               /\ LockOf(p) = LockOf(r)

\* Mutant: an Active campaign cell counts as settled.
CampaignCited(r, tx) ==
    \/ CampaignDep(tx, LockOf(r)) # {}
    \/ SinceReached(tx, GraceDeadline(r.deadline))

CampaignSettled(r, tx) ==
    \/ \E c \in CampaignDep(tx, LockOf(r)) : c.status # "Active"
    \/ SinceReached(tx, GraceDeadline(r.deadline))

ReceiptDestruction(r, tx) ==
    \/ CampaignSettled(r, tx)
    \/ tx.pledgeIn # {} /\ tx.pay[r.backer] >= SatSub(r.amount, MAX_FEE)

ReceiptType(tx) ==
    /\ tx.receiptIn = {} \/ tx.receiptOut = {}
    /\ tx.receiptOut # {} => \E r \in tx.receiptOut : ReceiptCreation(r, tx)
    /\ tx.receiptIn # {} => \E r \in tx.receiptIn : ReceiptDestruction(r, tx)

-----------------------------------------------------------------------------
\* Every script of the transaction accepts it.
ScriptsAccept(tx, minted) ==
    /\ \A id \in {c.id : c \in tx.campIn \cup tx.campOut} : CampaignType(tx, id, minted)
    /\ \A c \in tx.campIn : CampaignLock(tx, c)
    /\ \A lock \in {LockOf(p) : p \in tx.pledgeIn} : PledgeLock(tx, lock)
    /\ PledgeType(tx)
    /\ ReceiptType(tx)

=============================================================================
