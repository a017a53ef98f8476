------------------------------ MODULE Crowdfund ------------------------------
(***************************************************************************)
(* The crowdfunding ledger: the live cells of the protocol on a CKB chain  *)
(* and the transactions its clients (the transaction builder, the web      *)
(* page, the finalization bot) submit.  A step commits one transaction:    *)
(* its inputs and deps are live, its `since` is mature and every script    *)
(* accepts it (module Contracts), or produces a block.                     *)
(*                                                                         *)
(* A transaction has the shape its client gives it.  The figures the       *)
(* client writes into it (a total, a status, a capacity, a payout, a       *)
(* since) are chosen freely among a few values, for each client computes   *)
(* them from what it last read; the scripts decide which are accepted.     *)
(***************************************************************************)
EXTENDS Contracts

CONSTANTS
    Goals, Deadlines, Amounts,   \* what campaign and pledge forms are filled with
    CampaignCapacity,            \* capacity a campaign cell is created with
    Horizon                      \* heights from here on are not told apart

ASSUME FormsAssumption ==
    /\ Goals \subseteq U64
    /\ Deadlines \subseteq U64
    /\ Amounts \subseteq U64
    /\ CampaignCapacity \in U64
    /\ Horizon \in 0 .. MaxBlock

VARIABLES
    height,        \* block height
    campaigns,     \* live campaign cells
    minted,        \* TypeIDs of the campaigns created so far
    pledges,       \* live pledge cells
    receipts,      \* live receipt cells
    usedIds,       \* pledge ids handed out so far
    settlements    \* history: the transactions that took pledges out of escrow

vars == <<height, campaigns, minted, pledges, receipts, usedIds, settlements>>

Outcomes == {"released", "refunded", "rescued"}

Settlement == [pledges : SUBSET PledgeCell, how : Outcomes, pay : [Wallets -> U64]]

TypeOK ==
    /\ height \in 0 .. Horizon
    /\ campaigns \subseteq CampaignCell
    /\ minted \subseteq Campaigns
    /\ pledges \subseteq PledgeCell
    /\ receipts \subseteq ReceiptCell
    /\ usedIds \subseteq PledgeIds
    /\ settlements \subseteq Settlement
    /\ \A p \in pledges \cup receipts : p.id \in usedIds
    /\ \A p, q \in pledges : p.id = q.id => p = q

Init ==
    /\ height = 0
    /\ campaigns = {}
    /\ minted = {}
    /\ pledges = {}
    /\ receipts = {}
    /\ usedIds = {}
    /\ settlements = {}

-----------------------------------------------------------------------------
(* Committing a transaction                                                 *)

NoPay == [w \in Wallets |-> 0]

\* A transaction without protocol cells, to be filled in by the builders below.
EmptyTx ==
    [since |-> 0, deps |-> {}, campIn |-> {}, campOut |-> {},
     pledgeIn |-> {}, pledgeOut |-> {}, receiptIn |-> {}, receiptOut |-> {},
     pay |-> NoPay]

\* The branch of the pledge lock that let the pledges of `tx` go.
HowSettled(tx) ==
    LET cited(status) == \E p \in tx.pledgeIn :
                            \E c \in CampaignDep(tx, LockOf(p)) : c.status = status
    IN  IF cited("Success") THEN "released"
        ELSE IF cited("Failed") THEN "refunded" ELSE "rescued"

SettlementOf(tx) == [pledges |-> tx.pledgeIn, how |-> HowSettled(tx), pay |-> tx.pay]

\* Consensus: inputs and deps are live, since is mature, out points are new,
\* scripts accept.  No client creates two pledge cells at once.
Valid(tx) ==
    /\ tx.since <= height
    /\ tx.campIn \cup tx.deps \subseteq campaigns
    /\ tx.pledgeIn \subseteq pledges
    /\ tx.receiptIn \subseteq receipts
    /\ \A r \in tx.pledgeOut \cup tx.receiptOut : r.id \notin usedIds
    /\ AtMostOne(tx.pledgeOut)
    /\ ScriptsAccept(tx, minted)
    /\ tx \in Transaction

Commit(tx) ==
    /\ Valid(tx)
    /\ campaigns' = (campaigns \ tx.campIn) \cup tx.campOut
    /\ minted' = minted \cup {c.id : c \in tx.campOut}
    /\ pledges' = (pledges \ tx.pledgeIn) \cup tx.pledgeOut
    /\ receipts' = (receipts \ tx.receiptIn) \cup tx.receiptOut
    /\ usedIds' = usedIds \cup {p.id : p \in tx.pledgeOut \cup tx.receiptOut}
    /\ settlements' = IF tx.pledgeIn # {} /\ tx.pledgeOut = {}
                      THEN settlements \cup {SettlementOf(tx)}
                      ELSE settlements
    /\ UNCHANGED height

\* A figure a client writes down: the exact one, or one short of it.
Figure(exact) == {exact, exact - 1} \cap U64

-----------------------------------------------------------------------------
(* Transactions of the clients                                              *)

CreateTx(id, creator, goal, deadline) ==
    [EmptyTx EXCEPT !.campOut =
        {[id |-> id, creator |-> creator, goal |-> goal, deadline |-> deadline,
          total |-> 0, status |-> "Active", capacity |-> CampaignCapacity]}]

\* submitPledgeWithReceipt: re-create the campaign cell with `total`, and
\* create a pledge cell and its receipt.
PledgeTx(old, id, backer, amount, capacity, total) ==
    LET lock   == [id |-> id, campaign |-> old.id, deadline |-> old.deadline,
                   backer |-> backer, amount |-> amount]
        pledge == [id |-> id, campaign |-> old.id, deadline |-> old.deadline,
                   backer |-> backer, amount |-> amount, capacity |-> capacity]
    IN  [EmptyTx EXCEPT !.campIn = {old},
                        !.campOut = {[old EXCEPT !.total = total]},
                        !.pledgeOut = {pledge},
                        !.receiptOut = {lock}]

MergeTx(P, lock, id, amount, capacity) ==
    [EmptyTx EXCEPT
        !.pledgeIn = P,
        !.pledgeOut = {[id |-> id, campaign |-> lock.campaign, deadline |-> lock.deadline,
                        backer |-> lock.backer, amount |-> amount, capacity |-> capacity]}]

FinalizeTx(old, status, capacity, since) ==
    [EmptyTx EXCEPT !.since = since,
                    !.campIn = {old},
                    !.campOut = {[old EXCEPT !.status = status, !.capacity = capacity]}]

\* permissionlessRelease and permissionlessRefund differ in what they pay.
SettleTx(P, deps, since, pay) ==
    [EmptyTx EXCEPT !.since = since, !.deps = deps, !.pledgeIn = P, !.pay = pay]

ReclaimTx(R, deps, since) ==
    [EmptyTx EXCEPT !.since = since, !.deps = deps, !.receiptIn = R]

DestroyTx(old, since, pay) ==
    [EmptyTx EXCEPT !.since = since, !.campIn = {old}, !.pay = pay]

-----------------------------------------------------------------------------
(* What a settlement pays                                                   *)

OfBacker(P, w) == {p \in P : p.backer = w}

\* The storage overhead of w's pledges in P, less the fee taken from it.
OverheadTo(P, w, fee) ==
    IF OfBacker(P, w) = {} THEN 0
    ELSE Capacity(OfBacker(P, w)) - Amount(OfBacker(P, w)) - fee

\* Mutant: the backer is charged the largest fee, the creator gets the rest.
ReleasePayRest(P, creator, share, fee) ==
    [w \in Wallets |-> OverheadTo(P, w, MAX_FEE)
                         + IF w = creator THEN share + MAX_FEE - fee ELSE 0]

\* permissionlessRelease: the pledged amount to the creator, the overhead back.
ReleasePay(P, creator, share, fee) ==
    [w \in Wallets |-> OverheadTo(P, w, fee) + IF w = creator THEN share ELSE 0]

\* permissionlessRefund: everything back to the backer, less the fee.
RefundPay(P, fee) ==
    [w \in Wallets |-> IF OfBacker(P, w) = {} THEN 0
                       ELSE Capacity(OfBacker(P, w)) - fee]

Fees == {MAX_FEE, MAX_FEE + 1}

\* The creator's output is sized for the whole batch or for one of its pledges.
Shares(P) == {Amount(P)} \cup {p.amount : p \in P}

-----------------------------------------------------------------------------
(* Actions                                                                  *)

CreateCampaign(id) ==
    \E creator \in Wallets, goal \in Goals, deadline \in Deadlines :
        Commit(CreateTx(id, creator, goal, deadline))

Pledge(id) ==
    \E old \in campaigns, backer \in Wallets, amount \in Amounts :
        \E capacity \in Figure(amount + PledgeOccupied), total \in U64 :
            Commit(PledgeTx(old, id, backer, amount, capacity, total))

\* mergeContributions: the caller passes the cells to merge, with the lock args,
\* amounts and capacities it believes they have.
Merge(id) ==
    \E P \in SUBSET pledges, lock \in {LockOf(p) : p \in pledges} :
        \E amount \in Figure(Amount(P)), capacity \in Figure(Capacity(P)) :
            /\ ~AtMostOne(P)
            /\ Commit(MergeTx(P, lock, id, amount, capacity))

FinalizeCampaign(id) ==
    \E old \in {c \in campaigns : c.id = id} :
        \E status \in CampaignStatus, capacity \in Figure(old.capacity), since \in 1 .. height :
            Commit(FinalizeTx(old, status, capacity, since))

\* A release cites the campaign cell the caller believes in.  The page and the
\* bot settle one pledge per transaction; anyone may settle several, and the
\* scripts have to hold for that.
ReleasePledges(P) ==
    \E dep \in campaigns, since \in 1 .. height, share \in Shares(P), fee \in Fees :
        Commit(SettleTx(P, {dep}, since, ReleasePay(P, dep.creator, share, fee)))

RefundPledges(P) ==
    \E dep \in campaigns, since \in 1 .. height, fee \in Fees :
        Commit(SettleTx(P, {dep}, since, RefundPay(P, fee)))

\* The fail-safe: permissionlessRefund without its optional campaignCellDep.
RescuePledges(P) ==
    \E since \in 1 .. height, fee \in Fees :
        Commit(SettleTx(P, {}, since, RefundPay(P, fee)))

\* One wallet's receipts of one campaign, all in one transaction.
ReclaimReceipts(w) ==
    \E R \in SUBSET {r \in receipts : r.backer = w} :
        \E deps \in {{}} \cup {{c} : c \in campaigns}, since \in 0 .. height :
            /\ R # {}
            /\ \A r, q \in R : r.campaign = q.campaign
            /\ Commit(ReclaimTx(R, deps, since))

DestroyCampaign(id) ==
    \E old \in {c \in campaigns : c.id = id}, since \in 1 .. height, fee \in Fees :
        Commit(DestroyTx(old, since,
                         [NoPay EXCEPT ![old.creator] = SatSub(old.capacity, fee)]))

NewBlock ==
    /\ height' = IF height < Horizon THEN height + 1 ELSE Horizon
    /\ UNCHANGED <<campaigns, minted, pledges, receipts, usedIds, settlements>>

Next ==
    \/ \E id \in Campaigns : CreateCampaign(id)
    \/ \E id \in PledgeIds : Pledge(id)
    \/ \E id \in PledgeIds : Merge(id)
    \/ \E id \in Campaigns : FinalizeCampaign(id)
    \/ \E P \in (SUBSET pledges) \ {{}} : ReleasePledges(P)
    \/ \E P \in (SUBSET pledges) \ {{}} : RefundPledges(P)
    \/ \E P \in (SUBSET pledges) \ {{}} : RescuePledges(P)
    \/ \E w \in Wallets : ReclaimReceipts(w)
    \/ \E id \in Campaigns : DestroyCampaign(id)
    \/ NewBlock

Spec == Init /\ [][Next]_vars

LiveAs(id) == {p \in pledges : p.id = id}

\* What the clients keep trying: blocks are produced; anyone may finalize an
\* expired campaign and settle a pledge of a terminal one, and the bot does
\* both on every poll.  Nothing else is owed: no client sends the fail-safe
\* refund, and creators and backers act when they please.
Fairness ==
    /\ WF_vars(NewBlock)
    /\ \A id \in Campaigns : WF_vars(FinalizeCampaign(id))
    /\ \A id \in PledgeIds :
          /\ WF_vars(\E p \in LiveAs(id) : ReleasePledges({p}))
          /\ WF_vars(\E p \in LiveAs(id) : RefundPledges({p}))

FairSpec == Spec /\ Fairness

-----------------------------------------------------------------------------
(* Safety                                                                   *)

\* The grace period of a pledge or campaign is over.
GraceOver(cell) == height >= cell.deadline + GRACE_PERIOD_BLOCKS

\* Everything that left escrow with outcome `how`, of campaign id.
Settled(id, how) ==
    Bound(UNION {s.pledges : s \in {t \in settlements : t.how \in how}}, id)

\* TypeID: a campaign id names one live cell at most.
OneCampaignCell == \A c, d \in campaigns : c.id = d.id => c = d

\* The accumulator of a campaign cell counts every pledge ever made to it once,
\* whether it is still in escrow, was merged with others, or was paid out
\* (sum_campaign_pledges and validate_pledge_update).
AccumulatorExact ==
    \A c \in campaigns :
        c.total = Amount(Bound(pledges, c.id)) + Amount(Settled(c.id, Outcomes))

\* A terminal status is what the accumulator says, for as long as the cell
\* lives (check_status_justified, and the total frozen after finalization).
OutcomeJustified ==
    \A c \in campaigns :
        c.status # "Active" => (c.status = "Success" <=> c.total >= c.goal)

\* Success means money: until the fail-safe opens, the capacity locked in the
\* campaign's pledges beyond their storage cost, with what was already
\* released, covers the goal (the reason for PledgeFunded at creation).
SuccessIsFunded ==
    \A c \in campaigns :
        c.status = "Success" /\ ~GraceOver(c) =>
            LET live == Bound(pledges, c.id)
            IN  /\ Capacity(live) - PledgeOccupied * Cardinality(live)
                      + Amount(Settled(c.id, {"released"})) >= c.goal
                /\ Settled(c.id, {"refunded", "rescued"}) = {}

\* All or nothing: no campaign pays its creator from one pledge and refunds
\* another, the fail-safe aside (the status branch of the pledge lock).
AllOrNothing ==
    \A s, t \in settlements :
        s.how = "released" /\ t.how = "refunded" =>
            \A p \in s.pledges, q \in t.pledges : p.campaign # q.campaign

\* Escrow holds until the deadline, and the fail-safe until the grace period is
\* over (the since checks of the pledge lock).
EscrowUntilDeadline ==
    \A s \in settlements : \A p \in s.pledges :
        /\ height >= p.deadline
        /\ s.how = "rescued" => GraceOver(p)

\* What a settlement owes wallet w if campaign creators are `creator`: released
\* amounts to the creator, the rest of each cell to its backer.
Due(s, creator, w) ==
    LET own == OfBacker(s.pledges, w)
    IN  IF s.how # "released" THEN Capacity(own)
        ELSE Capacity(own) - Amount(own) + IF w = creator THEN Amount(s.pledges) ELSE 0

\* Every settlement pays in full: the creator exactly the amounts pledged, each
\* backer everything else, at most MAX_FEE short.  One output never stands for
\* two pledges (ensure_only_pledge_group_in_inputs, validate_release).
PaidInFull ==
    \A s \in settlements : \E creator \in Wallets :
        /\ \A c \in campaigns, p \in s.pledges : c.id = p.campaign => creator = c.creator
        /\ \A w \in Wallets :
              s.pay[w] >= Due(s, creator, w) - IF OfBacker(s.pledges, w) = {} THEN 0 ELSE MAX_FEE

\* While a campaign is undecided, the receipts in a backer's wallet add up to
\* the backer's pledges in escrow, merged or not (validate_receipt_creation,
\* campaign_settled).
ReceiptsMatchPledges ==
    \A c \in campaigns, w \in Wallets :
        c.status = "Active" /\ ~GraceOver(c) =>
            Amount(OfBacker(Bound(receipts, c.id), w)) = Amount(OfBacker(Bound(pledges, c.id), w))

\* A campaign cell is never gone before its backers can do without it: once it
\* is destroyed, the fail-safe of each remaining pledge is open (M-01,
\* validate_destruction_after_grace).
NoLockout ==
    \A p \in pledges : (\A c \in campaigns : c.id # p.campaign) => GraceOver(p)

\* Some transaction is valid for pledge p now: finalize its campaign, release
\* it, refund it, or rescue it by the fail-safe.
WayOut(p) ==
    \/ \E c \in campaigns, status \in CampaignStatus :
          c.id = p.campaign /\ Valid(FinalizeTx(c, status, c.capacity, c.deadline))
    \/ \E c \in campaigns :
          Valid(SettleTx({p}, {c}, p.deadline, ReleasePay({p}, c.creator, p.amount, MAX_FEE)))
    \/ \E c \in campaigns :
          Valid(SettleTx({p}, {c}, p.deadline, RefundPay({p}, MAX_FEE)))
    \/ Valid(SettleTx({p}, {}, GraceDeadline(p.deadline), RefundPay({p}, MAX_FEE)))

\* From its deadline on, no pledge in escrow is ever stuck.
NeverStuck == \A p \in pledges : height >= p.deadline => WayOut(p)

-----------------------------------------------------------------------------
(* The inductive invariant of the proofs                                    *)

\* Nothing refers to a campaign that was never created.
CampaignsMinted ==
    /\ \A c \in campaigns : c.id \in minted
    /\ \A p \in pledges : p.campaign \in minted
    /\ \A s \in settlements : \A p \in s.pledges : p.campaign \in minted

\* A pledge's lock has the deadline of its campaign, not merely one it was given.
DeadlinesAgree ==
    \A p \in pledges, c \in campaigns : c.id = p.campaign => c.deadline = p.deadline

\* What was paid out agrees with the campaign cell that is still there.
SettledByStatus ==
    \A s \in settlements : \A p \in s.pledges, c \in campaigns :
        c.id = p.campaign => /\ s.how = "released" => c.status = "Success"
                             /\ s.how = "refunded" => c.status = "Failed"

\* Inductive: TypeID, the frozen terminal status and the routing of pledges
\* support each other.
IInv ==
    /\ TypeOK
    /\ OneCampaignCell
    /\ CampaignsMinted
    /\ OutcomeJustified
    /\ DeadlinesAgree
    /\ SettledByStatus
    /\ AllOrNothing
    /\ EscrowUntilDeadline
    /\ NoLockout

\* Sums are over finitely many cells.
LedgerFinite ==
    /\ IsFiniteSet(pledges)
    /\ IsFiniteSet(receipts)
    /\ IsFiniteSet(UNION {s.pledges : s \in settlements})

\* A pledge leaves escrow once, and its out point stays taken.
SettledOnce ==
    /\ \A s \in settlements : \A p \in s.pledges : p \notin pledges /\ p.id \in usedIds
    /\ \A s, t \in settlements : s.pledges \cap t.pledges # {} => s = t

\* What was counted is there: no pledge in escrow claims more than it holds.
EscrowBacked ==
    /\ \A c \in campaigns : c.deadline > 0
    /\ \A p \in pledges : p.amount > 0 /\ p.deadline > 0 /\ PledgeFunded(p)

\* Receipts and settled pledges have the deadline of their campaign as well.
HistoryAgrees ==
    /\ \A r \in receipts : r.campaign \in minted
    /\ \A c \in campaigns, r \in receipts : c.id = r.campaign => c.deadline = r.deadline
    /\ \A c \in campaigns, s \in settlements : \A p \in s.pledges :
          c.id = p.campaign => c.deadline = p.deadline

\* Inductive: what the sums of the cells say of each other, over IInv.
LedgerInv ==
    /\ IInv
    /\ LedgerFinite
    /\ SettledOnce
    /\ EscrowBacked
    /\ HistoryAgrees
    /\ AccumulatorExact
    /\ ReceiptsMatchPledges
    /\ PaidInFull

-----------------------------------------------------------------------------
(* Action properties                                                        *)

CampaignKept(old, new) ==
    /\ ImmutableFields(old, new)
    /\ new.capacity >= old.capacity
    /\ new.total >= old.total
    /\ old.status # "Active" => new = old
    /\ new.status # old.status => new.total = old.total

CampaignsKept ==
    \A old \in campaigns, new \in campaigns' : old.id = new.id => CampaignKept(old, new)

\* A campaign cell carries its terms, never loses capacity or total, and is
\* frozen once terminal (validate_immutable_fields, validate_capacity_preserved).
CampaignCarriedForward == [][CampaignsKept]_vars

EscrowKept ==
    \A lock \in {LockOf(p) : p \in pledges} :
        LET before == Group(pledges, lock)
            after  == Group(pledges', lock)
        IN  \/ Capacity(after) >= Capacity(before) /\ Amount(after) >= Amount(before)
            \/ \E s \in settlements' \ settlements : s.pledges = before \ after

\* What a lock holds in escrow, in capacity and in amounts claimed, leaves it by
\* a settlement only: a merge moves all of it (validate_merge,
\* validate_merge_preserves_pledge, validate_merge_pledge).
EscrowConserved == [][EscrowKept]_vars

-----------------------------------------------------------------------------
(* Liveness under FairSpec                                                  *)

\* An expired campaign does not stay Active, whatever pledges keep arriving
\* after its deadline (handleFinalize, processPendingFinalizations).
EveryCampaignDecided ==
    \A id \in Campaigns :
        (\E c \in campaigns : c.id = id) ~>
            (\A c \in campaigns : c.id = id => c.status # "Active")

\* A pledge leaves escrow as itself: merged, released or refunded - unless its
\* creator destroys the campaign first, when only the fail-safe is left
\* (permissionlessRelease, permissionlessRefund, validate_destruction_after_grace).
EveryPledgeSettled ==
    \A id \in PledgeIds :
        (LiveAs(id) # {}) ~>
            (\A p \in LiveAs(id) : \A c \in campaigns : c.id # p.campaign)

=============================================================================
