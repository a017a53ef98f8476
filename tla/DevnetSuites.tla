---------------------------- MODULE DevnetSuites ----------------------------
(***************************************************************************)
(* The integration suites run against a devnet (test-lifecycle.ts,         *)
(* test-v1.1-lifecycle.ts, test-phase8-accumulator.ts, test-accounting.ts) *)
(* played against the ledger of Crowdfund.  A step calls the transaction   *)
(* builder and waits for the commit, waits for a block, or submits         *)
(* something the node has to refuse; it is taken only when the node        *)
(* answers as the suite expects.  Campaign cells carry their bytes, which  *)
(* the builder reads and edits through Codec.  The suites' own balance     *)
(* checks are the invariant BalancesExact.                                 *)
(***************************************************************************)
EXTENDS Crowdfund, Codec

CONSTANTS
    Creator, Backer, Trigger,    \* the three devnet accounts
    First, Second,               \* campaigns
    P1, P2, P3, P4,              \* pledges, in the order they are made
    Tip,                         \* height at which a suite starts
    Purse                        \* what each account holds at that point

ASSUME AccountsAssumption ==
    /\ {Creator, Backer, Trigger} \subseteq Wallets
    /\ {First, Second} \subseteq Campaigns
    /\ {P1, P2, P3, P4} \subseteq PledgeIds
    /\ Tip \in Nat /\ Tip > 1 /\ Tip <= Horizon
    /\ Purse \in Nat
    /\ IsFiniteSet(Wallets)
\* A u64 is what fills its field; the fee is one CKB and the least pledge is 100.
ASSUME FieldAssumption == U64Max = Power[2 * Width] - 1
ASSUME MinimumAssumption == MAX_FEE < MIN_PLEDGE_AMOUNT

VARIABLES
    suite,       \* the suite being run
    at,          \* its next step
    text,        \* title and description of its campaigns
    data,        \* bytes of each live campaign cell
    spendable,   \* plain cells of each account
    fees         \* network fees that came out of each account's money

suiteVars == <<suite, at, text, data, spendable, fees>>
allVars == <<vars, suiteVars>>

-----------------------------------------------------------------------------
(* The suites; amounts are in CKB, of which the ledger counts halves        *)

CKB == 2

DoCreate(c, goal, blocks) == [do |-> "create", campaign |-> c, goal |-> goal * CKB, blocks |-> blocks]
DoPledge(p, c, backer, amount) ==
    [do |-> "pledge", pledge |-> p, campaign |-> c, backer |-> backer, amount |-> amount * CKB]
DoAwait == [do |-> "await"]
DoFinalize(c, signer, status) ==
    [do |-> "finalize", campaign |-> c, signer |-> signer, expected |-> status]
DoRelease(p) == [do |-> "release", pledge |-> p]
DoRefund(p) == [do |-> "refund", pledge |-> p]
DoMerge(P, p) == [do |-> "merge", pledges |-> P, pledge |-> p]
DoReclaim(p) == [do |-> "reclaim", pledge |-> p]
DoRefuse(what, c) == [do |-> "refuse", what |-> what, campaign |-> c]

SuccessLifecycle ==
    <<DoCreate(First, 100, 12), DoPledge(P1, First, Backer, 150), DoAwait,
      DoFinalize(First, Creator, "Success"), DoRelease(P1), DoReclaim(P1)>>

FailureLifecycle ==
    <<DoCreate(First, 1000, 12), DoPledge(P1, First, Backer, 100), DoAwait,
      DoFinalize(First, Creator, "Failed"), DoRefund(P1), DoReclaim(P1)>>

NonCreatorFinalization ==
    <<DoCreate(First, 100, 20), DoPledge(P1, First, Creator, 150),
      DoRefuse("early finalization", First), DoAwait,
      DoFinalize(First, Backer, "Success"), DoRelease(P1),
      DoRefuse("second finalization", First)>>

ThirdPartyRefund ==
    <<DoCreate(First, 10000, 12), DoPledge(P1, First, Backer, 100), DoAwait,
      DoFinalize(First, Trigger, "Failed"), DoRefund(P1)>>

MergeThenRelease ==
    <<DoCreate(First, 100, 40), DoPledge(P1, First, Backer, 100),
      DoPledge(P2, First, Backer, 100), DoPledge(P3, First, Backer, 100),
      DoMerge({P1, P2, P3}, P4), DoAwait, DoFinalize(First, Creator, "Success"),
      DoRelease(P4), DoReclaim(P1), DoReclaim(P2), DoReclaim(P3)>>

Accumulator ==
    <<DoCreate(First, 200, 12), DoPledge(P1, First, Backer, 100),
      DoPledge(P2, First, Backer, 150), DoRefuse("inflated total", First), DoAwait,
      DoRefuse("false outcome", First), DoRefuse("contradicted status", First),
      DoFinalize(First, Creator, "Success"), DoRelease(P1),
      DoRefuse("early destruction", First), DoRefuse("lone receipt", First)>>

Accounting ==
    <<DoCreate(First, 100, 15), DoPledge(P1, First, Backer, 150),
      DoCreate(Second, 1000, 15), DoPledge(P2, Second, Backer, 150), DoAwait,
      DoFinalize(First, Creator, "Success"), DoFinalize(Second, Creator, "Failed"),
      DoRelease(P1), DoRefund(P2), DoReclaim(P1), DoReclaim(P2)>>

\* The first two scenarios of test-v1.1-lifecycle.ts end before the reclaim.
SuccessV11 == SubSeq(SuccessLifecycle, 1, 5)
FailureV11 == SubSeq(FailureLifecycle, 1, 5)

Suites ==
    {SuccessLifecycle, FailureLifecycle, NonCreatorFinalization, ThirdPartyRefund,
     SuccessV11, FailureV11, MergeThenRelease, Accumulator, Accounting}

\* None, short, or so long that its length takes two bytes.
Texts == {<<>>, <<3, 1>>, [i \in 1 .. Byte + 1 |-> 2]}

Start ==
    /\ height = Tip
    /\ campaigns = {} /\ minted = {} /\ pledges = {} /\ receipts = {}
    /\ usedIds = {} /\ settlements = {}
    /\ suite \in Suites
    /\ at = 1
    /\ text \in [title : Texts, description : Texts]
    /\ data = [c \in Campaigns |-> <<>>]
    /\ spendable = [w \in Wallets |-> Purse]
    /\ fees = [w \in Wallets |-> 0]

-----------------------------------------------------------------------------
(* Money                                                                    *)

PledgeOverhead == CKB * CellCapacity(72, 65, 32)
ReceiptCapacity == CKB * CellCapacity(80, 65, 32)

Into(tx) ==
    Capacity(tx.campIn) + Capacity(tx.pledgeIn) + ReceiptCapacity * Cardinality(tx.receiptIn)

OutOf(tx) ==
    Capacity(tx.campOut) + Capacity(tx.pledgeOut) + ReceiptCapacity * Cardinality(tx.receiptOut)
        + SumFunction(tx.pay)

\* The signer adds `funds` to the transaction; what is left over is the fee,
\* which comes out of the money of `bearer`.
Booked(tx, signer, funds, bearer) ==
    /\ Commit(tx)
    /\ spendable' = [w \in Wallets |->
            spendable[w] + tx.pay[w] - IF w = signer THEN funds ELSE 0]
    /\ fees' = [fees EXCEPT ![bearer] = @ + Into(tx) + funds - OutOf(tx)]

\* completeFeeBy: the signer's cells make up the difference and the fee.
Funded(tx, signer) ==
    \E fee \in 1 .. MAX_FEE : Booked(tx, signer, OutOf(tx) + fee - Into(tx), signer)

\* No cell of the signer goes in: the fee comes out of what the bearer gets.
SelfPaid(tx, bearer) == Booked(tx, bearer, 0, bearer)

-----------------------------------------------------------------------------
(* Steps                                                                    *)

Now == suite[at]
Doing(what) == at <= Len(suite) /\ Now.do = what
Advance == at' = at + 1 /\ UNCHANGED <<suite, text>>

\* Every suite reads the tip once and sets its deadline so many blocks later.
Deadline == Tip + suite[1].blocks

LiveCells(id) == {c \in campaigns : c.id = id}
ReceiptsOf(id) == {r \in receipts : r.id = id}

SuiteCreates ==
    /\ Doing("create")
    /\ Funded(CreateTx(Now.campaign, Creator, Now.goal, Deadline), Creator)
    /\ data' = [data EXCEPT ![Now.campaign] =
            SerializeCampaignData([creator |-> Creator, goal |-> Now.goal, deadline |-> Deadline],
                                  text.title, text.description)]
    /\ Advance

\* submitPledgeWithReceipt on campaign data `new`.
PledgeOn(cell, new, p, backer, amount) ==
    PledgeTx(cell, p, backer, amount, PledgeOverhead + amount, ReadTotalPledged(new))

SuitePledges ==
    /\ Doing("pledge")
    /\ \E cell \in LiveCells(Now.campaign) :
          LET old == data[cell.id]
          IN  \E new \in WithTotalPledged(old, ReadTotalPledged(old) + Now.amount) :
                 /\ Funded(PledgeOn(cell, new, Now.pledge, Now.backer, Now.amount), Now.backer)
                 /\ data' = [data EXCEPT ![cell.id] = new]
    /\ Advance

SuiteAwaits ==
    /\ Doing("await")
    /\ height > Deadline
    /\ Advance
    /\ UNCHANGED <<vars, data, spendable, fees>>

\* finalizeCampaign: the accumulator decides.
Outcome(old) == IF ReadTotalPledged(old) >= ReadFundingGoal(old) THEN "Success" ELSE "Failed"

FinalizeOn(cell, new, since) == FinalizeTx(cell, ReadCampaignStatus(new), cell.capacity, since)

SuiteFinalizes ==
    /\ Doing("finalize")
    /\ \E cell \in LiveCells(Now.campaign) :
          LET old == data[cell.id]
          IN  /\ Outcome(old) = Now.expected
              /\ \E new \in WithCampaignStatus(old, Outcome(old)) :
                    /\ Funded(FinalizeOn(cell, new, Deadline), Now.signer)
                    /\ data' = [data EXCEPT ![cell.id] = new]
    /\ Advance

SuiteReleases ==
    /\ Doing("release")
    /\ \E p \in LiveAs(Now.pledge) : \E cell \in LiveCells(p.campaign), fee \in 1 .. MAX_FEE :
          SelfPaid(SettleTx({p}, {cell}, Deadline, ReleasePay({p}, Creator, p.amount, fee)),
                   p.backer)
    /\ Advance
    /\ UNCHANGED data

SuiteRefunds ==
    /\ Doing("refund")
    /\ \E p \in LiveAs(Now.pledge) : \E cell \in LiveCells(p.campaign), fee \in 1 .. MAX_FEE :
          SelfPaid(SettleTx({p}, {cell}, Deadline, RefundPay({p}, fee)), p.backer)
    /\ Advance
    /\ UNCHANGED data

SuiteMerges ==
    /\ Doing("merge")
    /\ LET P == {p \in pledges : p.id \in Now.pledges}
       IN  \E p \in LiveAs(P1) :
              Funded(MergeTx(P, LockOf(p), Now.pledge, Amount(P), Capacity(P)), Backer)
    /\ Advance
    /\ UNCHANGED data

SuiteReclaims ==
    /\ Doing("reclaim")
    /\ \E r \in ReceiptsOf(Now.pledge) :
          \E cell \in LiveCells(r.campaign), fee \in 1 .. MAX_FEE :
             SelfPaid([ReclaimTx({r}, {cell}, 0) EXCEPT
                           !.pay = [NoPay EXCEPT ![r.backer] = ReceiptCapacity - fee]], r.backer)
    /\ Advance
    /\ UNCHANGED data

-----------------------------------------------------------------------------
(* What the node, or the builder, has to refuse                             *)

TypeRefuses(tx, id) == ~CampaignType(tx, id, minted)

\* A mature since below the deadline: only the campaign lock can stop it.
EarlyFinalization(cell) ==
    /\ height - 1 < Deadline
    /\ \E new \in WithCampaignStatus(data[cell.id], "Success") :
          ~CampaignLock(FinalizeOn(cell, new, height - 1), cell)

SecondFinalization(cell) ==
    \E new \in WithCampaignStatus(data[cell.id], "Failed") :
        LET tx == FinalizeOn(cell, new, Deadline)
        IN  CampaignLock(tx, cell) /\ TypeRefuses(tx, cell.id)

\* Ten times the pledge that is actually made.
InflatedTotal(cell) ==
    LET amount == 100 * CKB
    IN  \E new \in WithTotalPledged(data[cell.id], cell.total + amount * 10) :
            TypeRefuses(PledgeOn(cell, new, P3, Backer, amount), cell.id)

FalseOutcome(cell) ==
    \E new \in WithCampaignStatus(data[cell.id], "Failed") :
        TypeRefuses(FinalizeOn(cell, new, Deadline), cell.id)

ContradictedStatus(cell) == Outcome(data[cell.id]) # "Failed"

EarlyDestruction(cell) ==
    TypeRefuses(DestroyTx(cell, Deadline, [NoPay EXCEPT ![Creator] = cell.capacity]), cell.id)

LoneReceipt == \E r \in ReceiptsOf(P1) : ~ReceiptType(ReclaimTx({r}, {}, 0))

SuiteIsRefused ==
    /\ Doing("refuse")
    /\ \E cell \in LiveCells(Now.campaign) :
          CASE Now.what = "early finalization"  -> EarlyFinalization(cell)
            [] Now.what = "second finalization" -> SecondFinalization(cell)
            [] Now.what = "inflated total"      -> InflatedTotal(cell)
            [] Now.what = "false outcome"       -> FalseOutcome(cell)
            [] Now.what = "contradicted status" -> ContradictedStatus(cell)
            [] Now.what = "early destruction"   -> EarlyDestruction(cell)
            [] Now.what = "lone receipt"        -> LoneReceipt
    /\ Advance
    /\ UNCHANGED <<vars, data, spendable, fees>>

\* The margins of the suites hold: what comes before the wait lands before the
\* deadline.  No step depends on the height any more once the wait is over.
LastBlock ==
    IF \E i \in at + 1 .. Len(suite) : suite[i].do = "await" THEN Deadline - 1 ELSE Deadline + 1

BlockComes ==
    /\ height < LastBlock
    /\ NewBlock
    /\ UNCHANGED suiteVars

Play ==
    \/ SuiteCreates
    \/ SuitePledges
    \/ SuiteAwaits
    \/ SuiteFinalizes
    \/ SuiteReleases
    \/ SuiteRefunds
    \/ SuiteMerges
    \/ SuiteReclaims
    \/ SuiteIsRefused

SuiteNext == Play \/ BlockComes

\* The node commits what it accepts within the suites' time-out, and makes blocks.
SuiteSpec == Start /\ [][SuiteNext]_allVars /\ WF_allVars(Play) /\ WF_allVars(BlockComes)

-----------------------------------------------------------------------------
(* Properties                                                               *)

\* Every suite runs to its end: the scripts accept and refuse, step by step,
\* what the integration tests have seen a real node accept and refuse.
EverySuitePasses == <>(at > Len(suite))

Released == UNION {s.pledges : s \in {t \in settlements : t.how = "released"}}

\* Every shannon is accounted for, wallet by wallet and after every step: what
\* an account cannot spend is in fees, receipts, its pledges or its campaign
\* cells, and it has gained or lost exactly the pledges released
\* (test-accounting.ts; permissionlessRelease, permissionlessRefund, reclaimReceipt).
BalancesExact ==
    \A w \in Wallets :
        LET own == {r \in receipts : r.backer = w}
        IN  spendable[w] + fees[w] + ReceiptCapacity * Cardinality(own)
              + Capacity(OfBacker(pledges, w)) + Capacity({c \in campaigns : c.creator = w})
            = Purse - Amount(OfBacker(Released, w)) + IF w = Creator THEN Amount(Released) ELSE 0

\* The bytes say what the cell says, for every reader: a campaign's through any
\* number of splices, title and description included, and a pledge's, a
\* receipt's and a lock's as the indexer parses what the builder serialized
\* (withTotalPledged, withCampaignStatus against parser.ts).
DataMatchesCell ==
    /\ \A c \in campaigns :
          ParseCampaignData(data[c.id]) =
              {[creator |-> c.creator, goal |-> c.goal, deadline |-> c.deadline, total |-> c.total,
                status |-> c.status, title |-> text.title, description |-> text.description]}
    /\ \A p \in pledges :
          LET bytes == SerializePledgeData(p.campaign, p.backer, p.amount)
          IN  /\ ReadPledgeAmount(bytes) = {p.amount}
              /\ ParsePledgeData(bytes) =
                    {[campaign |-> p.campaign, backer |-> p.backer, amount |-> p.amount]}
              /\ ParsePledgeLockArgs(SerializePledgeLockArgs(p.campaign, p.deadline, p.backer))
                    = {LockOf(p)}
    /\ \A r \in receipts :
          ParseReceiptData(SerializeReceiptData(r.amount, r.backer, r.campaign, r.deadline)) =
              {[amount |-> r.amount, backer |-> r.backer]}

=============================================================================
