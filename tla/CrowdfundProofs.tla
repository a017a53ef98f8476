--------------------------- MODULE CrowdfundProofs ---------------------------
(***************************************************************************)
(* Proofs about Crowdfund, for all values of its constants: TypeID, the    *)
(* decision and the routing of pledges first, then what needs sums over    *)
(* cells (the accumulator against the money in escrow, what a settlement   *)
(* pays, receipts against pledges), and last that no pledge is stuck.      *)
(***************************************************************************)
EXTENDS Crowdfund, SumTheorems

\* A pledge that appears takes its lock from a campaign cell the transaction
\* consumes, or from a pledge it merges.
Routed(tx) ==
    \A p \in tx.pledgeOut :
        \/ \E c \in tx.campIn : c.id = p.campaign /\ c.deadline = p.deadline
        \/ \E q \in tx.pledgeIn : LockOf(q) = LockOf(p)

LEMMA MergeRouted ==
    ASSUME NEW P, NEW lock, NEW id, NEW amount, NEW capacity, ~AtMostOne(P),
           Commit(MergeTx(P, lock, id, amount, capacity))
    PROVE  Routed(MergeTx(P, lock, id, amount, capacity))
<1>. DEFINE tx == MergeTx(P, lock, id, amount, capacity)
<1>1. tx.since = 0 /\ tx.pledgeIn = P /\ \A p, q \in tx.pledgeOut : p = q
  BY DEF MergeTx, EmptyTx
<1>2. PICK q \in P : TRUE
  BY DEF AtMostOne
<1>3. PledgeLock(tx, LockOf(q))
  BY <1>1, <1>2 DEF Commit, Valid, ScriptsAccept
<1>4. Group(tx.pledgeOut, LockOf(q)) # {}
  BY <1>1, <1>3 DEF PledgeLock, MergeLock
<1>5. \A p \in tx.pledgeOut : LockOf(q) = LockOf(p)
  BY <1>1, <1>4 DEF Group
<1>. QED BY <1>1, <1>2, <1>5 DEF Routed

\* Every step is a block or commits a well-formed transaction.
LEMMA StepIsCommit ==
    ASSUME Next
    PROVE  NewBlock \/ \E tx \in Transaction : Commit(tx) /\ Routed(tx)
<1>1. \A tx : Commit(tx) => tx \in Transaction
  BY DEF Commit, Valid
<1>2. \A tx : tx.pledgeOut = {} => Routed(tx)
  BY DEF Routed
<1>3. CASE \E id \in Campaigns : CreateCampaign(id)
  BY <1>1, <1>2, <1>3 DEF CreateCampaign, CreateTx, EmptyTx
<1>4. CASE \E id \in PledgeIds : Pledge(id)
  <2>1. \A old, id, backer, amount, capacity, total :
           Routed(PledgeTx(old, id, backer, amount, capacity, total))
    BY DEF Routed, PledgeTx, EmptyTx
  <2>. QED BY <1>1, <1>4, <2>1 DEF Pledge
<1>5. CASE \E id \in PledgeIds : Merge(id)
  BY <1>1, <1>5, MergeRouted DEF Merge
<1>6. CASE \E id \in Campaigns : FinalizeCampaign(id)
  BY <1>1, <1>2, <1>6 DEF FinalizeCampaign, FinalizeTx, EmptyTx
<1>7. CASE \E P \in (SUBSET pledges) \ {{}} : ReleasePledges(P)
  BY <1>1, <1>2, <1>7 DEF ReleasePledges, SettleTx, EmptyTx
<1>8. CASE \E P \in (SUBSET pledges) \ {{}} : RefundPledges(P)
  BY <1>1, <1>2, <1>8 DEF RefundPledges, SettleTx, EmptyTx
<1>9. CASE \E P \in (SUBSET pledges) \ {{}} : RescuePledges(P)
  BY <1>1, <1>2, <1>9 DEF RescuePledges, SettleTx, EmptyTx
<1>10. CASE \E w \in Wallets : ReclaimReceipts(w)
  BY <1>1, <1>2, <1>10 DEF ReclaimReceipts, ReclaimTx, EmptyTx
<1>11. CASE \E id \in Campaigns : DestroyCampaign(id)
  BY <1>1, <1>2, <1>11 DEF DestroyCampaign, DestroyTx, EmptyTx
<1>. QED BY <1>3, <1>4, <1>5, <1>6, <1>7, <1>8, <1>9, <1>10, <1>11 DEF Next

-----------------------------------------------------------------------------
(* Types                                                                    *)

LEMMA SettlementType ==
    ASSUME NEW tx \in Transaction
    PROVE  SettlementOf(tx) \in Settlement
<1>1. HowSettled(tx) \in Outcomes
  BY DEF HowSettled, Outcomes
<1>. QED BY <1>1 DEF SettlementOf, Settlement, Transaction

LEMMA TypeOKInitial == Init => TypeOK
  BY FormsAssumption, BlockAssumption DEF Init, TypeOK, U64

LEMMA TypeOKCommit ==
    ASSUME TypeOK, NEW tx \in Transaction, Commit(tx)
    PROVE  TypeOK'
<1>1. height' \in 0 .. Horizon
  BY DEF TypeOK, Commit
<1>2. campaigns' \subseteq CampaignCell /\ minted' \subseteq Campaigns
  BY DEF TypeOK, Commit, Transaction, CampaignCell
<1>3. /\ pledges' \subseteq PledgeCell
      /\ receipts' \subseteq ReceiptCell
      /\ usedIds' \subseteq PledgeIds
  BY DEF TypeOK, Commit, Transaction, PledgeCell, ReceiptCell
<1>4. settlements' \subseteq Settlement
  BY SettlementType DEF TypeOK, Commit
<1>5. \A p \in pledges' \cup receipts' : p.id \in usedIds'
  BY DEF TypeOK, Commit
<1>6. \A p, q \in pledges' : p.id = q.id => p = q
  BY DEF TypeOK, Commit, Valid, AtMostOne
<1>. QED BY <1>1, <1>2, <1>3, <1>4, <1>5, <1>6 DEF TypeOK

LEMMA TypeOKStep == TypeOK /\ [Next]_vars => TypeOK'
<1>. SUFFICES ASSUME TypeOK, [Next]_vars
              PROVE  TypeOK'
  OBVIOUS
<1>1. CASE UNCHANGED vars
  BY <1>1 DEF vars, TypeOK
<1>2. CASE NewBlock
  <2>1. height' \in 0 .. Horizon
    BY <1>2, FormsAssumption, BlockAssumption DEF NewBlock, TypeOK, U64
  <2>. QED BY <1>2, <2>1 DEF NewBlock, TypeOK
<1>3. CASE \E tx \in Transaction : Commit(tx)
  BY <1>3, TypeOKCommit
<1>. QED BY <1>1, <1>2, <1>3, StepIsCommit

\* Every reachable ledger is well-typed: amounts stay in u64 whatever clients
\* write, and every out point is used once.
THEOREM TypeCorrect == Spec => []TypeOK
  BY TypeOKInitial, TypeOKStep, PTL DEF Spec

-----------------------------------------------------------------------------
(* What a transaction does to campaign cells                                *)

\* Where a campaign cell of an output comes from: it is the first of its id, or
\* it replaces an Active cell with the same terms.
NewCampaign(new) ==
    /\ new.id \notin minted
    /\ CampaignCreation(new)

Successor(tx, old, new) ==
    /\ old \in tx.campIn
    /\ old.id = new.id
    /\ old.status = "Active"
    /\ ImmutableFields(old, new)
    /\ CapacityPreserved(old, new)
    /\ \/ new.status = "Active" /\ new.total >= old.total
       \/ new.total = old.total /\ StatusJustified(new.status, old.total, old.goal)

LEMMA CampaignOutput ==
    ASSUME TypeOK, NEW tx \in Transaction, Commit(tx), NEW new \in tx.campOut
    PROVE  NewCampaign(new) \/ \E old \in tx.campIn : Successor(tx, old, new)
<1>. DEFINE in  == {c \in tx.campIn : c.id = new.id}
            out == {c \in tx.campOut : c.id = new.id}
<1>1. CampaignType(tx, new.id, minted)
  BY DEF Commit, Valid, ScriptsAccept
<1>2. CASE in = {}
  <2>1. new.id \notin minted /\ CampaignCreation(new)
    BY <1>1, <1>2 DEF CampaignType
  <2>. QED BY <2>1 DEF NewCampaign
<1>3. CASE in # {}
  <2>1. PICK old \in in : TRUE
    BY <1>3
  <2>2. /\ CapacityPreserved(old, new)
        /\ IF new.status = "Active" THEN PledgeUpdate(old, new, tx)
                                    ELSE Finalization(old, new, tx)
    BY <1>1, <2>1 DEF CampaignType
  <2>3. CASE new.status = "Active"
    <3>. DEFINE created  == Bound(tx.pledgeOut, old.id)
                consumed == Bound(tx.pledgeIn, old.id)
    <3>1. /\ old.status = "Active"
          /\ ImmutableFields(old, new)
          /\ Amount(created) \in U64
          /\ Amount(consumed) \in U64
          /\ Amount(created) > Amount(consumed)
          /\ new.total = old.total + (Amount(created) - Amount(consumed))
      BY <2>2, <2>3 DEF PledgeUpdate, PledgesCountable, TotalAdvanced
    <3>2. old.total \in U64
      BY <2>1 DEF Transaction, CampaignCell
    <3>3. new.total >= old.total
      <4>. HIDE DEF created, consumed
      <4>. QED BY <3>1, <3>2, U64Assumption DEF U64
    <3>. QED BY <2>1, <2>2, <2>3, <3>1, <3>3 DEF Successor
  <2>4. CASE new.status # "Active"
    BY <2>1, <2>2, <2>4 DEF Finalization, Successor
  <2>. QED BY <2>3, <2>4
<1>. QED BY <1>2, <1>3

\* A cell that stays or is replaced leaves no room for another of its id.
LEMMA OneCampaignCellCommit ==
    ASSUME TypeOK, OneCampaignCell, CampaignsMinted,
           NEW tx \in Transaction, Commit(tx)
    PROVE  OneCampaignCell'
<1>. SUFFICES ASSUME NEW c \in campaigns', NEW d \in campaigns', c.id = d.id
              PROVE  c = d
  BY DEF OneCampaignCell
<1>1. tx.campIn \subseteq campaigns
  BY DEF Commit, Valid
<1>2. ASSUME NEW new \in tx.campOut, NEW kept \in campaigns \ tx.campIn, new.id = kept.id
      PROVE  FALSE
  <2>1. kept.id \in minted
    BY <1>2 DEF CampaignsMinted
  <2>2. PICK old \in tx.campIn : old.id = new.id
    BY <1>2, <2>1, CampaignOutput DEF NewCampaign, Successor
  <2>. QED BY <1>1, <1>2, <2>2 DEF OneCampaignCell
<1>3. CASE c \in tx.campOut /\ d \in tx.campOut
  <2>1. CampaignType(tx, c.id, minted)
    BY <1>3 DEF Commit, Valid, ScriptsAccept
  <2>. QED BY <1>3, <2>1 DEF CampaignType, AtMostOne
<1>4. campaigns' = (campaigns \ tx.campIn) \cup tx.campOut
  BY DEF Commit
<1>. QED BY <1>2, <1>3, <1>4 DEF OneCampaignCell

LEMMA OutcomeJustifiedCommit ==
    ASSUME TypeOK, OutcomeJustified, NEW tx \in Transaction, Commit(tx)
    PROVE  OutcomeJustified'
<1>. SUFFICES ASSUME NEW c \in campaigns', c.status # "Active"
              PROVE  c.status = "Success" <=> c.total >= c.goal
  BY DEF OutcomeJustified
<1>1. CASE c \in campaigns
  BY <1>1 DEF OutcomeJustified
<1>2. CASE c \in tx.campOut
  <2>1. PICK old \in tx.campIn : Successor(tx, old, c)
    BY <1>2, CampaignOutput DEF NewCampaign, CampaignCreation
  <2>2. /\ c.total = old.total
        /\ c.goal = old.goal
        /\ StatusJustified(c.status, old.total, old.goal)
    BY <2>1 DEF Successor, ImmutableFields
  <2>3. c.total \in U64 /\ c.goal \in U64
    BY <1>2 DEF Transaction, CampaignCell
  <2>. QED BY <2>2, <2>3, U64Assumption DEF StatusJustified, U64
<1>. QED BY <1>1, <1>2 DEF Commit

-----------------------------------------------------------------------------
(* What takes pledges out of escrow                                         *)

\* A transaction that consumes pledges and creates none is a settlement of one
\* lock group, mature for it, under the outcome of the campaign it cites.
LEMMA SettlementScript ==
    ASSUME TypeOK, NEW tx \in Transaction, Commit(tx),
           tx.pledgeOut = {}, NEW p \in tx.pledgeIn
    PROVE  /\ SinceReached(tx, p.deadline)
           /\ CampaignDep(tx, LockOf(p)) = {} =>
                 SinceReached(tx, GraceDeadline(p.deadline))
           /\ \A c \in CampaignDep(tx, LockOf(p)) : c.status \in {"Success", "Failed"}
           /\ \A q \in tx.pledgeIn : LockOf(q) = LockOf(p)
<1>. DEFINE lock == LockOf(p)
<1>1. PledgeLock(tx, lock)
  BY DEF Commit, Valid, ScriptsAccept
<1>2. tx.since # 0
  <2>1. Group(tx.pledgeOut, lock) = {}
    BY DEF Group
  <2>. QED BY <1>1, <2>1 DEF PledgeLock, MergeLock
<1>3. lock.deadline = p.deadline
  BY DEF LockOf
<1>4. SinceReached(tx, p.deadline)
  BY <1>1, <1>2, <1>3 DEF PledgeLock
<1>5. ASSUME OnlyPledgeGroup(tx, lock)
      PROVE  \A q \in tx.pledgeIn : LockOf(q) = lock
  BY <1>5 DEF OnlyPledgeGroup, Group
<1>6. CASE CampaignDep(tx, lock) = {}
  <2>1. SinceReached(tx, GraceDeadline(p.deadline)) /\ OnlyPledgeGroup(tx, lock)
    BY <1>1, <1>2, <1>3, <1>6 DEF PledgeLock, Refund
  <2>. QED BY <1>4, <1>5, <1>6, <2>1
<1>7. CASE CampaignDep(tx, lock) # {}
  <2>1. \A c \in CampaignDep(tx, lock) :
           c.status \in {"Success", "Failed"} /\ OnlyPledgeGroup(tx, lock)
    BY <1>1, <1>2, <1>7 DEF PledgeLock, Release, Refund
  <2>. QED BY <1>4, <1>5, <1>7, <2>1
<1>. QED BY <1>6, <1>7

\* The campaign a settlement goes by is live and has the status of its outcome.
LEMMA SettlementCampaign ==
    ASSUME TypeOK, OneCampaignCell, NEW tx \in Transaction, Commit(tx),
           tx.pledgeIn # {}, tx.pledgeOut = {},
           HowSettled(tx) \in {"released", "refunded"}
    PROVE  \E c \in campaigns :
              /\ c.status = IF HowSettled(tx) = "released" THEN "Success" ELSE "Failed"
              /\ \A p \in tx.pledgeIn : p.campaign = c.id
<1>1. PICK p \in tx.pledgeIn, c \in tx.deps :
          /\ c.id = p.campaign
          /\ c.status = IF HowSettled(tx) = "released" THEN "Success" ELSE "Failed"
  BY DEF HowSettled, CampaignDep, LockOf
<1>2. \A q \in tx.pledgeIn : q.campaign = p.campaign
  BY SettlementScript DEF LockOf
<1>3. c \in campaigns
  BY DEF Commit, Valid
<1>. QED BY <1>1, <1>2, <1>3

\* Without a cited campaign of theirs, pledges leave only after the grace period.
LEMMA RescueScript ==
    ASSUME TypeOK, NEW tx \in Transaction, Commit(tx), tx.pledgeOut = {},
           HowSettled(tx) = "rescued", NEW p \in tx.pledgeIn
    PROVE  SinceReached(tx, GraceDeadline(p.deadline))
<1>1. \A c \in CampaignDep(tx, LockOf(p)) : c.status \notin {"Success", "Failed"}
  BY DEF HowSettled
<1>2. CampaignDep(tx, LockOf(p)) = {}
  BY <1>1, SettlementScript
<1>. QED BY <1>2, SettlementScript

\* A campaign cell of a settled pledge stays what it was.
LEMMA TerminalCampaignStays ==
    ASSUME TypeOK, OneCampaignCell, CampaignsMinted,
           NEW tx \in Transaction, Commit(tx),
           NEW c \in campaigns, c.status # "Active", NEW d \in campaigns', d.id = c.id
    PROVE  d = c
<1>1. CASE d \in campaigns
  BY <1>1 DEF OneCampaignCell
<1>2. CASE d \in tx.campOut
  <2>1. c.id \in minted /\ tx.campIn \subseteq campaigns
    BY DEF CampaignsMinted, Commit, Valid
  <2>2. PICK old \in tx.campIn : Successor(tx, old, d)
    BY <1>2, <2>1, CampaignOutput DEF NewCampaign
  <2>3. old = c
    BY <2>1, <2>2 DEF Successor, OneCampaignCell
  <2>. QED BY <2>2, <2>3 DEF Successor
<1>. QED BY <1>1, <1>2 DEF Commit

\* A new cell of a campaign that has settlements by status: impossible.
LEMMA SettledByStatusCommit ==
    ASSUME TypeOK, OneCampaignCell, CampaignsMinted, SettledByStatus,
           NEW tx \in Transaction, Commit(tx)
    PROVE  SettledByStatus'
<1>. SUFFICES ASSUME NEW s \in settlements', NEW p \in s.pledges, NEW c \in campaigns',
                     c.id = p.campaign
              PROVE  /\ s.how = "released" => c.status = "Success"
                     /\ s.how = "refunded" => c.status = "Failed"
  BY DEF SettledByStatus
<1>1. CASE s \in settlements
  <2>1. CASE c \in campaigns
    BY <1>1, <2>1 DEF SettledByStatus
  <2>2. CASE c \in tx.campOut
    <3>1. p.campaign \in minted
      BY <1>1 DEF CampaignsMinted
    <3>2. PICK old \in tx.campIn : Successor(tx, old, c)
      BY <2>2, <3>1, CampaignOutput DEF NewCampaign
    <3>3. old \in campaigns /\ old.id = p.campaign /\ old.status = "Active"
      BY <3>2 DEF Successor, Commit, Valid
    <3>. QED BY <1>1, <3>3 DEF SettledByStatus
  <2>. QED BY <2>1, <2>2 DEF Commit
<1>2. CASE s \notin settlements
  <2>1. /\ tx.pledgeIn # {} /\ tx.pledgeOut = {}
        /\ s.how = HowSettled(tx)
        /\ s.pledges = tx.pledgeIn
    BY <1>2 DEF Commit, SettlementOf
  <2>2. CASE s.how \in {"released", "refunded"}
    <3>1. PICK d \in campaigns :
              /\ d.status = IF s.how = "released" THEN "Success" ELSE "Failed"
              /\ d.id = p.campaign
      BY <2>1, <2>2, SettlementCampaign
    <3>2. c = d
      BY <3>1, TerminalCampaignStays
    <3>. QED BY <3>1, <3>2
  <2>. QED BY <2>2
<1>. QED BY <1>1, <1>2

LEMMA AllOrNothingCommit ==
    ASSUME TypeOK, OneCampaignCell, SettledByStatus, AllOrNothing,
           NEW tx \in Transaction, Commit(tx)
    PROVE  AllOrNothing'
<1>. SUFFICES ASSUME NEW s \in settlements', NEW t \in settlements',
                     s.how = "released", t.how = "refunded",
                     NEW p \in s.pledges, NEW q \in t.pledges, p.campaign = q.campaign
              PROVE  FALSE
  BY DEF AllOrNothing
<1>1. ASSUME NEW u \in settlements', u \notin settlements
      PROVE  /\ tx.pledgeIn # {} /\ tx.pledgeOut = {}
             /\ u.how = HowSettled(tx)
             /\ u.pledges = tx.pledgeIn
  BY <1>1 DEF Commit, SettlementOf
<1>2. CASE s \in settlements /\ t \in settlements
  BY <1>2 DEF AllOrNothing
<1>3. CASE s \notin settlements /\ t \in settlements
  <2>1. PICK c \in campaigns : c.status = "Success" /\ c.id = p.campaign
    BY <1>1, <1>3, SettlementCampaign
  <2>. QED BY <1>3, <2>1 DEF SettledByStatus
<1>4. CASE s \in settlements /\ t \notin settlements
  <2>1. PICK c \in campaigns : c.status = "Failed" /\ c.id = q.campaign
    BY <1>1, <1>4, SettlementCampaign
  <2>. QED BY <1>4, <2>1 DEF SettledByStatus
<1>5. CASE s \notin settlements /\ t \notin settlements
  BY <1>1, <1>5
<1>. QED BY <1>2, <1>3, <1>4, <1>5

LEMMA EscrowUntilDeadlineCommit ==
    ASSUME TypeOK, EscrowUntilDeadline, NEW tx \in Transaction, Commit(tx)
    PROVE  EscrowUntilDeadline'
<1>. SUFFICES ASSUME NEW s \in settlements', NEW p \in s.pledges
              PROVE  /\ height' >= p.deadline
                     /\ s.how = "rescued" => GraceOver(p)'
  BY DEF EscrowUntilDeadline
<1>1. height' = height /\ tx.since <= height
  BY DEF Commit, Valid
<1>2. CASE s \in settlements
  BY <1>1, <1>2 DEF EscrowUntilDeadline, GraceOver
<1>3. CASE s \notin settlements
  <2>1. /\ tx.pledgeOut = {}
        /\ s.how = HowSettled(tx)
        /\ p \in tx.pledgeIn
    BY <1>3 DEF Commit, SettlementOf
  <2>2. p.deadline \in U64 /\ tx.since \in 0 .. MaxBlock /\ height \in 0 .. Horizon
    BY <2>1 DEF TypeOK, Transaction, PledgeCell
  <2>3. tx.since >= p.deadline
    BY <2>1, SettlementScript DEF SinceReached
  <2>4. s.how = "rescued" => tx.since >= GraceDeadline(p.deadline)
    BY <2>1, RescueScript DEF SinceReached
  <2>. QED
    BY <1>1, <2>2, <2>3, <2>4, U64Assumption, LimitsAssumption, FormsAssumption, BlockAssumption
       DEF GraceOver, GraceDeadline, SatAdd, U64
<1>. QED BY <1>2, <1>3

-----------------------------------------------------------------------------
(* Where the pledges of a campaign come from                                *)

\* Each pledge after a transaction shares campaign and deadline with a pledge,
\* or with a campaign cell, from before it.
LEMMA PledgeOrigin ==
    ASSUME NEW tx \in Transaction, Commit(tx), Routed(tx), NEW p \in pledges'
    PROVE  \/ \E q \in pledges : q.campaign = p.campaign /\ q.deadline = p.deadline
           \/ \E c \in tx.campIn : c.id = p.campaign /\ c.deadline = p.deadline
<1>1. CASE p \in pledges
  BY <1>1
<1>2. CASE p \in tx.pledgeOut
  <2>1. tx.pledgeIn \subseteq pledges
    BY DEF Commit, Valid
  <2>. QED BY <1>2, <2>1 DEF Routed, LockOf
<1>. QED BY <1>1, <1>2 DEF Commit

LEMMA CampaignsMintedCommit ==
    ASSUME CampaignsMinted, NEW tx \in Transaction, Commit(tx), Routed(tx)
    PROVE  CampaignsMinted'
<1>1. minted \subseteq minted' /\ tx.campIn \subseteq campaigns /\ tx.pledgeIn \subseteq pledges
  BY DEF Commit, Valid
<1>2. \A c \in campaigns' : c.id \in minted'
  BY DEF Commit, CampaignsMinted
<1>3. \A p \in pledges' : p.campaign \in minted'
  BY <1>1, PledgeOrigin DEF CampaignsMinted
<1>4. ASSUME NEW s \in settlements', NEW p \in s.pledges
      PROVE  p.campaign \in minted'
  <2>1. CASE s \in settlements
    BY <1>1, <1>4, <2>1 DEF CampaignsMinted
  <2>2. CASE s \notin settlements
    <3>1. s.pledges = tx.pledgeIn
      BY <1>4, <2>2 DEF Commit, SettlementOf
    <3>. QED BY <1>1, <1>4, <3>1 DEF CampaignsMinted
  <2>. QED BY <2>1, <2>2
<1>. QED BY <1>2, <1>3, <1>4 DEF CampaignsMinted

LEMMA DeadlinesAgreeCommit ==
    ASSUME TypeOK, OneCampaignCell, CampaignsMinted, DeadlinesAgree,
           NEW tx \in Transaction, Commit(tx), Routed(tx)
    PROVE  DeadlinesAgree'
<1>. SUFFICES ASSUME NEW p \in pledges', NEW c \in campaigns', c.id = p.campaign
              PROVE  c.deadline = p.deadline
  BY DEF DeadlinesAgree
<1>1. tx.campIn \subseteq campaigns
  BY DEF Commit, Valid
<1>2. p.campaign \in minted
  BY <1>1, PledgeOrigin DEF CampaignsMinted
<1>3. \E old \in campaigns : old.id = c.id /\ old.deadline = c.deadline
  <2>1. CASE c \in campaigns
    BY <2>1
  <2>2. CASE c \in tx.campOut
    BY <1>1, <1>2, <2>2, CampaignOutput DEF NewCampaign, Successor, ImmutableFields
  <2>. QED BY <2>1, <2>2 DEF Commit
<1>. QED BY <1>1, <1>3, PledgeOrigin DEF DeadlinesAgree, OneCampaignCell

\* A campaign that disappears under its pledges does so after the grace period.
LEMMA NoLockoutCommit ==
    ASSUME TypeOK, DeadlinesAgree, NoLockout,
           NEW tx \in Transaction, Commit(tx), Routed(tx)
    PROVE  NoLockout'
<1>. SUFFICES ASSUME NEW p \in pledges', \A c \in campaigns' : c.id # p.campaign
              PROVE  GraceOver(p)'
  BY DEF NoLockout
<1>1. height' = height /\ tx.since <= height /\ tx.campIn \subseteq campaigns
  BY DEF Commit, Valid
<1>2. ASSUME NEW c \in campaigns, c.id = p.campaign, c.deadline = p.deadline
      PROVE  GraceOver(p)'
  <2>1. c \in tx.campIn /\ \A d \in tx.campOut : d.id # c.id
    BY <1>2 DEF Commit
  <2>2. DestructionAfterGrace(c, tx)
    <3>1. CampaignType(tx, c.id, minted)
      BY <2>1 DEF Commit, Valid, ScriptsAccept
    <3>. QED BY <2>1, <3>1 DEF CampaignType
  <2>3. tx.since >= GraceDeadline(p.deadline)
    BY <1>2, <2>2 DEF DestructionAfterGrace, SinceReached
  <2>4. p.deadline \in U64 /\ tx.since \in 0 .. MaxBlock /\ height \in 0 .. Horizon
    BY <1>2 DEF TypeOK, Transaction, CampaignCell
  <2>. QED BY <1>1, <2>3, <2>4, U64Assumption, LimitsAssumption, FormsAssumption, BlockAssumption
           DEF GraceOver, GraceDeadline, SatAdd, U64
<1>3. ASSUME NEW q \in pledges, q.campaign = p.campaign, q.deadline = p.deadline
      PROVE  GraceOver(p)'
  <2>1. CASE \E c \in campaigns : c.id = q.campaign
    BY <1>2, <1>3, <2>1 DEF DeadlinesAgree
  <2>2. CASE \A c \in campaigns : c.id # q.campaign
    BY <1>1, <1>3, <2>2 DEF NoLockout, GraceOver
  <2>. QED BY <2>1, <2>2
<1>. QED BY <1>1, <1>2, <1>3, PledgeOrigin

-----------------------------------------------------------------------------
(* The inductive invariant                                                  *)

LEMMA IInvInitial == Init => IInv
<1>. SUFFICES ASSUME Init PROVE IInv
  OBVIOUS
<1>1. TypeOK
  BY TypeOKInitial
<1>. QED BY <1>1 DEF Init, IInv, OneCampaignCell, CampaignsMinted, OutcomeJustified,
           DeadlinesAgree, SettledByStatus, AllOrNothing, EscrowUntilDeadline, NoLockout

\* A block only moves the height up, which opens deadlines and closes none.
LEMMA IInvBlock ==
    ASSUME IInv, NewBlock
    PROVE  IInv'
<1>1. TypeOK'
  BY TypeOKStep DEF IInv, Next
<1>2. /\ campaigns' = campaigns /\ minted' = minted
      /\ pledges' = pledges /\ settlements' = settlements
  BY DEF NewBlock
<1>3. \A deadline \in U64 : /\ height >= deadline => height' >= deadline
                            /\ height >= deadline + GRACE_PERIOD_BLOCKS =>
                                  height' >= deadline + GRACE_PERIOD_BLOCKS
  BY U64Assumption, LimitsAssumption, FormsAssumption, BlockAssumption DEF NewBlock, IInv, TypeOK, U64
<1>4. ASSUME NEW p \in PledgeCell, GraceOver(p)
      PROVE  GraceOver(p)'
  BY <1>3, <1>4 DEF GraceOver, PledgeCell
<1>5. NoLockout'
  BY <1>2, <1>4 DEF NoLockout, IInv, TypeOK
<1>6. EscrowUntilDeadline'
  <2>1. \A s \in settlements : s.pledges \subseteq PledgeCell
    BY DEF IInv, TypeOK, Settlement
  <2>2. \A p \in PledgeCell : p.deadline \in U64
    BY DEF PledgeCell
  <2>. QED BY <1>2, <1>3, <1>4, <2>1, <2>2 DEF EscrowUntilDeadline, IInv
<1>7. /\ OneCampaignCell' /\ CampaignsMinted' /\ OutcomeJustified'
      /\ DeadlinesAgree' /\ SettledByStatus' /\ AllOrNothing'
  BY <1>2 DEF IInv, OneCampaignCell, CampaignsMinted, OutcomeJustified,
              DeadlinesAgree, SettledByStatus, AllOrNothing
<1>. QED BY <1>1, <1>5, <1>6, <1>7 DEF IInv

LEMMA IInvCommit ==
    ASSUME IInv, NEW tx \in Transaction, Commit(tx), Routed(tx)
    PROVE  IInv'
BY TypeOKCommit, OneCampaignCellCommit, CampaignsMintedCommit, OutcomeJustifiedCommit,
   DeadlinesAgreeCommit, SettledByStatusCommit, AllOrNothingCommit,
   EscrowUntilDeadlineCommit, NoLockoutCommit
   DEF IInv

LEMMA IInvStep == IInv /\ [Next]_vars => IInv'
<1>. SUFFICES ASSUME IInv, [Next]_vars
              PROVE  IInv'
  OBVIOUS
<1>1. CASE UNCHANGED vars
  BY <1>1 DEF vars, IInv, TypeOK, OneCampaignCell, CampaignsMinted, OutcomeJustified,
              DeadlinesAgree, SettledByStatus, AllOrNothing, EscrowUntilDeadline,
              NoLockout, GraceOver
<1>2. CASE NewBlock
  BY <1>2, IInvBlock
<1>3. CASE \E tx \in Transaction : Commit(tx) /\ Routed(tx)
  BY <1>3, IInvCommit
<1>. QED BY <1>1, <1>2, <1>3, StepIsCommit

\* The inductive invariant holds of every reachable ledger.
THEOREM IInvHolds == Spec => []IInv
  BY IInvInitial, IInvStep, PTL DEF Spec

\* TypeID works: whatever transactions race, a campaign id names one cell
\* (the creation branch of the campaign type script).
THEOREM CampaignUnique == Spec => []OneCampaignCell
<1>1. IInv => OneCampaignCell
  BY DEF IInv
<1>. QED BY <1>1, IInvHolds, PTL

\* The status of a decided campaign is the one its accumulator justifies, for
\* the rest of its life (check_status_justified).
THEOREM OutcomeCorrect == Spec => []OutcomeJustified
<1>1. IInv => OutcomeJustified
  BY DEF IInv
<1>. QED BY <1>1, IInvHolds, PTL

\* No campaign releases one pledge and refunds another while its cell decides
\* (the status branch of the pledge lock).
THEOREM ReleaseExcludesRefund == Spec => []AllOrNothing
<1>1. IInv => AllOrNothing
  BY DEF IInv
<1>. QED BY <1>1, IInvHolds, PTL

\* Nothing leaves escrow before the deadline, nor by the fail-safe before the
\* grace period is over (the since checks of the pledge lock).
THEOREM EscrowHolds == Spec => []EscrowUntilDeadline
<1>1. IInv => EscrowUntilDeadline
  BY DEF IInv
<1>. QED BY <1>1, IInvHolds, PTL

\* A destroyed campaign leaves no pledge locked (validate_destruction_after_grace).
THEOREM DestructionLocksNobodyOut == Spec => []NoLockout
<1>1. IInv => NoLockout
  BY DEF IInv
<1>. QED BY <1>1, IInvHolds, PTL

-----------------------------------------------------------------------------
(* The life of a campaign cell                                              *)

LEMMA CampaignKeptCommit ==
    ASSUME IInv, NEW tx \in Transaction, Commit(tx),
           NEW old \in campaigns, NEW new \in campaigns', old.id = new.id
    PROVE  CampaignKept(old, new)
<1>1. old.capacity \in U64 /\ old.total \in U64
  BY DEF IInv, TypeOK, CampaignCell
<1>2. CASE new \in campaigns
  <2>1. new = old
    BY <1>2 DEF IInv, OneCampaignCell
  <2>. QED BY <1>1, <2>1, U64Assumption DEF CampaignKept, ImmutableFields, U64
<1>3. CASE new \in tx.campOut
  <2>1. old.id \in minted /\ tx.campIn \subseteq campaigns
    BY DEF IInv, CampaignsMinted, Commit, Valid
  <2>2. PICK c \in tx.campIn : Successor(tx, c, new)
    BY <1>3, <2>1, CampaignOutput DEF IInv, NewCampaign
  <2>3. c = old
    BY <2>1, <2>2 DEF Successor, IInv, OneCampaignCell
  <2>. QED BY <1>1, <2>2, <2>3, U64Assumption
           DEF CampaignKept, Successor, CapacityPreserved, ImmutableFields, U64
<1>. QED BY <1>2, <1>3 DEF Commit

LEMMA CampaignsKeptStep == IInv /\ [Next]_vars => [CampaignsKept]_vars
<1>. SUFFICES ASSUME IInv, Next
              PROVE  CampaignsKept
  OBVIOUS
<1>1. CASE NewBlock
  <2>1. ASSUME NEW c \in campaigns
        PROVE  CampaignKept(c, c)
    <3>1. c.capacity \in U64 /\ c.total \in U64
      BY DEF IInv, TypeOK, CampaignCell
    <3>. QED BY <3>1, U64Assumption DEF CampaignKept, ImmutableFields, U64
  <2>. QED BY <1>1, <2>1 DEF NewBlock, CampaignsKept, IInv, OneCampaignCell
<1>2. CASE \E tx \in Transaction : Commit(tx)
  BY <1>2, CampaignKeptCommit DEF CampaignsKept
<1>. QED BY <1>1, <1>2, StepIsCommit

\* A campaign cell keeps its terms, its capacity and what it has counted, and
\* does not change at all once it is decided (validate_immutable_fields,
\* validate_capacity_preserved, validate_finalization).
THEOREM CampaignLife == Spec => CampaignCarriedForward
  BY IInvHolds, CampaignsKeptStep, PTL DEF Spec, CampaignCarriedForward

-----------------------------------------------------------------------------
(* The since of permissionlessRefund                                        *)

\* Called with the deadline of a pledge and no campaign dep, permissionlessRefund
\* builds what the pledge lock refuses at any height: the fail-safe wants a since
\* past the grace period, so the caller has to pass that block as deadlineBlock.
THEOREM RescueAtDeadlineRefused ==
    ASSUME NEW p \in PledgeCell, NEW pay, GRACE_PERIOD_BLOCKS > 0, p.deadline < U64Max
    PROVE  ~PledgeLock(SettleTx({p}, {}, p.deadline, pay), LockOf(p))
<1>. DEFINE tx == SettleTx({p}, {}, p.deadline, pay)
<1>1. /\ tx.since = p.deadline
      /\ tx.deps = {}
      /\ tx.pledgeOut = {}
  BY DEF SettleTx, EmptyTx
<1>2. LockOf(p).deadline = p.deadline /\ CampaignDep(tx, LockOf(p)) = {}
  BY <1>1 DEF LockOf, CampaignDep
<1>3. p.deadline \in Nat /\ p.deadline < GraceDeadline(p.deadline)
  BY U64Assumption, LimitsAssumption DEF PledgeCell, U64, GraceDeadline, SatAdd
<1>4. ~SinceReached(tx, GraceDeadline(p.deadline))
  <2>1. GraceDeadline(p.deadline) \in Nat
    BY U64Assumption, LimitsAssumption DEF PledgeCell, U64, GraceDeadline, SatAdd
  <2>. QED BY <1>1, <1>3, <2>1 DEF SinceReached
<1>5. ~MergeLock(tx, LockOf(p))
  BY <1>1 DEF MergeLock, Group
<1>. QED BY <1>2, <1>4, <1>5 DEF PledgeLock

-----------------------------------------------------------------------------
(* What cells claim and hold                                                *)

LEMMA AmountEmpty == Amount({}) = 0
  BY SumEmpty DEF Amount, SumFunction

LEMMA CapacityEmpty == Capacity({}) = 0
  BY SumEmpty DEF Capacity, SumFunction

LEMMA AmountNat ==
    ASSUME NEW P, IsFiniteSet(P), \A p \in P : p.amount \in Nat
    PROVE  Amount(P) \in Nat
<1>1. [p \in P |-> p.amount] \in [P -> Nat]
  OBVIOUS
<1>. QED BY <1>1, SumFunctionNat DEF Amount

LEMMA CapacityNat ==
    ASSUME NEW P, IsFiniteSet(P), \A p \in P : p.capacity \in Nat
    PROVE  Capacity(P) \in Nat
<1>1. [p \in P |-> p.capacity] \in [P -> Nat]
  OBVIOUS
<1>. QED BY <1>1, SumFunctionNat DEF Capacity

LEMMA AmountSingle ==
    ASSUME NEW p, p.amount \in Nat
    PROVE  Amount({p}) = p.amount
<1>1. [q \in {p} |-> q.amount] \in [{p} -> Nat]
  OBVIOUS
<1>. QED BY <1>1, SumFunctionSingle DEF Amount

LEMMA CapacitySingle ==
    ASSUME NEW p, p.capacity \in Nat
    PROVE  Capacity({p}) = p.capacity
<1>1. [q \in {p} |-> q.capacity] \in [{p} -> Nat]
  OBVIOUS
<1>. QED BY <1>1, SumFunctionSingle DEF Capacity

LEMMA AmountOfParts ==
    ASSUME NEW P, IsFiniteSet(P), NEW Q, IsFiniteSet(Q), P \cap Q = {},
           \A p \in P \cup Q : p.amount \in Nat
    PROVE  Amount(P \cup Q) = Amount(P) + Amount(Q)
<1>. DEFINE f == [p \in P |-> p.amount]
            g == [p \in Q |-> p.amount]
            h == [p \in P \cup Q |-> p.amount]
<1>1. DOMAIN f = P /\ DOMAIN g = Q /\ DOMAIN h = P \cup Q
  OBVIOUS
<1>2. /\ \A p \in P : f[p] = h[p] /\ h[p] \in Nat
      /\ \A p \in Q : g[p] = h[p] /\ h[p] \in Nat
  OBVIOUS
<1>3. SumFunction(h) = SumFunction(f) + SumFunction(g)
  <2>. HIDE DEF f, g, h
  <2>. QED BY <1>1, <1>2, SumOfParts
<1>. QED BY <1>3 DEF Amount

LEMMA CapacityOfParts ==
    ASSUME NEW P, IsFiniteSet(P), NEW Q, IsFiniteSet(Q), P \cap Q = {},
           \A p \in P \cup Q : p.capacity \in Nat
    PROVE  Capacity(P \cup Q) = Capacity(P) + Capacity(Q)
<1>. DEFINE f == [p \in P |-> p.capacity]
            g == [p \in Q |-> p.capacity]
            h == [p \in P \cup Q |-> p.capacity]
<1>1. DOMAIN f = P /\ DOMAIN g = Q /\ DOMAIN h = P \cup Q
  OBVIOUS
<1>2. /\ \A p \in P : f[p] = h[p] /\ h[p] \in Nat
      /\ \A p \in Q : g[p] = h[p] /\ h[p] \in Nat
  OBVIOUS
<1>3. SumFunction(h) = SumFunction(f) + SumFunction(g)
  <2>. HIDE DEF f, g, h
  <2>. QED BY <1>1, <1>2, SumOfParts
<1>. QED BY <1>3 DEF Capacity

\* What consuming I and creating O does to the sums over a set of live cells.
LEMMA AmountMoved ==
    ASSUME NEW P, IsFiniteSet(P), NEW I \in SUBSET P, NEW O, IsFiniteSet(O), O \cap P = {},
           \A p \in P \cup O : p.amount \in Nat
    PROVE  /\ Amount((P \ I) \cup O) = Amount(P) - Amount(I) + Amount(O)
           /\ Amount(I) <= Amount(P)
<1>1. IsFiniteSet(I) /\ IsFiniteSet(P \ I)
  BY FS_Subset
<1>2. Amount(I) \in Nat /\ Amount(P \ I) \in Nat /\ Amount(O) \in Nat
  BY <1>1, AmountNat
<1>3. (P \ I) \cup I = P /\ (P \ I) \cap I = {} /\ (P \ I) \cap O = {}
  OBVIOUS
<1>4. Amount(P) = Amount(P \ I) + Amount(I)
  BY <1>1, <1>3, AmountOfParts
<1>5. Amount((P \ I) \cup O) = Amount(P \ I) + Amount(O)
  BY <1>1, <1>3, AmountOfParts
<1>. QED BY <1>2, <1>4, <1>5

LEMMA CapacityMoved ==
    ASSUME NEW P, IsFiniteSet(P), NEW I \in SUBSET P, NEW O, IsFiniteSet(O), O \cap P = {},
           \A p \in P \cup O : p.capacity \in Nat
    PROVE  /\ Capacity((P \ I) \cup O) = Capacity(P) - Capacity(I) + Capacity(O)
           /\ Capacity(I) <= Capacity(P)
<1>1. IsFiniteSet(I) /\ IsFiniteSet(P \ I)
  BY FS_Subset
<1>2. Capacity(I) \in Nat /\ Capacity(P \ I) \in Nat /\ Capacity(O) \in Nat
  BY <1>1, CapacityNat
<1>3. (P \ I) \cup I = P /\ (P \ I) \cap I = {} /\ (P \ I) \cap O = {}
  OBVIOUS
<1>4. Capacity(P) = Capacity(P \ I) + Capacity(I)
  BY <1>1, <1>3, CapacityOfParts
<1>5. Capacity((P \ I) \cup O) = Capacity(P \ I) + Capacity(O)
  BY <1>1, <1>3, CapacityOfParts
<1>. QED BY <1>2, <1>4, <1>5

\* Cells that hold what they claim and their storage cost: so does their sum,
\* and sum_group_inputs counts the claims.
LEMMA FundedCapacity ==
    ASSUME NEW P, IsFiniteSet(P), P \subseteq PledgeCell, \A p \in P : PledgeFunded(p)
    PROVE  Capacity(P) >= Amount(P) + PledgeOccupied * Cardinality(P)
<1>. DEFINE f == [p \in P |-> p.capacity]
            g == [p \in P |-> p.amount]
<1>1. Capacity(P) = SumFunctionOnSet(f, P) /\ Amount(P) = SumFunctionOnSet(g, P)
  BY DEF Capacity, Amount, SumFunction
<1>2. \A p \in P : f[p] \in Int /\ g[p] \in Int /\ f[p] >= g[p] + PledgeOccupied
  BY LimitsAssumption, U64Assumption DEF PledgeFunded, PledgeCell, U64
<1>3. PledgeOccupied \in Int
  BY LimitsAssumption
<1>4. SumFunctionOnSet(f, P) >= SumFunctionOnSet(g, P) + PledgeOccupied * Cardinality(P)
  <2>. HIDE DEF f, g
  <2>. QED BY <1>2, <1>3, SumExceeds
<1>. QED BY <1>1, <1>4

LEMMA FundedHeldAmount ==
    ASSUME NEW P, P \subseteq PledgeCell, \A p \in P : PledgeFunded(p)
    PROVE  HeldAmount(P) = Amount(P)
<1>1. \A p \in P : p.amount <= p.capacity
  BY LimitsAssumption, U64Assumption DEF PledgeFunded, PledgeCell, U64
<1>. QED BY <1>1 DEF HeldAmount, Amount

-----------------------------------------------------------------------------
(* The transactions of the clients, by what they do to pledges              *)

\* CreateTx, FinalizeTx and DestroyTx move a campaign cell only.
MovesCampaign(tx) ==
    /\ AtMostOne(tx.campOut)
    /\ \A old \in tx.campIn, new \in tx.campOut : old.id = new.id
    /\ AtMostOne(tx.campIn)
    /\ tx.campIn \cup tx.campOut # {}
    /\ tx.pledgeIn = {} /\ tx.pledgeOut = {}
    /\ tx.receiptIn = {} /\ tx.receiptOut = {}

SameTerms(a, b) == LockOf(a) = LockOf(b) /\ a.amount = b.amount

\* PledgeTx
MakesPledge(tx) ==
    \E old, new, p, r :
        /\ tx.campIn = {old} /\ tx.campOut = {new}
        /\ new.id = old.id /\ new.status = old.status
        /\ tx.pledgeIn = {} /\ tx.pledgeOut = {p}
        /\ tx.receiptIn = {} /\ tx.receiptOut = {r}
        /\ SameTerms(p, r)
        /\ p.campaign = old.id /\ p.deadline = old.deadline

\* MergeTx
MergesPledges(tx) ==
    /\ tx.since = 0
    /\ tx.campIn = {} /\ tx.campOut = {}
    /\ ~AtMostOne(tx.pledgeIn)
    /\ \E p : tx.pledgeOut = {p}
    /\ tx.receiptIn = {} /\ tx.receiptOut = {}

\* SettleTx
SettlesPledges(tx) ==
    /\ tx.campIn = {} /\ tx.campOut = {}
    /\ tx.pledgeIn # {} /\ tx.pledgeOut = {}
    /\ tx.receiptIn = {} /\ tx.receiptOut = {}

\* ReclaimTx
TakesReceipts(tx) ==
    /\ tx.campIn = {} /\ tx.campOut = {}
    /\ tx.pledgeIn = {} /\ tx.pledgeOut = {}
    /\ \A r, q \in tx.receiptIn : r.campaign = q.campaign
    /\ tx.receiptIn # {} /\ tx.receiptOut = {}

Kind(tx) ==
    \/ MovesCampaign(tx)
    \/ MakesPledge(tx)
    \/ MergesPledges(tx)
    \/ SettlesPledges(tx)
    \/ TakesReceipts(tx)

ClientCommit(tx) == tx \in Transaction /\ Commit(tx) /\ Routed(tx) /\ Kind(tx)

\* What a client's transaction is known to be, once it is committed.
LEMMA ClientTx ==
    ASSUME NEW tx, Commit(tx), Kind(tx), tx.pledgeOut = {} \/ Routed(tx)
    PROVE  ClientCommit(tx)
<1>1. tx \in Transaction
  BY DEF Commit, Valid
<1>2. tx.pledgeOut = {} => Routed(tx)
  BY DEF Routed
<1>. QED BY <1>1, <1>2 DEF ClientCommit

LEMMA CreateKind ==
    ASSUME NEW id, NEW creator, NEW goal, NEW deadline,
           Commit(CreateTx(id, creator, goal, deadline))
    PROVE  ClientCommit(CreateTx(id, creator, goal, deadline))
<1>. DEFINE tx == CreateTx(id, creator, goal, deadline)
<1>1. /\ tx.campIn = {} /\ \E new : tx.campOut = {new}
      /\ tx.pledgeIn = {} /\ tx.pledgeOut = {}
      /\ tx.receiptIn = {} /\ tx.receiptOut = {}
  BY DEF CreateTx, EmptyTx
<1>2. Commit(tx)
  OBVIOUS
<1>. HIDE DEF tx
<1>3. MovesCampaign(tx)
  BY <1>1 DEF MovesCampaign, AtMostOne
<1>4. ClientCommit(tx)
  BY <1>1, <1>2, <1>3, ClientTx DEF Kind
<1>. QED BY <1>4 DEF tx

LEMMA PledgeKind ==
    ASSUME NEW old, NEW id, NEW backer, NEW amount, NEW capacity, NEW total,
           Commit(PledgeTx(old, id, backer, amount, capacity, total))
    PROVE  /\ ClientCommit(PledgeTx(old, id, backer, amount, capacity, total))
           /\ MakesPledge(PledgeTx(old, id, backer, amount, capacity, total))
<1>. DEFINE tx == PledgeTx(old, id, backer, amount, capacity, total)
            p == [id |-> id, campaign |-> old.id, deadline |-> old.deadline,
                  backer |-> backer, amount |-> amount, capacity |-> capacity]
            r == [id |-> id, campaign |-> old.id, deadline |-> old.deadline,
                  backer |-> backer, amount |-> amount]
            new == [old EXCEPT !.total = total]
<1>1. /\ tx.campIn = {old} /\ tx.campOut = {new}
      /\ tx.pledgeIn = {} /\ tx.pledgeOut = {p}
      /\ tx.receiptIn = {} /\ tx.receiptOut = {r}
  BY DEF PledgeTx, EmptyTx
<1>2. Commit(tx) /\ tx \in Transaction
  BY DEF Commit, Valid
<1>3. old \in CampaignCell
  BY <1>1, <1>2 DEF Transaction
<1>4. new.id = old.id /\ new.status = old.status
  BY <1>3 DEF CampaignCell
<1>5. SameTerms(p, r)
  BY DEF SameTerms, LockOf
<1>6. p.campaign = old.id /\ p.deadline = old.deadline
  OBVIOUS
<1>. HIDE DEF tx, p, r, new
<1>7. MakesPledge(tx) /\ Routed(tx)
  BY <1>1, <1>4, <1>5, <1>6 DEF MakesPledge, Routed
<1>8. ClientCommit(tx)
  BY <1>2, <1>7, ClientTx DEF Kind
<1>. QED BY <1>7, <1>8 DEF tx

LEMMA MergeKind ==
    ASSUME NEW P, NEW lock, NEW id, NEW amount, NEW capacity, ~AtMostOne(P),
           Commit(MergeTx(P, lock, id, amount, capacity))
    PROVE  /\ ClientCommit(MergeTx(P, lock, id, amount, capacity))
           /\ MergesPledges(MergeTx(P, lock, id, amount, capacity))
<1>. DEFINE tx == MergeTx(P, lock, id, amount, capacity)
<1>1. /\ tx.since = 0 /\ tx.campIn = {} /\ tx.campOut = {}
      /\ tx.pledgeIn = P /\ \E p : tx.pledgeOut = {p}
      /\ tx.receiptIn = {} /\ tx.receiptOut = {}
  BY DEF MergeTx, EmptyTx
<1>2. Commit(tx) /\ Routed(tx)
  BY MergeRouted
<1>. HIDE DEF tx
<1>3. MergesPledges(tx)
  BY <1>1 DEF MergesPledges
<1>4. ClientCommit(tx)
  BY <1>2, <1>3, ClientTx DEF Kind
<1>. QED BY <1>3, <1>4 DEF tx

LEMMA FinalizeKind ==
    ASSUME NEW old, NEW status, NEW capacity, NEW since,
           Commit(FinalizeTx(old, status, capacity, since))
    PROVE  ClientCommit(FinalizeTx(old, status, capacity, since))
<1>. DEFINE tx == FinalizeTx(old, status, capacity, since)
            new == [old EXCEPT !.status = status, !.capacity = capacity]
<1>1. /\ tx.campIn = {old} /\ tx.campOut = {new}
      /\ tx.pledgeIn = {} /\ tx.pledgeOut = {}
      /\ tx.receiptIn = {} /\ tx.receiptOut = {}
  BY DEF FinalizeTx, EmptyTx
<1>2. Commit(tx) /\ tx \in Transaction
  BY DEF Commit, Valid
<1>3. old \in CampaignCell
  BY <1>1, <1>2 DEF Transaction
<1>4. new.id = old.id
  BY <1>3 DEF CampaignCell
<1>. HIDE DEF tx, new
<1>5. MovesCampaign(tx)
  BY <1>1, <1>4 DEF MovesCampaign, AtMostOne
<1>6. ClientCommit(tx)
  BY <1>1, <1>2, <1>5, ClientTx DEF Kind
<1>. QED BY <1>6 DEF tx

LEMMA SettleKind ==
    ASSUME NEW P, P # {}, NEW deps, NEW since, NEW pay, Commit(SettleTx(P, deps, since, pay))
    PROVE  ClientCommit(SettleTx(P, deps, since, pay))
<1>1. SettlesPledges(SettleTx(P, deps, since, pay))
  BY DEF SettleTx, EmptyTx, SettlesPledges
<1>. QED BY <1>1, ClientTx DEF Kind, SettlesPledges

LEMMA ReclaimKind ==
    ASSUME NEW tx, TakesReceipts(tx), Commit(tx)
    PROVE  ClientCommit(tx)
BY ClientTx DEF Kind, TakesReceipts

LEMMA DestroyKind ==
    ASSUME NEW old, NEW since, NEW pay, Commit(DestroyTx(old, since, pay))
    PROVE  ClientCommit(DestroyTx(old, since, pay))
<1>1. MovesCampaign(DestroyTx(old, since, pay)) /\ DestroyTx(old, since, pay).pledgeOut = {}
  BY DEF DestroyTx, EmptyTx, MovesCampaign, AtMostOne
<1>. QED BY <1>1, ClientTx DEF Kind

\* Every step is a block or commits a transaction that a client makes.
LEMMA StepKind ==
    ASSUME Next
    PROVE  NewBlock \/ \E tx : ClientCommit(tx)
<1>1. CASE \E id \in Campaigns : CreateCampaign(id)
  BY <1>1, CreateKind DEF CreateCampaign
<1>2. CASE \E id \in PledgeIds : Pledge(id)
  BY <1>2, PledgeKind DEF Pledge
<1>3. CASE \E id \in PledgeIds : Merge(id)
  BY <1>3, MergeKind DEF Merge
<1>4. CASE \E id \in Campaigns : FinalizeCampaign(id)
  BY <1>4, FinalizeKind DEF FinalizeCampaign
<1>5. CASE \E P \in (SUBSET pledges) \ {{}} : ReleasePledges(P)
  BY <1>5, SettleKind DEF ReleasePledges
<1>6. CASE \E P \in (SUBSET pledges) \ {{}} : RefundPledges(P)
  BY <1>6, SettleKind DEF RefundPledges
<1>7. CASE \E P \in (SUBSET pledges) \ {{}} : RescuePledges(P)
  BY <1>7, SettleKind DEF RescuePledges
<1>8. CASE \E w \in Wallets : ReclaimReceipts(w)
  <2>1. \A R, deps, since :
           R # {} /\ (\A r, q \in R : r.campaign = q.campaign) =>
              TakesReceipts(ReclaimTx(R, deps, since))
    BY DEF ReclaimTx, EmptyTx, TakesReceipts
  <2>. QED BY <1>8, <2>1, ReclaimKind DEF ReclaimReceipts
<1>9. CASE \E id \in Campaigns : DestroyCampaign(id)
  BY <1>9, DestroyKind DEF DestroyCampaign
<1>. QED BY <1>1, <1>2, <1>3, <1>4, <1>5, <1>6, <1>7, <1>8, <1>9 DEF Next

-----------------------------------------------------------------------------
(* What the scripts make of them                                            *)

\* Consensus: inputs are live, outputs are new, and there are few of those.
LEMMA CommitEffect ==
    ASSUME TypeOK, NEW tx, ClientCommit(tx)
    PROVE  /\ tx.pledgeIn \subseteq pledges /\ tx.pledgeOut \subseteq PledgeCell
           /\ tx.receiptIn \subseteq receipts /\ tx.receiptOut \subseteq ReceiptCell
           /\ tx.campIn \subseteq campaigns /\ tx.deps \subseteq campaigns
           /\ tx.campOut \subseteq CampaignCell
           /\ pledges' = (pledges \ tx.pledgeIn) \cup tx.pledgeOut
           /\ receipts' = (receipts \ tx.receiptIn) \cup tx.receiptOut
           /\ campaigns' = (campaigns \ tx.campIn) \cup tx.campOut
           /\ tx.pledgeOut \cap pledges = {} /\ IsFiniteSet(tx.pledgeOut)
           /\ tx.receiptOut \cap receipts = {} /\ IsFiniteSet(tx.receiptOut)
           /\ tx.since \in 0 .. MaxBlock /\ tx.since <= height /\ height' = height
<1>1. /\ tx.pledgeIn \subseteq pledges /\ tx.receiptIn \subseteq receipts
      /\ tx.campIn \subseteq campaigns /\ tx.deps \subseteq campaigns
      /\ tx.since <= height /\ height' = height
      /\ pledges' = (pledges \ tx.pledgeIn) \cup tx.pledgeOut
      /\ receipts' = (receipts \ tx.receiptIn) \cup tx.receiptOut
      /\ campaigns' = (campaigns \ tx.campIn) \cup tx.campOut
      /\ \A r \in tx.pledgeOut \cup tx.receiptOut : r.id \notin usedIds
  BY DEF ClientCommit, Commit, Valid
<1>2. /\ tx.pledgeOut \subseteq PledgeCell /\ tx.receiptOut \subseteq ReceiptCell
      /\ tx.campOut \subseteq CampaignCell /\ tx.since \in 0 .. MaxBlock
  BY DEF ClientCommit, Transaction
<1>3. tx.pledgeOut \cap pledges = {} /\ tx.receiptOut \cap receipts = {}
  BY <1>1 DEF TypeOK
<1>4. IsFiniteSet(tx.pledgeOut) /\ IsFiniteSet(tx.receiptOut)
  <2>1. /\ tx.pledgeOut = {} \/ \E p : tx.pledgeOut = {p}
        /\ tx.receiptOut = {} \/ \E r : tx.receiptOut = {r}
    BY DEF ClientCommit, Kind, MovesCampaign, MakesPledge, MergesPledges, SettlesPledges,
           TakesReceipts
  <2>2. IsFiniteSet({}) /\ \A x : IsFiniteSet({x})
    BY FS_EmptySet, FS_Singleton
  <2>. QED BY <2>1, <2>2
<1>. QED BY <1>1, <1>2, <1>3, <1>4

\* A new pledge is counted in full by the Active campaign it goes to, and holds
\* what it claims (validate_pledge_update, sum_campaign_pledges).
LEMMA PledgeScript ==
    ASSUME TypeOK, NEW tx, ClientCommit(tx), MakesPledge(tx)
    PROVE  \E old \in campaigns, new \in CampaignCell, p \in PledgeCell, r \in ReceiptCell :
              /\ tx.campIn = {old} /\ tx.campOut = {new}
              /\ tx.pledgeIn = {} /\ tx.pledgeOut = {p}
              /\ tx.receiptIn = {} /\ tx.receiptOut = {r}
              /\ new.id = old.id /\ old.status = "Active" /\ new.status = "Active"
              /\ ImmutableFields(old, new)
              /\ new.total = old.total + p.amount /\ new.total <= U64Max
              /\ p.campaign = old.id /\ p.deadline = old.deadline
              /\ p.amount > 0 /\ p.amount >= MIN_PLEDGE_AMOUNT /\ PledgeFunded(p)
              /\ SameTerms(p, r)
<1>1. PICK old, new, p, r :
        /\ tx.campIn = {old} /\ tx.campOut = {new}
        /\ new.id = old.id /\ new.status = old.status
        /\ tx.pledgeIn = {} /\ tx.pledgeOut = {p}
        /\ tx.receiptIn = {} /\ tx.receiptOut = {r}
        /\ SameTerms(p, r)
        /\ p.campaign = old.id /\ p.deadline = old.deadline
  BY DEF MakesPledge
<1>2. /\ old \in campaigns /\ old \in CampaignCell /\ new \in CampaignCell
      /\ p \in PledgeCell /\ r \in ReceiptCell
  BY <1>1, CommitEffect DEF TypeOK
<1>3. CampaignType(tx, old.id, minted)
  BY <1>1 DEF ClientCommit, Commit, Valid, ScriptsAccept
<1>4. IF new.status = "Active" THEN PledgeUpdate(old, new, tx) ELSE Finalization(old, new, tx)
  BY <1>1, <1>3 DEF CampaignType
<1>5. new.status = "Active" /\ PledgeUpdate(old, new, tx)
  BY <1>1, <1>4 DEF Finalization
<1>6. Bound(tx.pledgeOut, old.id) = {p} /\ Bound(tx.pledgeIn, old.id) = {}
  BY <1>1 DEF Bound
<1>7. /\ AboveMinimum(p) /\ PledgeFunded(p)
      /\ Amount({p}) > Amount({})
      /\ new.total = old.total + (Amount({p}) - Amount({}))
      /\ new.total <= U64Max
      /\ ImmutableFields(old, new)
  BY <1>5, <1>6 DEF PledgeUpdate, PledgesCountable, TotalAdvanced
<1>8. Amount({}) = 0 /\ Amount({p}) = p.amount /\ p.amount \in Nat
  BY <1>2, AmountEmpty, AmountSingle, U64Assumption DEF PledgeCell, U64
<1>9. old.total \in Nat
  BY <1>2, U64Assumption DEF CampaignCell, U64
<1>10. /\ new.total = old.total + p.amount
       /\ p.amount > 0
  BY <1>7, <1>8, <1>9
<1>. QED BY <1>1, <1>2, <1>5, <1>7, <1>10 DEF AboveMinimum

\* A merge moves all of several cells of one lock into one (validate_merge).
LEMMA MergeScript ==
    ASSUME TypeOK, NEW tx, ClientCommit(tx), MergesPledges(tx)
    PROVE  \E m \in PledgeCell :
              /\ tx.pledgeOut = {m} /\ tx.pledgeIn # {}
              /\ \A p \in tx.pledgeIn : LockOf(p) = LockOf(m)
              /\ m.amount = Amount(tx.pledgeIn)
              /\ m.capacity = Capacity(tx.pledgeIn)
<1>1. PICK m : tx.pledgeOut = {m}
  BY DEF MergesPledges
<1>2. m \in PledgeCell
  BY <1>1, CommitEffect
<1>3. tx.since = 0 /\ ~AtMostOne(tx.pledgeIn)
  BY DEF MergesPledges
<1>4. ASSUME NEW p \in tx.pledgeIn
      PROVE  MergeLock(tx, LockOf(p))
  BY <1>3 DEF ClientCommit, Commit, Valid, ScriptsAccept, PledgeLock
<1>5. ASSUME NEW p \in tx.pledgeIn
      PROVE  LockOf(p) = LockOf(m)
  <2>1. Group(tx.pledgeOut, LockOf(p)) # {}
    BY <1>4, <1>5 DEF MergeLock
  <2>. QED BY <1>1, <2>1 DEF Group
<1>6. PICK q \in tx.pledgeIn : TRUE
  BY <1>3 DEF AtMostOne
<1>7. Group(tx.pledgeIn, LockOf(q)) = tx.pledgeIn /\ m \in Group(tx.pledgeOut, LockOf(q))
  <2>1. \A p \in tx.pledgeIn : LockOf(p) = LockOf(q)
    BY <1>5
  <2>. QED BY <1>1, <1>5, <2>1 DEF Group
<1>8. m.amount = Amount(tx.pledgeIn) /\ m.capacity = Capacity(tx.pledgeIn)
  BY <1>4, <1>7 DEF MergeLock
<1>. QED BY <1>1, <1>2, <1>5, <1>6, <1>8

\* What a transaction without pledge outputs leaves of a campaign's total.
LEMMA TotalFrozen ==
    ASSUME TypeOK, NEW tx, ClientCommit(tx), tx.pledgeOut = {}, IsFiniteSet(pledges),
           NEW old \in tx.campIn, NEW new \in tx.campOut, old.id = new.id
    PROVE  Finalization(old, new, tx)
<1>1. CampaignType(tx, old.id, minted)
  BY DEF ClientCommit, Commit, Valid, ScriptsAccept
<1>2. IF new.status = "Active" THEN PledgeUpdate(old, new, tx) ELSE Finalization(old, new, tx)
  BY <1>1 DEF CampaignType
<1>3. ASSUME PledgeUpdate(old, new, tx)
      PROVE  FALSE
  <2>. DEFINE consumed == Bound(tx.pledgeIn, old.id)
  <2>1. Bound(tx.pledgeOut, old.id) = {}
    BY DEF Bound
  <2>2. Amount({}) > Amount(consumed)
    BY <1>3, <2>1 DEF PledgeUpdate, TotalAdvanced
  <2>3. consumed \in SUBSET pledges /\ \A p \in consumed : p.amount \in Nat
    BY CommitEffect, U64Assumption DEF Bound, TypeOK, PledgeCell, U64
  <2>4. Amount(consumed) \in Nat
    BY <2>3, FS_Subset, AmountNat
  <2>. HIDE DEF consumed
  <2>. QED BY <2>2, <2>4, AmountEmpty
<1>. QED BY <1>2, <1>3

-----------------------------------------------------------------------------
(* What left escrow                                                         *)

LEMMA SettledMember ==
    ASSUME NEW id, NEW how, NEW p
    PROVE  p \in Settled(id, how) <=>
              p.campaign = id /\ \E s \in settlements : s.how \in how /\ p \in s.pledges
BY DEF Settled, Bound

LEMMA SettlementsAfter ==
    ASSUME NEW tx, ClientCommit(tx)
    PROVE  settlements' = IF SettlesPledges(tx) THEN settlements \cup {SettlementOf(tx)}
                                                ELSE settlements
<1>1. tx.pledgeIn # {} /\ tx.pledgeOut = {} <=> SettlesPledges(tx)
  BY DEF ClientCommit, Kind, MovesCampaign, MakesPledge, MergesPledges, SettlesPledges,
         TakesReceipts
<1>. QED BY <1>1 DEF ClientCommit, Commit

LEMMA SettledAfter ==
    ASSUME NEW tx, ClientCommit(tx), NEW id, NEW how
    PROVE  IF SettlesPledges(tx) /\ HowSettled(tx) \in how
           THEN Settled(id, how)' = Settled(id, how) \cup Bound(tx.pledgeIn, id)
           ELSE Settled(id, how)' = Settled(id, how)
<1>1. SettlementOf(tx).how = HowSettled(tx) /\ SettlementOf(tx).pledges = tx.pledgeIn
  BY DEF SettlementOf
<1>2. \A p : p \in Settled(id, how)' <=>
               p.campaign = id /\ \E s \in settlements' : s.how \in how /\ p \in s.pledges
  BY DEF Settled, Bound
<1>3. \A p : p \in Settled(id, how) <=>
               p.campaign = id /\ \E s \in settlements : s.how \in how /\ p \in s.pledges
  BY SettledMember
<1>4. \A p : p \in Bound(tx.pledgeIn, id) <=> p.campaign = id /\ p \in tx.pledgeIn
  BY DEF Bound
<1>5. CASE SettlesPledges(tx)
  <2>1. settlements' = settlements \cup {SettlementOf(tx)}
    BY <1>5, SettlementsAfter
  <2>2. CASE HowSettled(tx) \in how
    <3>1. Settled(id, how)' = Settled(id, how) \cup Bound(tx.pledgeIn, id)
      BY <1>1, <1>2, <1>3, <1>4, <2>1, <2>2
    <3>. QED BY <1>5, <2>2, <3>1
  <2>3. CASE HowSettled(tx) \notin how
    <3>1. Settled(id, how)' = Settled(id, how)
      BY <1>1, <1>2, <1>3, <2>1, <2>3
    <3>. QED BY <2>3, <3>1
  <2>. QED BY <2>2, <2>3
<1>6. CASE ~SettlesPledges(tx)
  <2>1. settlements' = settlements
    BY <1>6, SettlementsAfter
  <2>2. Settled(id, how)' = Settled(id, how)
    BY <1>2, <1>3, <2>1
  <2>. QED BY <1>6, <2>2
<1>. QED BY <1>5, <1>6

\* Sums over what left escrow are sums over finite sets of pledge cells.
LEMMA SettledCells ==
    ASSUME TypeOK, LedgerFinite, NEW id, NEW how
    PROVE  /\ IsFiniteSet(Settled(id, how))
           /\ Settled(id, how) \subseteq PledgeCell
           /\ \A p \in Settled(id, how) : p.amount \in Nat
           /\ Amount(Settled(id, how)) \in Nat
<1>1. Settled(id, how) \in SUBSET UNION {s.pledges : s \in settlements}
  BY DEF Settled, Bound
<1>2. IsFiniteSet(Settled(id, how))
  BY <1>1, FS_Subset DEF LedgerFinite
<1>3. Settled(id, how) \subseteq PledgeCell
  BY SettledMember DEF TypeOK, Settlement
<1>4. \A p \in Settled(id, how) : p.amount \in Nat
  BY <1>3, U64Assumption DEF PledgeCell, U64
<1>. QED BY <1>2, <1>3, <1>4, AmountNat

LEMMA EscrowCells ==
    ASSUME TypeOK, LedgerFinite, NEW P \in SUBSET pledges
    PROVE  /\ IsFiniteSet(P)
           /\ \A p \in P : p.amount \in Nat /\ p.capacity \in Nat
           /\ Amount(P) \in Nat /\ Capacity(P) \in Nat
<1>1. IsFiniteSet(P)
  BY FS_Subset DEF LedgerFinite
<1>2. \A p \in P : p.amount \in Nat /\ p.capacity \in Nat
  BY U64Assumption DEF TypeOK, PledgeCell, U64
<1>. QED BY <1>1, <1>2, AmountNat, CapacityNat

-----------------------------------------------------------------------------
(* The ledger as a finite set of cells that are spent once                  *)

LEMMA LedgerFiniteCommit ==
    ASSUME TypeOK, LedgerFinite, NEW tx, ClientCommit(tx)
    PROVE  LedgerFinite'
<1>1. IsFiniteSet(pledges')
  <2>1. IsFiniteSet(pledges \ tx.pledgeIn)
    BY FS_Difference DEF LedgerFinite
  <2>2. IsFiniteSet((pledges \ tx.pledgeIn) \cup tx.pledgeOut)
    BY <2>1, CommitEffect, FS_Union
  <2>. QED BY <2>2, CommitEffect
<1>2. IsFiniteSet(receipts')
  <2>1. IsFiniteSet(receipts \ tx.receiptIn)
    BY FS_Difference DEF LedgerFinite
  <2>2. IsFiniteSet((receipts \ tx.receiptIn) \cup tx.receiptOut)
    BY <2>1, CommitEffect, FS_Union
  <2>. QED BY <2>2, CommitEffect
<1>3. IsFiniteSet(UNION {s.pledges : s \in settlements'})
  <2>. DEFINE left == UNION {s.pledges : s \in settlements}
  <2>1. CASE SettlesPledges(tx)
    <3>1. UNION {s.pledges : s \in settlements'} = left \cup tx.pledgeIn
      <4>1. settlements' = settlements \cup {SettlementOf(tx)}
        BY <2>1, SettlementsAfter
      <4>2. SettlementOf(tx).pledges = tx.pledgeIn
        BY DEF SettlementOf
      <4>. QED BY <4>1, <4>2
    <3>2. IsFiniteSet(tx.pledgeIn)
      BY CommitEffect, EscrowCells
    <3>3. IsFiniteSet(left)
      BY DEF LedgerFinite
    <3>4. IsFiniteSet(left \cup tx.pledgeIn)
      <4>. HIDE DEF left
      <4>. QED BY <3>2, <3>3, FS_Union
    <3>. QED BY <3>1, <3>4
  <2>2. CASE ~SettlesPledges(tx)
    BY <2>2, SettlementsAfter DEF LedgerFinite
  <2>. QED BY <2>1, <2>2
<1>. QED BY <1>1, <1>2, <1>3 DEF LedgerFinite

LEMMA SettledOnceCommit ==
    ASSUME TypeOK, SettledOnce, NEW tx, ClientCommit(tx)
    PROVE  SettledOnce'
<1>1. /\ usedIds \subseteq usedIds'
      /\ \A p \in tx.pledgeOut : p.id \notin usedIds
  BY DEF ClientCommit, Commit, Valid
<1>2. \A p \in tx.pledgeIn : p \in pledges /\ p.id \in usedIds
  BY CommitEffect DEF TypeOK
<1>3. SettlementOf(tx).pledges = tx.pledgeIn
  BY DEF SettlementOf
<1>4. ASSUME NEW s \in settlements', NEW p \in s.pledges
      PROVE  p \notin pledges' /\ p.id \in usedIds'
  <2>1. CASE s \in settlements
    BY <1>1, <1>4, <2>1, CommitEffect DEF SettledOnce
  <2>2. CASE s \notin settlements
    <3>1. SettlesPledges(tx) /\ s = SettlementOf(tx)
      BY <1>4, <2>2, SettlementsAfter
    <3>. QED BY <1>1, <1>2, <1>3, <1>4, <3>1, CommitEffect DEF SettlesPledges
  <2>. QED BY <2>1, <2>2
<1>5. ASSUME NEW s \in settlements', NEW t \in settlements', s.pledges \cap t.pledges # {}
      PROVE  s = t
  <2>1. ASSUME NEW u \in settlements, NEW p \in u.pledges
        PROVE  p \notin tx.pledgeIn
    BY <1>2, <2>1 DEF SettledOnce
  <2>2. \A u \in settlements' : u \in settlements \/ u = SettlementOf(tx)
    BY SettlementsAfter
  <2>. QED BY <1>3, <1>5, <2>1, <2>2 DEF SettledOnce
<1>. QED BY <1>4, <1>5 DEF SettledOnce

\* A merged cell holds what the merged ones held, which is more than it claims.
LEMMA EscrowBackedCommit ==
    ASSUME TypeOK, LedgerFinite, EscrowBacked, NEW tx, ClientCommit(tx)
    PROVE  EscrowBacked'
<1>1. ASSUME NEW c \in tx.campOut
      PROVE  c.deadline > 0
  <2>1. NewCampaign(c) \/ \E old \in tx.campIn : Successor(tx, old, c)
    BY CampaignOutput DEF ClientCommit
  <2>. QED BY <2>1, CommitEffect DEF NewCampaign, CampaignCreation, Successor, ImmutableFields,
                                     EscrowBacked
<1>2. ASSUME NEW p \in tx.pledgeOut
      PROVE  p.amount > 0 /\ p.deadline > 0 /\ PledgeFunded(p)
  <2>1. CASE MakesPledge(tx)
    BY <1>2, <2>1, PledgeScript DEF EscrowBacked
  <2>2. CASE MergesPledges(tx)
    <3>. DEFINE P == tx.pledgeIn
    <3>1. /\ p \in PledgeCell /\ P # {}
          /\ \A q \in P : LockOf(q) = LockOf(p)
          /\ p.amount = Amount(P) /\ p.capacity = Capacity(P)
      BY <1>2, <2>2, MergeScript
    <3>2. P \in SUBSET pledges
      BY CommitEffect
    <3>3. IsFiniteSet(P) /\ (\A q \in P : q.amount \in Nat)
      BY <3>2, EscrowCells
    <3>4. PICK q \in P : q.amount > 0 /\ q.deadline > 0
      BY <3>1, <3>2 DEF EscrowBacked
    <3>5. p.deadline > 0
      BY <3>1, <3>4 DEF LockOf
    <3>6. p.amount > 0
      <4>1. {q} \in SUBSET P /\ Amount({q}) = q.amount
        BY <3>3, <3>4, AmountSingle
      <4>2. Amount({q}) <= Amount(P)
        <5>1. IsFiniteSet({}) /\ {} \cap P = {} /\ \A x \in P \cup {} : x.amount \in Nat
          BY <3>3, FS_EmptySet
        <5>. QED BY <3>3, <4>1, <5>1, AmountMoved
      <4>. QED BY <3>1, <3>3, <3>4, <4>1, <4>2, U64Assumption DEF PledgeCell, U64
    <3>7. PledgeFunded(p)
      <4>1. Capacity(P) >= Amount(P) + PledgeOccupied * Cardinality(P)
        BY <3>2, <3>3, FundedCapacity DEF EscrowBacked, TypeOK
      <4>2. Cardinality(P) \in Nat /\ Cardinality(P) # 0
        BY <3>1, <3>3, FS_CardinalityType, FS_EmptySet
      <4>3. PledgeOccupied * Cardinality(P) >= PledgeOccupied
        BY <4>2, LimitsAssumption
      <4>4. PledgeOccupied * Cardinality(P) \in Nat
        BY <4>2, LimitsAssumption
      <4>. QED BY <3>1, <4>1, <4>3, <4>4, LimitsAssumption, U64Assumption
               DEF PledgeFunded, PledgeCell, U64
    <3>. QED BY <3>5, <3>6, <3>7
  <2>. QED BY <1>2, <2>1, <2>2 DEF ClientCommit, Kind, MovesCampaign, SettlesPledges, TakesReceipts
<1>. QED BY <1>1, <1>2, CommitEffect DEF EscrowBacked

\* Where a campaign cell after a transaction comes from, and that a campaign
\* nobody referred to is new.
LEMMA CampaignAfter ==
    ASSUME IInv, NEW tx, ClientCommit(tx), NEW c \in campaigns'
    PROVE  \/ c \in campaigns /\ c \notin tx.campIn
           \/ c \in tx.campOut /\ c.id \notin minted /\ CampaignCreation(c)
           \/ c \in tx.campOut /\ \E old \in tx.campIn : old \in campaigns /\ Successor(tx, old, c)
<1>1. CASE c \in tx.campOut
  <2>1. NewCampaign(c) \/ \E old \in tx.campIn : Successor(tx, old, c)
    BY <1>1, CampaignOutput DEF ClientCommit, IInv
  <2>. QED BY <1>1, <2>1, CommitEffect DEF NewCampaign, IInv
<1>. QED BY <1>1, CommitEffect DEF IInv

LEMMA HistoryAgreesCommit ==
    ASSUME IInv, HistoryAgrees, NEW tx, ClientCommit(tx)
    PROVE  HistoryAgrees'
<1>1. TypeOK /\ minted \subseteq minted'
  BY DEF IInv, ClientCommit, Commit
<1>2. ASSUME NEW r \in receipts'
      PROVE  /\ r.campaign \in minted
             /\ \A c \in campaigns : c.id = r.campaign => c.deadline = r.deadline
  <2>1. CASE r \in receipts
    BY <2>1 DEF HistoryAgrees
  <2>2. CASE r \in tx.receiptOut
    <3>1. MakesPledge(tx)
      BY <2>2 DEF ClientCommit, Kind, MovesCampaign, MergesPledges, SettlesPledges, TakesReceipts
    <3>2. PICK old \in campaigns, p \in PledgeCell :
             /\ p.campaign = old.id /\ p.deadline = old.deadline
             /\ SameTerms(p, r)
      BY <1>1, <2>2, <3>1, PledgeScript
    <3>3. r.campaign = old.id /\ r.deadline = old.deadline
      BY <3>2 DEF SameTerms, LockOf
    <3>. QED BY <3>3 DEF IInv, CampaignsMinted, OneCampaignCell
  <2>. QED BY <1>1, <1>2, <2>1, <2>2, CommitEffect
<1>3. ASSUME NEW s \in settlements', NEW p \in s.pledges
      PROVE  /\ p.campaign \in minted
             /\ \A c \in campaigns : c.id = p.campaign => c.deadline = p.deadline
  <2>1. CASE s \in settlements
    BY <1>3, <2>1 DEF HistoryAgrees, IInv, CampaignsMinted
  <2>2. CASE s \notin settlements
    <3>1. s.pledges = tx.pledgeIn
      BY <1>3, <2>2, SettlementsAfter DEF SettlementOf
    <3>2. p \in pledges
      BY <1>1, <1>3, <3>1, CommitEffect
    <3>. QED BY <3>2 DEF IInv, CampaignsMinted, DeadlinesAgree
  <2>. QED BY <2>1, <2>2
<1>4. ASSUME NEW c \in campaigns', c.id \in minted
      PROVE  \E old \in campaigns : old.id = c.id /\ old.deadline = c.deadline
  BY <1>4, CampaignAfter DEF Successor, ImmutableFields
<1>. QED BY <1>1, <1>2, <1>3, <1>4 DEF HistoryAgrees

-----------------------------------------------------------------------------
(* The accumulator                                                          *)

LEMMA BoundAfter ==
    ASSUME TypeOK, NEW tx, ClientCommit(tx), NEW id
    PROVE  /\ Bound(pledges', id) = (Bound(pledges, id) \ Bound(tx.pledgeIn, id))
                                       \cup Bound(tx.pledgeOut, id)
           /\ Bound(tx.pledgeIn, id) \in SUBSET Bound(pledges, id)
           /\ Bound(tx.pledgeOut, id) \cap Bound(pledges, id) = {}
BY CommitEffect DEF Bound

LEMMA HeldAfter ==
    ASSUME TypeOK, LedgerFinite, NEW tx, ClientCommit(tx), NEW id
    PROVE  /\ Amount(Bound(pledges', id)) =
                 Amount(Bound(pledges, id)) - Amount(Bound(tx.pledgeIn, id))
                   + Amount(Bound(tx.pledgeOut, id))
           /\ Amount(Bound(pledges, id)) \in Nat
           /\ Amount(Bound(tx.pledgeIn, id)) \in Nat
           /\ Amount(Bound(tx.pledgeOut, id)) \in Nat
<1>. DEFINE P == Bound(pledges, id)
            I == Bound(tx.pledgeIn, id)
            O == Bound(tx.pledgeOut, id)
<1>1. /\ Bound(pledges', id) = (P \ I) \cup O
      /\ I \in SUBSET P /\ O \cap P = {}
  BY BoundAfter
<1>2. P \in SUBSET pledges /\ I \in SUBSET pledges
  BY <1>1 DEF Bound
<1>3. /\ IsFiniteSet(P) /\ \A p \in P : p.amount \in Nat
      /\ Amount(P) \in Nat /\ Amount(I) \in Nat
  BY <1>2, EscrowCells
<1>4. O \in SUBSET tx.pledgeOut
  BY DEF Bound
<1>5. IsFiniteSet(O) /\ \A p \in O : p.amount \in Nat
  BY <1>4, CommitEffect, FS_Subset, U64Assumption DEF PledgeCell, U64
<1>6. Amount(O) \in Nat
  BY <1>5, AmountNat
<1>. HIDE DEF P, I, O
<1>7. Amount((P \ I) \cup O) = Amount(P) - Amount(I) + Amount(O)
  BY <1>1, <1>3, <1>5, AmountMoved
<1>. QED BY <1>1, <1>3, <1>6, <1>7 DEF P, I, O

LEMMA SettledSum ==
    ASSUME TypeOK, LedgerFinite, SettledOnce, NEW tx, ClientCommit(tx), NEW id, NEW how
    PROVE  /\ Amount(Settled(id, how)') =
                 Amount(Settled(id, how)) + IF SettlesPledges(tx) /\ HowSettled(tx) \in how
                                            THEN Amount(Bound(tx.pledgeIn, id)) ELSE 0
           /\ Amount(Settled(id, how)) \in Nat
<1>. DEFINE S == Settled(id, how)
            I == Bound(tx.pledgeIn, id)
<1>1. /\ IsFiniteSet(S) /\ \A p \in S : p.amount \in Nat
      /\ Amount(S) \in Nat
  BY SettledCells
<1>2. I \in SUBSET pledges
  BY CommitEffect DEF Bound
<1>3. IsFiniteSet(I) /\ \A p \in I : p.amount \in Nat
  BY <1>2, EscrowCells
<1>4. S \cap I = {}
  BY <1>2, SettledMember DEF SettledOnce
<1>5. CASE SettlesPledges(tx) /\ HowSettled(tx) \in how
  <2>1. S' = S \cup I
    BY <1>5, SettledAfter
  <2>2. Amount(S \cup I) = Amount(S) + Amount(I)
    <3>. HIDE DEF S, I
    <3>. QED BY <1>1, <1>3, <1>4, AmountOfParts
  <2>. QED BY <1>1, <1>5, <2>1, <2>2
<1>6. CASE ~(SettlesPledges(tx) /\ HowSettled(tx) \in how)
  <2>1. S' = S
    BY <1>6, SettledAfter
  <2>. QED BY <1>1, <1>6, <2>1
<1>. QED BY <1>5, <1>6

\* Whatever a step does to pledges, escrow and history together change by what
\* a new pledge brings.
LEMMA RaisedAfter ==
    ASSUME TypeOK, LedgerFinite, SettledOnce, NEW tx, ClientCommit(tx), ~MakesPledge(tx), NEW id
    PROVE  Amount(Bound(pledges', id)) + Amount(Settled(id, Outcomes)') =
              Amount(Bound(pledges, id)) + Amount(Settled(id, Outcomes))
<1>. DEFINE I == Bound(tx.pledgeIn, id)
            O == Bound(tx.pledgeOut, id)
<1>1. /\ Amount(Bound(pledges', id)) = Amount(Bound(pledges, id)) - Amount(I) + Amount(O)
      /\ Amount(Bound(pledges, id)) \in Nat /\ Amount(I) \in Nat /\ Amount(O) \in Nat
  BY HeldAfter
<1>2. /\ Amount(Settled(id, Outcomes)') =
            Amount(Settled(id, Outcomes)) + IF SettlesPledges(tx) THEN Amount(I) ELSE 0
      /\ Amount(Settled(id, Outcomes)) \in Nat
  <2>1. HowSettled(tx) \in Outcomes
    BY DEF HowSettled, Outcomes
  <2>. QED BY <2>1, SettledSum
<1>3. Amount(O) = IF SettlesPledges(tx) THEN 0 ELSE Amount(I)
  <2>1. CASE SettlesPledges(tx)
    <3>1. O = {}
      BY <2>1 DEF SettlesPledges, Bound
    <3>. QED BY <2>1, <3>1, AmountEmpty
  <2>2. CASE MergesPledges(tx)
    <3>1. PICK m \in PledgeCell : /\ tx.pledgeOut = {m} /\ tx.pledgeIn # {}
                                  /\ \A p \in tx.pledgeIn : p.campaign = m.campaign
                                  /\ m.amount = Amount(tx.pledgeIn)
      BY <2>2, MergeScript DEF LockOf
    <3>2. ~SettlesPledges(tx)
      BY <3>1 DEF SettlesPledges
    <3>3. CASE m.campaign = id
      <4>1. O = {m} /\ I = tx.pledgeIn
        BY <3>1, <3>3 DEF Bound
      <4>2. Amount({m}) = m.amount
        BY AmountSingle, U64Assumption DEF PledgeCell, U64
      <4>. QED BY <3>1, <3>2, <4>1, <4>2
    <3>4. CASE m.campaign # id
      <4>1. O = {} /\ I = {}
        BY <3>1, <3>4 DEF Bound
      <4>. QED BY <3>2, <4>1
    <3>. QED BY <3>3, <3>4
  <2>3. CASE tx.pledgeIn = {} /\ tx.pledgeOut = {}
    <3>1. O = I /\ ~SettlesPledges(tx)
      BY <2>3 DEF Bound, SettlesPledges
    <3>. QED BY <3>1
  <2>. QED BY <2>1, <2>2, <2>3 DEF ClientCommit, Kind, MovesCampaign, TakesReceipts
<1>. HIDE DEF I, O
<1>. QED BY <1>1, <1>2, <1>3

LEMMA AccumulatorExactCommit ==
    ASSUME IInv, LedgerFinite, SettledOnce, AccumulatorExact, NEW tx, ClientCommit(tx)
    PROVE  AccumulatorExact'
<1>. SUFFICES ASSUME NEW c \in campaigns'
              PROVE  c.total = Amount(Bound(pledges', c.id)) + Amount(Settled(c.id, Outcomes)')
  BY DEF AccumulatorExact
<1>. DEFINE held    == Amount(Bound(pledges, c.id))
            settled == Amount(Settled(c.id, Outcomes))
<1>1. TypeOK
  BY DEF IInv
<1>2. held \in Nat /\ settled \in Nat
  BY <1>1, HeldAfter, SettledSum
<1>3. ASSUME c.id \notin minted, CampaignCreation(c), c \in tx.campOut
      PROVE  /\ c.total = 0 /\ held = 0 /\ settled = 0
             /\ ~MakesPledge(tx)
  <2>1. Bound(pledges, c.id) = {} /\ Settled(c.id, Outcomes) = {}
    BY <1>3, SettledMember DEF IInv, CampaignsMinted, Bound
  <2>2. \A old \in tx.campIn : old.id \in minted
    BY <1>1, CommitEffect DEF IInv, CampaignsMinted
  <2>. QED BY <1>3, <2>1, <2>2, AmountEmpty DEF CampaignCreation, MakesPledge
<1>4. CASE ~MakesPledge(tx)
  <2>1. Amount(Bound(pledges', c.id)) + Amount(Settled(c.id, Outcomes)')
          = held + settled
    BY <1>1, <1>4, RaisedAfter
  <2>2. c.total = held + settled
    <3>1. CASE c \in campaigns
      BY <3>1 DEF AccumulatorExact
    <3>2. CASE c \in tx.campOut /\ c.id \notin minted /\ CampaignCreation(c)
      BY <1>3, <3>2
    <3>3. CASE c \in tx.campOut /\ \E old \in tx.campIn : old \in campaigns /\ Successor(tx, old, c)
      <4>1. PICK old \in tx.campIn : old \in campaigns /\ Successor(tx, old, c)
        BY <3>3
      <4>2. tx.pledgeOut = {}
        BY <1>4, <4>1 DEF ClientCommit, Kind, MovesCampaign, MergesPledges, SettlesPledges,
                          TakesReceipts
      <4>3. Finalization(old, c, tx)
        BY <1>1, <3>3, <4>1, <4>2, TotalFrozen DEF LedgerFinite, Successor
      <4>. QED BY <4>1, <4>3 DEF Finalization, Successor, AccumulatorExact
    <3>. QED BY <3>1, <3>2, <3>3, CampaignAfter
  <2>. QED BY <2>1, <2>2
<1>5. CASE MakesPledge(tx)
  <2>1. PICK old \in campaigns, new \in CampaignCell, p \in PledgeCell :
           /\ tx.campIn = {old} /\ tx.campOut = {new}
           /\ tx.pledgeIn = {} /\ tx.pledgeOut = {p}
           /\ new.id = old.id /\ new.total = old.total + p.amount
           /\ p.campaign = old.id
    BY <1>1, <1>5, PledgeScript
  <2>2. p.amount \in Nat /\ Amount({p}) = p.amount
    BY AmountSingle, U64Assumption DEF PledgeCell, U64
  <2>3. Amount(Settled(c.id, Outcomes)') = settled
    <3>1. ~SettlesPledges(tx)
      BY <2>1 DEF SettlesPledges
    <3>. QED BY <1>1, <1>2, <3>1, SettledSum
  <2>4. /\ Amount(Bound(pledges', c.id)) = held - Amount(Bound(tx.pledgeIn, c.id))
                                             + Amount(Bound(tx.pledgeOut, c.id))
        /\ Bound(tx.pledgeIn, c.id) = {}
    <3>1. Bound(tx.pledgeIn, c.id) = {}
      BY <2>1 DEF Bound
    <3>. QED BY <1>1, <3>1, HeldAfter
  <2>5. CASE c.id = old.id
    <3>1. c = new
      <4>1. c \in tx.campOut \/ c \in campaigns \ tx.campIn
        BY <1>1, CommitEffect
      <4>. QED BY <2>1, <2>5, <4>1 DEF IInv, OneCampaignCell
    <3>2. Bound(tx.pledgeOut, c.id) = {p}
      BY <2>1, <2>5 DEF Bound
    <3>3. old.total = held + settled
      BY <2>5 DEF AccumulatorExact
    <3>4. Amount(Bound(pledges', c.id)) = held - 0 + p.amount
      BY <2>2, <2>4, <3>2, AmountEmpty
    <3>. HIDE DEF held, settled
    <3>. QED BY <1>2, <2>1, <2>2, <2>3, <3>1, <3>3, <3>4
  <2>6. CASE c.id # old.id
    <3>1. c \in campaigns
      BY <1>1, <2>1, <2>6, CommitEffect
    <3>2. Bound(tx.pledgeOut, c.id) = {}
      BY <2>1, <2>6 DEF Bound
    <3>3. c.total = held + settled
      BY <3>1 DEF AccumulatorExact
    <3>. HIDE DEF held, settled
    <3>. QED BY <1>2, <2>3, <2>4, <3>2, <3>3, AmountEmpty
  <2>. QED BY <2>5, <2>6
<1>. QED BY <1>4, <1>5

-----------------------------------------------------------------------------
(* Receipts and pledges of an undecided campaign                            *)

LEMMA GraceReached ==
    ASSUME IInv, NEW tx, ClientCommit(tx), NEW cell, cell.deadline \in U64,
           SinceReached(tx, GraceDeadline(cell.deadline))
    PROVE  GraceOver(cell)
<1>1. tx.since >= GraceDeadline(cell.deadline)
  BY DEF SinceReached
<1>2. tx.since \in 0 .. MaxBlock /\ tx.since <= height /\ height \in 0 .. Horizon
  BY CommitEffect DEF IInv, TypeOK
<1>. QED BY <1>1, <1>2, U64Assumption, LimitsAssumption, FormsAssumption, BlockAssumption
         DEF GraceOver, GraceDeadline, SatAdd, U64

\* While a campaign is undecided, and before the fail-safe opens, no pledge of
\* it is settled and no receipt of it is given up.
LEMMA UndecidedKeepsPledges ==
    ASSUME IInv, NEW tx, ClientCommit(tx), SettlesPledges(tx),
           NEW c \in campaigns, c.status = "Active", ~GraceOver(c), NEW p \in tx.pledgeIn
    PROVE  p.campaign # c.id
<1>. SUFFICES ASSUME p.campaign = c.id
              PROVE  FALSE
  OBVIOUS
<1>1. TypeOK /\ p \in pledges /\ p.deadline \in U64 /\ tx \in Transaction /\ Commit(tx)
  BY CommitEffect DEF IInv, TypeOK, PledgeCell, ClientCommit
<1>2. /\ CampaignDep(tx, LockOf(p)) = {} => SinceReached(tx, GraceDeadline(p.deadline))
      /\ \A d \in CampaignDep(tx, LockOf(p)) : d.status \in {"Success", "Failed"}
  BY <1>1, SettlementScript DEF SettlesPledges
<1>3. c.deadline = p.deadline
  BY <1>1 DEF IInv, DeadlinesAgree
<1>4. ~SinceReached(tx, GraceDeadline(p.deadline))
  BY <1>1, <1>3, GraceReached DEF GraceOver
<1>5. PICK d \in CampaignDep(tx, LockOf(p)) : d.status \in {"Success", "Failed"}
  BY <1>2, <1>4
<1>6. d \in campaigns /\ d.id = c.id
  BY <1>1, <1>5, CommitEffect DEF CampaignDep, LockOf
<1>. QED BY <1>5, <1>6 DEF IInv, OneCampaignCell

LEMMA UndecidedKeepsReceipts ==
    ASSUME IInv, HistoryAgrees, NEW tx, ClientCommit(tx), TakesReceipts(tx),
           NEW c \in campaigns, c.status = "Active", ~GraceOver(c), NEW r \in tx.receiptIn
    PROVE  r.campaign # c.id
<1>. SUFFICES ASSUME r.campaign = c.id
              PROVE  FALSE
  OBVIOUS
<1>1. TypeOK
  BY DEF IInv
<1>2. ReceiptType(tx)
  BY DEF ClientCommit, Commit, Valid, ScriptsAccept
<1>3. PICK q \in tx.receiptIn : ReceiptDestruction(q, tx)
  BY <1>2 DEF ReceiptType
<1>4. q.campaign = c.id /\ q \in receipts /\ q.deadline \in U64
  BY <1>1, CommitEffect DEF TakesReceipts, TypeOK, ReceiptCell
<1>5. c.deadline = q.deadline
  BY <1>4 DEF HistoryAgrees
<1>6. CampaignSettled(q, tx)
  BY <1>3 DEF ReceiptDestruction, TakesReceipts
<1>7. ~SinceReached(tx, GraceDeadline(q.deadline))
  BY <1>4, <1>5, GraceReached DEF GraceOver
<1>8. PICK d \in CampaignDep(tx, LockOf(q)) : d.status # "Active"
  BY <1>6, <1>7 DEF CampaignSettled
<1>9. d \in campaigns /\ d.id = c.id
  BY <1>1, <1>4, <1>8, CommitEffect DEF CampaignDep, LockOf
<1>. QED BY <1>8, <1>9 DEF IInv, OneCampaignCell

\* The cells of one backer that are bound to one campaign.
Own(P, id, w) == OfBacker(Bound(P, id), w)

\* Some of finitely many cells give way to others.
CellsMove(L, In, Out) ==
    /\ IsFiniteSet(L) /\ IsFiniteSet(Out)
    /\ In \in SUBSET L /\ Out \cap L = {}
    /\ \A x \in L : x.amount \in Nat
    /\ \A x \in Out : x.amount \in Nat

LEMMA OwnMoved ==
    ASSUME NEW L, NEW In, NEW Out, CellsMove(L, In, Out), NEW id, NEW w
    PROVE  /\ Amount(Own((L \ In) \cup Out, id, w)) =
                 Amount(Own(L, id, w)) - Amount(Own(In, id, w)) + Amount(Own(Out, id, w))
           /\ Amount(Own(L, id, w)) \in Nat
           /\ Amount(Own(In, id, w)) \in Nat
           /\ Amount(Own(Out, id, w)) \in Nat
<1>. DEFINE P == Own(L, id, w)
            I == Own(In, id, w)
            O == Own(Out, id, w)
<1>1. /\ Own((L \ In) \cup Out, id, w) = (P \ I) \cup O
      /\ I \in SUBSET P /\ O \cap P = {}
      /\ P \in SUBSET L /\ I \in SUBSET L /\ O \in SUBSET Out
  BY DEF Own, OfBacker, Bound, CellsMove
<1>. HIDE DEF P, I, O
<1>2. /\ IsFiniteSet(P) /\ IsFiniteSet(I) /\ IsFiniteSet(O)
      /\ \A x \in P \cup O : x.amount \in Nat
      /\ \A x \in I : x.amount \in Nat
  BY <1>1, FS_Subset DEF CellsMove
<1>3. Amount((P \ I) \cup O) = Amount(P) - Amount(I) + Amount(O)
  BY <1>1, <1>2, AmountMoved
<1>4. Amount(P) \in Nat /\ Amount(I) \in Nat /\ Amount(O) \in Nat
  BY <1>2, AmountNat
<1>. QED BY <1>1, <1>3, <1>4 DEF P, I, O

LEMMA OwnAfter ==
    ASSUME TypeOK, LedgerFinite, NEW tx, ClientCommit(tx), NEW id, NEW w
    PROVE  /\ Amount(Own(pledges', id, w)) =
                 Amount(Own(pledges, id, w)) - Amount(Own(tx.pledgeIn, id, w))
                   + Amount(Own(tx.pledgeOut, id, w))
           /\ Amount(Own(receipts', id, w)) =
                 Amount(Own(receipts, id, w)) - Amount(Own(tx.receiptIn, id, w))
                   + Amount(Own(tx.receiptOut, id, w))
           /\ Amount(Own(pledges, id, w)) \in Nat
           /\ Amount(Own(receipts, id, w)) \in Nat
           /\ Amount(Own(tx.pledgeIn, id, w)) \in Nat
           /\ Amount(Own(tx.pledgeOut, id, w)) \in Nat
<1>1. /\ \A x \in pledges : x.amount \in Nat
      /\ \A x \in tx.pledgeOut : x.amount \in Nat
      /\ \A x \in receipts : x.amount \in Nat
      /\ \A x \in tx.receiptOut : x.amount \in Nat
  BY CommitEffect, U64Assumption DEF TypeOK, PledgeCell, ReceiptCell, U64
<1>2. CellsMove(pledges, tx.pledgeIn, tx.pledgeOut)
  BY <1>1, CommitEffect DEF LedgerFinite, CellsMove
<1>3. CellsMove(receipts, tx.receiptIn, tx.receiptOut)
  BY <1>1, CommitEffect DEF LedgerFinite, CellsMove
<1>4. /\ pledges' = (pledges \ tx.pledgeIn) \cup tx.pledgeOut
      /\ receipts' = (receipts \ tx.receiptIn) \cup tx.receiptOut
  BY CommitEffect
<1>5. /\ Amount(Own((pledges \ tx.pledgeIn) \cup tx.pledgeOut, id, w)) =
            Amount(Own(pledges, id, w)) - Amount(Own(tx.pledgeIn, id, w))
              + Amount(Own(tx.pledgeOut, id, w))
      /\ Amount(Own(pledges, id, w)) \in Nat
      /\ Amount(Own(tx.pledgeIn, id, w)) \in Nat
      /\ Amount(Own(tx.pledgeOut, id, w)) \in Nat
  BY <1>2, OwnMoved, Zenon
<1>6. /\ Amount(Own((receipts \ tx.receiptIn) \cup tx.receiptOut, id, w)) =
            Amount(Own(receipts, id, w)) - Amount(Own(tx.receiptIn, id, w))
              + Amount(Own(tx.receiptOut, id, w))
      /\ Amount(Own(receipts, id, w)) \in Nat
      /\ Amount(Own(tx.receiptIn, id, w)) \in Nat
      /\ Amount(Own(tx.receiptOut, id, w)) \in Nat
  BY <1>3, OwnMoved, Zenon
<1>. QED BY <1>4, <1>5, <1>6

LEMMA ReceiptsMatchPledgesCommit ==
    ASSUME IInv, LedgerFinite, HistoryAgrees, ReceiptsMatchPledges, NEW tx, ClientCommit(tx)
    PROVE  ReceiptsMatchPledges'
<1>. SUFFICES ASSUME NEW c \in campaigns', NEW w \in Wallets, c.status = "Active", ~GraceOver(c)'
              PROVE  Amount(Own(receipts', c.id, w)) = Amount(Own(pledges', c.id, w))
  BY DEF ReceiptsMatchPledges, Own
<1>. DEFINE A(P) == Amount(Own(P, c.id, w))
<1>1. TypeOK
  BY DEF IInv
<1>2. /\ A(pledges') = A(pledges) - A(tx.pledgeIn) + A(tx.pledgeOut)
      /\ A(receipts') = A(receipts) - A(tx.receiptIn) + A(tx.receiptOut)
      /\ A(pledges) \in Nat /\ A(receipts) \in Nat
      /\ A(tx.pledgeIn) \in Nat /\ A(tx.pledgeOut) \in Nat
  BY <1>1, OwnAfter
<1>3. \A P : (\A x \in P : x.campaign # c.id) => A(P) = 0
  <2>1. \A P : (\A x \in P : x.campaign # c.id) => Own(P, c.id, w) = {}
    BY DEF Own, OfBacker, Bound
  <2>. QED BY <2>1, AmountEmpty
<1>. HIDE DEF A
<1>4. CASE c \in tx.campOut /\ c.id \notin minted
  <2>1. MovesCampaign(tx)
    <3>1. tx.campIn \subseteq campaigns
      BY <1>1, CommitEffect
    <3>. QED BY <1>4, <3>1 DEF ClientCommit, Kind, MakesPledge, MergesPledges, SettlesPledges,
                               TakesReceipts, IInv, CampaignsMinted
  <2>2. /\ A(tx.pledgeIn) = 0 /\ A(tx.pledgeOut) = 0
        /\ A(tx.receiptIn) = 0 /\ A(tx.receiptOut) = 0
    BY <1>3, <2>1 DEF MovesCampaign
  <2>3. A(pledges) = 0 /\ A(receipts) = 0
    BY <1>3, <1>4 DEF IInv, CampaignsMinted, HistoryAgrees
  <2>. QED BY <1>2, <2>2, <2>3 DEF A
<1>5. CASE \E old \in campaigns : old.id = c.id /\ old.status = "Active" /\ old.deadline = c.deadline
  <2>1. PICK old \in campaigns : old.id = c.id /\ old.status = "Active" /\ old.deadline = c.deadline
    BY <1>5
  <2>2. ~GraceOver(old)
    <3>1. height' = height
      BY <1>1, CommitEffect
    <3>. QED BY <2>1, <3>1 DEF GraceOver
  <2>3. A(receipts) = A(pledges)
    BY <2>1, <2>2 DEF ReceiptsMatchPledges, A, Own
  <2>4. A(tx.receiptIn) = 0
    <3>1. CASE TakesReceipts(tx)
      BY <1>3, <2>1, <2>2, <3>1, UndecidedKeepsReceipts
    <3>2. CASE tx.receiptIn = {}
      BY <1>3, <3>2
    <3>. QED BY <3>1, <3>2 DEF ClientCommit, Kind, MovesCampaign, MakesPledge, MergesPledges,
                               SettlesPledges
  <2>5. A(tx.receiptOut) = A(tx.pledgeOut) - A(tx.pledgeIn)
    <3>1. CASE MakesPledge(tx)
      <4>1. PICK p \in PledgeCell, r \in ReceiptCell :
               /\ tx.pledgeIn = {} /\ tx.pledgeOut = {p} /\ tx.receiptOut = {r}
               /\ SameTerms(p, r)
        BY <1>1, <3>1, PledgeScript
      <4>2. /\ p.campaign = r.campaign /\ p.backer = r.backer /\ p.amount = r.amount
            /\ p.amount \in Nat /\ r.amount \in Nat
        BY <4>1, U64Assumption DEF SameTerms, LockOf, PledgeCell, ReceiptCell, U64
      <4>3. A(tx.pledgeIn) = 0
        BY <1>3, <4>1
      <4>4. CASE p.campaign = c.id /\ p.backer = w
        <5>1. Own(tx.pledgeOut, c.id, w) = {p} /\ Own(tx.receiptOut, c.id, w) = {r}
          BY <4>1, <4>2, <4>4 DEF Own, OfBacker, Bound
        <5>2. Amount({p}) = p.amount /\ Amount({r}) = r.amount
          BY <4>2, AmountSingle
        <5>3. A(tx.pledgeOut) = p.amount /\ A(tx.receiptOut) = p.amount
          BY <4>2, <5>1, <5>2 DEF A
        <5>. QED BY <4>2, <4>3, <5>3
      <4>5. CASE ~(p.campaign = c.id /\ p.backer = w)
        <5>1. Own(tx.pledgeOut, c.id, w) = {} /\ Own(tx.receiptOut, c.id, w) = {}
          BY <4>1, <4>2, <4>5 DEF Own, OfBacker, Bound
        <5>2. A(tx.pledgeOut) = 0 /\ A(tx.receiptOut) = 0
          BY <5>1, AmountEmpty DEF A
        <5>. QED BY <4>3, <5>2
      <4>. QED BY <4>4, <4>5
    <3>2. CASE MergesPledges(tx)
      <4>1. PICK m \in PledgeCell :
               /\ tx.pledgeOut = {m}
               /\ \A p \in tx.pledgeIn : p.campaign = m.campaign /\ p.backer = m.backer
               /\ m.amount = Amount(tx.pledgeIn)
        BY <1>1, <3>2, MergeScript DEF LockOf
      <4>2. A(tx.receiptOut) = 0
        BY <1>3, <3>2 DEF MergesPledges
      <4>3. m.amount \in Nat /\ Amount({m}) = m.amount
        BY AmountSingle, U64Assumption DEF PledgeCell, U64
      <4>4. CASE m.campaign = c.id /\ m.backer = w
        <5>1. Own(tx.pledgeOut, c.id, w) = {m} /\ Own(tx.pledgeIn, c.id, w) = tx.pledgeIn
          BY <4>1, <4>4 DEF Own, OfBacker, Bound
        <5>2. A(tx.pledgeOut) = m.amount /\ A(tx.pledgeIn) = m.amount
          BY <4>1, <4>3, <5>1 DEF A
        <5>. QED BY <4>2, <4>3, <5>2
      <4>5. CASE ~(m.campaign = c.id /\ m.backer = w)
        <5>1. Own(tx.pledgeOut, c.id, w) = {} /\ Own(tx.pledgeIn, c.id, w) = {}
          BY <4>1, <4>5 DEF Own, OfBacker, Bound
        <5>2. A(tx.pledgeOut) = 0 /\ A(tx.pledgeIn) = 0
          BY <5>1, AmountEmpty DEF A
        <5>. QED BY <4>2, <5>2
      <4>. QED BY <4>4, <4>5
    <3>3. CASE SettlesPledges(tx)
      <4>1. A(tx.pledgeIn) = 0
        BY <1>3, <2>1, <2>2, <3>3, UndecidedKeepsPledges
      <4>. QED BY <1>3, <3>3, <4>1 DEF SettlesPledges
    <3>4. CASE tx.pledgeIn = {} /\ tx.pledgeOut = {} /\ tx.receiptOut = {}
      BY <1>3, <3>4
    <3>. QED BY <3>1, <3>2, <3>3, <3>4 DEF ClientCommit, Kind, MovesCampaign, TakesReceipts
  <2>6. A(receipts') = A(pledges')
    BY <1>2, <2>3, <2>4, <2>5
  <2>. QED BY <2>6 DEF A
<1>6. CASE c \in campaigns
  BY <1>5, <1>6
<1>7. CASE \E old \in campaigns : Successor(tx, old, c)
  BY <1>5, <1>7 DEF Successor, ImmutableFields
<1>. QED BY <1>4, <1>6, <1>7, CampaignAfter

-----------------------------------------------------------------------------
(* What a settlement pays                                                   *)

\* The pledge lock asks for the same payment that is owed, once: all pledges of
\* the transaction are of its one group (validate_release, validate_refund).
LEMMA SettlementPays ==
    ASSUME IInv, LedgerFinite, EscrowBacked, NEW tx, ClientCommit(tx), SettlesPledges(tx),
           NEW p \in tx.pledgeIn
    PROVE  /\ \A q \in tx.pledgeIn : LockOf(q) = LockOf(p)
           /\ HowSettled(tx) = "released" =>
                 \E c \in campaigns :
                    /\ c.id = p.campaign
                    /\ IF c.creator = p.backer
                       THEN tx.pay[p.backer] >= Capacity(tx.pledgeIn) - MAX_FEE
                       ELSE /\ tx.pay[c.creator] >= Amount(tx.pledgeIn)
                            /\ tx.pay[p.backer] >=
                                  Capacity(tx.pledgeIn) - Amount(tx.pledgeIn) - MAX_FEE
           /\ HowSettled(tx) # "released" =>
                 tx.pay[p.backer] >= Capacity(tx.pledgeIn) - MAX_FEE
<1>. DEFINE P == tx.pledgeIn
            lock == LockOf(p)
<1>1. TypeOK /\ tx \in Transaction /\ Commit(tx) /\ tx.pledgeOut = {}
  BY DEF IInv, ClientCommit, SettlesPledges
<1>2. \A q \in P : LockOf(q) = lock
  BY <1>1, SettlementScript
<1>3. Group(P, lock) = P
  BY <1>2 DEF Group
<1>4. PledgeLock(tx, lock) /\ tx.since # 0
  <2>1. PledgeLock(tx, lock)
    BY <1>1 DEF Commit, Valid, ScriptsAccept
  <2>2. SinceReached(tx, p.deadline)
    BY <1>1, SettlementScript
  <2>. QED BY <2>1, <2>2 DEF SinceReached
<1>5. P \in SUBSET pledges
  BY <1>1, CommitEffect
<1>6. IsFiniteSet(P) /\ Amount(P) \in Nat /\ Capacity(P) \in Nat
  BY <1>1, <1>5, EscrowCells
<1>7. HeldAmount(P) = Amount(P)
  <2>2. \A q \in P : PledgeFunded(q)
    BY <1>5 DEF EscrowBacked
  <2>1. P \subseteq PledgeCell
    BY <1>1, <1>5 DEF TypeOK
  <2>. HIDE DEF P
  <2>. QED BY <2>1, <2>2, FundedHeldAmount
<1>8. lock.backer = p.backer /\ lock.campaign = p.campaign
  BY DEF LockOf
<1>9. \A c \in CampaignDep(tx, lock) : c \in campaigns /\ c.id = p.campaign
  BY <1>1, <1>8, CommitEffect DEF CampaignDep
<1>. HIDE DEF P
<1>10. \A x \in Int : SatSub(x, MAX_FEE) >= x - MAX_FEE
  BY LimitsAssumption DEF SatSub
<1>11. ASSUME Refund(tx, lock)
       PROVE  tx.pay[p.backer] >= Capacity(P) - MAX_FEE
  <2>1. tx.pay[p.backer] >= SatSub(Capacity(P), MAX_FEE)
    BY <1>3, <1>8, <1>11 DEF Refund, P
  <2>2. tx.pay[p.backer] \in Nat
    BY <1>1, <1>5, U64Assumption DEF TypeOK, PledgeCell, Transaction, U64, P
  <2>. QED BY <1>6, <1>10, <2>1, <2>2, LimitsAssumption DEF SatSub
<1>12. ASSUME NEW c \in CampaignDep(tx, lock), Release(tx, lock, c)
       PROVE  IF c.creator = p.backer
              THEN tx.pay[p.backer] >= Capacity(P) - MAX_FEE
              ELSE /\ tx.pay[c.creator] >= Amount(P)
                   /\ tx.pay[p.backer] >= Capacity(P) - Amount(P) - MAX_FEE
  <2>1. IF c.creator = p.backer
        THEN tx.pay[p.backer] >= SatSub(Capacity(P), MAX_FEE)
        ELSE /\ tx.pay[c.creator] >= Amount(P)
             /\ tx.pay[p.backer] >= SatSub(Capacity(P) - Amount(P), MAX_FEE)
    BY <1>3, <1>7, <1>8, <1>12 DEF Release, P
  <2>2. tx.pay[p.backer] \in Nat
    BY <1>1, <1>5, U64Assumption DEF TypeOK, PledgeCell, Transaction, U64, P
  <2>. QED BY <1>6, <2>1, <2>2, LimitsAssumption DEF SatSub
<1>13. CASE CampaignDep(tx, lock) = {}
  <2>1. Refund(tx, lock)
    BY <1>4, <1>13 DEF PledgeLock
  <2>2. HowSettled(tx) = "rescued"
    BY <1>2, <1>13 DEF HowSettled, P
  <2>. QED BY <1>2, <1>11, <2>1, <2>2 DEF P
<1>14. ASSUME NEW c \in CampaignDep(tx, lock)
       PROVE  /\ HowSettled(tx) = "released" =>
                    c.status = "Success" /\ Release(tx, lock, c)
              /\ HowSettled(tx) # "released" => Refund(tx, lock)
  <2>1. \A d \in CampaignDep(tx, lock) : d = c
    BY <1>9 DEF IInv, OneCampaignCell
  <2>2. \/ c.status = "Success" /\ Release(tx, lock, c)
        \/ c.status = "Failed" /\ Refund(tx, lock)
    BY <1>4, <1>14 DEF PledgeLock
  <2>3. HowSettled(tx) = "released" <=> c.status = "Success"
    <3>1. (\E q \in tx.pledgeIn : \E d \in CampaignDep(tx, LockOf(q)) : d.status = "Success")
          <=> c.status = "Success"
      BY <1>2, <2>1 DEF P
    <3>. QED BY <3>1 DEF HowSettled
  <2>. QED BY <2>2, <2>3
<1>15. CASE CampaignDep(tx, lock) # {}
  <2>1. PICK c \in CampaignDep(tx, lock) : TRUE
    BY <1>15
  <2>2. CASE HowSettled(tx) = "released"
    BY <1>2, <1>9, <1>12, <1>14, <2>1, <2>2 DEF P
  <2>3. CASE HowSettled(tx) # "released"
    BY <1>2, <1>11, <1>14, <2>1, <2>3 DEF P
  <2>. QED BY <2>2, <2>3
<1>. QED BY <1>13, <1>15

LEMMA PaidInFullCommit ==
    ASSUME IInv, LedgerFinite, EscrowBacked, PaidInFull, NEW tx, ClientCommit(tx)
    PROVE  PaidInFull'
<1>. DEFINE Slack(s, w)    == IF OfBacker(s.pledges, w) = {} THEN 0 ELSE MAX_FEE
            Paid(s, k)     == \A w \in Wallets : s.pay[w] >= Due(s, k, w) - Slack(s, w)
            Creator(s, k)  == \A p \in s.pledges, c \in campaigns' :
                                 c.id = p.campaign => k = c.creator
<1>. SUFFICES ASSUME NEW s \in settlements'
              PROVE  \E k \in Wallets : Creator(s, k) /\ Paid(s, k)
  <2>1. \A s \in settlements' : \E k \in Wallets : Creator(s, k) /\ Paid(s, k)
    OBVIOUS
  <2>2. \A s \in settlements' : \E creator \in Wallets :
           /\ \A c \in campaigns', p \in s.pledges : c.id = p.campaign => creator = c.creator
           /\ \A w \in Wallets :
                 s.pay[w] >= Due(s, creator, w) - IF OfBacker(s.pledges, w) = {} THEN 0 ELSE MAX_FEE
    BY <2>1
  <2>. QED BY ONLY <2>2 DEF PaidInFull
<1>1. TypeOK /\ tx \in Transaction
  BY DEF IInv, ClientCommit
<1>2. CASE s \in settlements
  <2>1. PICK k \in Wallets :
           /\ \A c \in campaigns, p \in s.pledges : c.id = p.campaign => k = c.creator
           /\ Paid(s, k)
    BY <1>2 DEF PaidInFull
  <2>2. ASSUME NEW p \in s.pledges, NEW c \in campaigns', c.id = p.campaign
        PROVE  k = c.creator
    <3>1. p.campaign \in minted
      BY <1>2 DEF IInv, CampaignsMinted
    <3>2. \E old \in campaigns : old.id = c.id /\ old.creator = c.creator
      BY <2>2, <3>1, CampaignAfter DEF Successor, ImmutableFields
    <3>. QED BY <2>1, <2>2, <3>2
  <2>. QED BY <2>1, <2>2
<1>3. CASE s \notin settlements
  <2>1. SettlesPledges(tx) /\ s = SettlementOf(tx)
    BY <1>3, SettlementsAfter
  <2>2. PICK p \in tx.pledgeIn : TRUE
    BY <2>1 DEF SettlesPledges
  <2>3. s.pledges = tx.pledgeIn /\ s.how = HowSettled(tx) /\ s.pay = tx.pay
    BY <2>1 DEF SettlementOf
  <2>4. /\ \A q \in tx.pledgeIn : q.backer = p.backer /\ q.campaign = p.campaign
        /\ OfBacker(s.pledges, p.backer) = s.pledges /\ s.pledges # {}
        /\ \A w : w # p.backer => OfBacker(s.pledges, w) = {}
    <3>1. \A q \in tx.pledgeIn : q.backer = p.backer /\ q.campaign = p.campaign
      BY <2>1, SettlementPays DEF LockOf
    <3>. QED BY <2>3, <3>1 DEF OfBacker
  <2>5. campaigns' = campaigns
    BY <1>1, <2>1, CommitEffect DEF SettlesPledges
  <2>6. /\ p \in pledges /\ p.backer \in Wallets
        /\ \A w \in Wallets : s.pay[w] \in Nat
    BY <1>1, <2>2, <2>3, CommitEffect, U64Assumption DEF TypeOK, PledgeCell, Transaction, U64
  <2>7. Amount(s.pledges) \in Nat /\ Capacity(s.pledges) \in Nat
    <3>1. tx.pledgeIn \in SUBSET pledges
      BY <1>1, CommitEffect
    <3>. QED BY <1>1, <2>3, <3>1, EscrowCells
  <2>8. Amount({}) = 0 /\ Capacity({}) = 0
    BY AmountEmpty, CapacityEmpty
  <2>9. CASE HowSettled(tx) = "released"
    <3>1. PICK c \in campaigns :
             /\ c.id = p.campaign
             /\ IF c.creator = p.backer
                THEN s.pay[p.backer] >= Capacity(s.pledges) - MAX_FEE
                ELSE /\ s.pay[c.creator] >= Amount(s.pledges)
                     /\ s.pay[p.backer] >= Capacity(s.pledges) - Amount(s.pledges) - MAX_FEE
      BY <2>1, <2>3, <2>9, SettlementPays
    <3>2. c.creator \in Wallets
      BY <1>1 DEF TypeOK, CampaignCell
    <3>3. Creator(s, c.creator)
      BY <2>3, <2>4, <2>5, <3>1 DEF IInv, OneCampaignCell
    <3>4. ASSUME NEW w \in Wallets
          PROVE  s.pay[w] >= Due(s, c.creator, w) - Slack(s, w)
      <4>1. Due(s, c.creator, w) = Capacity(OfBacker(s.pledges, w)) - Amount(OfBacker(s.pledges, w))
                                     + IF w = c.creator THEN Amount(s.pledges) ELSE 0
        BY <2>3, <2>9 DEF Due
      <4>2. CASE w = p.backer
        <5>1. OfBacker(s.pledges, w) = s.pledges /\ Slack(s, w) = MAX_FEE
          BY <2>4, <4>2
        <5>2. CASE w = c.creator
          BY <2>6, <2>7, <3>1, <4>1, <4>2, <5>1, <5>2, LimitsAssumption
        <5>3. CASE w # c.creator
          BY <2>6, <2>7, <3>1, <4>1, <4>2, <5>1, <5>3, LimitsAssumption
        <5>. QED BY <5>2, <5>3
      <4>3. CASE w # p.backer
        <5>1. OfBacker(s.pledges, w) = {} /\ Slack(s, w) = 0
          BY <2>4, <4>3
        <5>2. CASE w = c.creator
          BY <2>6, <2>7, <2>8, <3>1, <4>1, <4>3, <5>1, <5>2
        <5>3. CASE w # c.creator
          BY <2>6, <2>8, <4>1, <5>1, <5>3
        <5>. QED BY <5>2, <5>3
      <4>. QED BY <4>2, <4>3
    <3>. QED BY <3>2, <3>3, <3>4
  <2>10. CASE HowSettled(tx) # "released"
    <3>1. s.pay[p.backer] >= Capacity(s.pledges) - MAX_FEE
      BY <2>1, <2>3, <2>10, SettlementPays
    <3>2. ASSUME NEW k, NEW w \in Wallets
          PROVE  s.pay[w] >= Due(s, k, w) - Slack(s, w)
      <4>1. Due(s, k, w) = Capacity(OfBacker(s.pledges, w))
        BY <2>3, <2>10 DEF Due
      <4>2. CASE w = p.backer
        <5>1. OfBacker(s.pledges, w) = s.pledges /\ Slack(s, w) = MAX_FEE
          BY <2>4, <4>2
        <5>. QED BY <3>1, <4>1, <4>2, <5>1
      <4>3. CASE w # p.backer
        <5>1. OfBacker(s.pledges, w) = {} /\ Slack(s, w) = 0
          BY <2>4, <4>3
        <5>. QED BY <2>6, <2>8, <4>1, <5>1
      <4>. QED BY <4>2, <4>3
    <3>3. \E k \in Wallets : Creator(s, k)
      <4>1. CASE \E c \in campaigns : c.id = p.campaign
        <5>1. PICK c \in campaigns : c.id = p.campaign
          BY <4>1
        <5>2. c.creator \in Wallets
          BY <1>1 DEF TypeOK, CampaignCell
        <5>3. Creator(s, c.creator)
          BY <2>3, <2>4, <2>5, <5>1 DEF IInv, OneCampaignCell
        <5>. QED BY <5>2, <5>3
      <4>2. CASE ~\E c \in campaigns : c.id = p.campaign
        <5>1. Creator(s, p.backer)
          BY <2>3, <2>4, <2>5, <4>2
        <5>. QED BY <2>6, <5>1
      <4>. QED BY <4>1, <4>2
    <3>. QED BY <3>2, <3>3
  <2>. QED BY <2>9, <2>10
<1>. QED BY <1>2, <1>3

-----------------------------------------------------------------------------
(* The inductive invariant                                                  *)

LEMMA LedgerInvInitial == Init => LedgerInv
<1>. SUFFICES ASSUME Init PROVE LedgerInv
  OBVIOUS
<1>1. IInv
  BY IInvInitial
<1>2. UNION {s.pledges : s \in settlements} = {}
  BY DEF Init
<1>3. LedgerFinite
  BY <1>2, FS_EmptySet DEF Init, LedgerFinite
<1>. QED BY <1>1, <1>3 DEF LedgerInv, Init, SettledOnce, EscrowBacked, HistoryAgrees,
                           AccumulatorExact, ReceiptsMatchPledges, PaidInFull

\* What holds of a state holds of one with the same cells, whatever its height.
LEMMA LedgerInvSameCells ==
    ASSUME LedgerInv, IInv',
           campaigns' = campaigns, minted' = minted, pledges' = pledges,
           receipts' = receipts, usedIds' = usedIds, settlements' = settlements,
           \A c \in campaigns : GraceOver(c) => GraceOver(c)'
    PROVE  LedgerInv'
<1>1. LedgerFinite' /\ SettledOnce' /\ EscrowBacked' /\ HistoryAgrees'
  BY DEF LedgerInv, LedgerFinite, SettledOnce, EscrowBacked, HistoryAgrees
<1>2. AccumulatorExact'
  BY DEF LedgerInv, AccumulatorExact, Settled
<1>3. ReceiptsMatchPledges'
  BY DEF LedgerInv, ReceiptsMatchPledges
<1>4. PaidInFull'
  BY DEF LedgerInv, PaidInFull
<1>. QED BY <1>1, <1>2, <1>3, <1>4 DEF LedgerInv

LEMMA GraceStays ==
    ASSUME TypeOK, NewBlock, NEW cell, cell.deadline \in U64, GraceOver(cell)
    PROVE  GraceOver(cell)'
<1>1. height' >= height /\ height \in Nat /\ height' \in Nat
  BY U64Assumption, FormsAssumption, BlockAssumption DEF NewBlock, TypeOK, U64
<1>. QED BY <1>1, U64Assumption, LimitsAssumption DEF GraceOver, U64

LEMMA LedgerInvBlock ==
    ASSUME LedgerInv, NewBlock
    PROVE  LedgerInv'
<1>1. IInv'
  BY IInvBlock DEF LedgerInv
<1>2. \A c \in campaigns : c.deadline \in U64
  BY DEF LedgerInv, IInv, TypeOK, CampaignCell
<1>3. \A c \in campaigns : GraceOver(c) => GraceOver(c)'
  BY <1>2, GraceStays DEF LedgerInv, IInv
<1>. QED BY <1>1, <1>3, LedgerInvSameCells DEF NewBlock

LEMMA LedgerInvCommit ==
    ASSUME LedgerInv, NEW tx, ClientCommit(tx)
    PROVE  LedgerInv'
<1>1. /\ IInv /\ TypeOK /\ LedgerFinite /\ SettledOnce /\ EscrowBacked /\ HistoryAgrees
      /\ AccumulatorExact /\ ReceiptsMatchPledges /\ PaidInFull
  BY DEF LedgerInv, IInv
<1>2. IInv'
  BY <1>1, IInvCommit DEF ClientCommit
<1>3. LedgerFinite' /\ SettledOnce' /\ EscrowBacked' /\ HistoryAgrees'
  BY <1>1, LedgerFiniteCommit, SettledOnceCommit, EscrowBackedCommit, HistoryAgreesCommit
<1>4. AccumulatorExact' /\ ReceiptsMatchPledges' /\ PaidInFull'
  BY <1>1, AccumulatorExactCommit, ReceiptsMatchPledgesCommit, PaidInFullCommit
<1>. QED BY <1>2, <1>3, <1>4 DEF LedgerInv

LEMMA LedgerInvStep == LedgerInv /\ [Next]_vars => LedgerInv'
<1>. SUFFICES ASSUME LedgerInv, [Next]_vars
              PROVE  LedgerInv'
  OBVIOUS
<1>1. CASE UNCHANGED vars
  <2>1. IInv'
    BY IInvStep DEF LedgerInv
  <2>. QED BY <1>1, <2>1, LedgerInvSameCells DEF vars, GraceOver
<1>2. CASE NewBlock
  BY <1>2, LedgerInvBlock
<1>3. CASE \E tx : ClientCommit(tx)
  BY <1>3, LedgerInvCommit
<1>. QED BY <1>1, <1>2, <1>3, StepKind

\* The inductive invariant of the ledger, with what the sums over its cells say
\* of each other (all transactions the clients make, module Crowdfund).
THEOREM LedgerInvHolds == Spec => []LedgerInv
  BY LedgerInvInitial, LedgerInvStep, PTL DEF Spec

\* The total of a campaign cell is the sum of the pledges made to it, in escrow
\* or paid out: no pledge is counted twice, none is missed, a merge or a
\* settlement leaves it alone (validate_pledge_update, sum_campaign_pledges).
THEOREM TotalIsExact == Spec => []AccumulatorExact
<1>1. LedgerInv => AccumulatorExact
  BY DEF LedgerInv
<1>. QED BY <1>1, LedgerInvHolds, PTL

\* The receipts in a backer's wallet are worth the backer's pledges in escrow
\* until the campaign is decided (validate_receipt_creation, campaign_settled).
THEOREM ReceiptsAreCovered == Spec => []ReceiptsMatchPledges
<1>1. LedgerInv => ReceiptsMatchPledges
  BY DEF LedgerInv
<1>. QED BY <1>1, LedgerInvHolds, PTL

\* Every settlement that ever happened paid the creator and the backers what
\* they were owed, MAX_FEE aside (validate_release, validate_refund,
\* ensure_only_pledge_group_in_inputs).
THEOREM SettlementsPayInFull == Spec => []PaidInFull
<1>1. LedgerInv => PaidInFull
  BY DEF LedgerInv
<1>. QED BY <1>1, LedgerInvHolds, PTL

-----------------------------------------------------------------------------
(* The money behind a successful campaign                                   *)

LEMMA SuccessFunded == LedgerInv => SuccessIsFunded
<1>. SUFFICES ASSUME LedgerInv, NEW c \in campaigns, c.status = "Success", ~GraceOver(c)
              PROVE  /\ Capacity(Bound(pledges, c.id))
                           - PledgeOccupied * Cardinality(Bound(pledges, c.id))
                           + Amount(Settled(c.id, {"released"})) >= c.goal
                     /\ Settled(c.id, {"refunded", "rescued"}) = {}
  BY DEF SuccessIsFunded
<1>. DEFINE live == Bound(pledges, c.id)
            paid == Settled(c.id, {"released"})
<1>1. TypeOK /\ LedgerFinite
  BY DEF LedgerInv, IInv
<1>2. ASSUME NEW s \in settlements, NEW p \in s.pledges, p.campaign = c.id
      PROVE  s.how = "released"
  <2>1. s.how \in Outcomes
    BY <1>1 DEF TypeOK, Settlement
  <2>2. s.how # "refunded"
    BY <1>2 DEF LedgerInv, IInv, SettledByStatus
  <2>3. s.how # "rescued"
    <3>1. c.deadline = p.deadline
      BY <1>2 DEF LedgerInv, HistoryAgrees
    <3>2. ~GraceOver(p)
      BY <3>1 DEF GraceOver
    <3>. QED BY <3>2 DEF LedgerInv, IInv, EscrowUntilDeadline
  <2>. QED BY <2>1, <2>2, <2>3 DEF Outcomes
<1>3. Settled(c.id, {"refunded", "rescued"}) = {}
  BY <1>2, SettledMember
<1>4. Settled(c.id, Outcomes) = paid
  <2>1. \A p : p \in paid <=>
             p.campaign = c.id /\ \E s \in settlements : s.how = "released" /\ p \in s.pledges
    BY SettledMember
  <2>2. \A p : p \in Settled(c.id, Outcomes) <=>
             p.campaign = c.id /\ \E s \in settlements : s.how \in Outcomes /\ p \in s.pledges
    BY SettledMember
  <2>3. "released" \in Outcomes
    BY DEF Outcomes
  <2>. QED BY <1>2, <2>1, <2>2, <2>3
<1>5. live \in SUBSET pledges
  BY DEF Bound
<1>6. IsFiniteSet(live) /\ Amount(live) \in Nat /\ Capacity(live) \in Nat
  BY <1>1, <1>5, EscrowCells
<1>7. Capacity(live) >= Amount(live) + PledgeOccupied * Cardinality(live)
  <2>1. live \subseteq PledgeCell /\ \A p \in live : PledgeFunded(p)
    BY <1>1, <1>5 DEF TypeOK, LedgerInv, EscrowBacked
  <2>. HIDE DEF live
  <2>. QED BY <1>6, <2>1, FundedCapacity
<1>8. c.total = Amount(live) + Amount(paid) /\ Amount(paid) \in Nat
  BY <1>1, <1>4, SettledCells DEF LedgerInv, AccumulatorExact
<1>9. c.total >= c.goal /\ c.goal \in Nat
  BY <1>1, U64Assumption DEF LedgerInv, IInv, OutcomeJustified, TypeOK, CampaignCell, U64
<1>10. PledgeOccupied * Cardinality(live) \in Nat
  BY <1>6, FS_CardinalityType, LimitsAssumption
<1>. HIDE DEF live, paid
<1>11. Capacity(live) - PledgeOccupied * Cardinality(live) + Amount(paid) >= c.goal
  BY <1>6, <1>7, <1>8, <1>9, <1>10
<1>. QED BY <1>3, <1>11 DEF live, paid

\* A Success is never hollow: what escrow holds for it beyond the storage of its
\* cells, with what was released, covers the goal, and nothing of it went back
\* to a backer before the fail-safe (sum_campaign_pledges, check_status_justified).
THEOREM SuccessMeansMoney == Spec => []SuccessIsFunded
  BY SuccessFunded, LedgerInvHolds, PTL

-----------------------------------------------------------------------------
(* What leaves a lock                                                       *)

LEMMA GroupMoved ==
    ASSUME TypeOK, LedgerFinite, NEW tx, ClientCommit(tx), NEW lock
    PROVE  /\ Group(pledges', lock) = (Group(pledges, lock) \ Group(tx.pledgeIn, lock))
                                          \cup Group(tx.pledgeOut, lock)
           /\ Amount(Group(pledges', lock)) =
                 Amount(Group(pledges, lock)) - Amount(Group(tx.pledgeIn, lock))
                   + Amount(Group(tx.pledgeOut, lock))
           /\ Capacity(Group(pledges', lock)) =
                 Capacity(Group(pledges, lock)) - Capacity(Group(tx.pledgeIn, lock))
                   + Capacity(Group(tx.pledgeOut, lock))
           /\ Amount(Group(pledges, lock)) \in Nat /\ Amount(Group(tx.pledgeIn, lock)) \in Nat
           /\ Capacity(Group(pledges, lock)) \in Nat /\ Capacity(Group(tx.pledgeIn, lock)) \in Nat
<1>. DEFINE P == Group(pledges, lock)
            I == Group(tx.pledgeIn, lock)
            O == Group(tx.pledgeOut, lock)
<1>1. /\ Group(pledges', lock) = (P \ I) \cup O
      /\ I \in SUBSET P /\ O \cap P = {}
      /\ P \in SUBSET pledges /\ I \in SUBSET pledges /\ O \in SUBSET tx.pledgeOut
  BY CommitEffect DEF Group
<1>2. /\ IsFiniteSet(P) /\ \A p \in P : p.amount \in Nat /\ p.capacity \in Nat
      /\ Amount(P) \in Nat /\ Amount(I) \in Nat /\ Capacity(P) \in Nat /\ Capacity(I) \in Nat
  BY <1>1, EscrowCells
<1>3. IsFiniteSet(O) /\ \A p \in O : p.amount \in Nat /\ p.capacity \in Nat
  BY <1>1, CommitEffect, FS_Subset, U64Assumption DEF PledgeCell, U64
<1>. HIDE DEF P, I, O
<1>4. Amount((P \ I) \cup O) = Amount(P) - Amount(I) + Amount(O)
  BY <1>1, <1>2, <1>3, AmountMoved
<1>5. Capacity((P \ I) \cup O) = Capacity(P) - Capacity(I) + Capacity(O)
  BY <1>1, <1>2, <1>3, CapacityMoved
<1>. QED BY <1>1, <1>2, <1>4, <1>5 DEF P, I, O

LEMMA EscrowKeptCommit ==
    ASSUME LedgerInv, NEW tx, ClientCommit(tx)
    PROVE  EscrowKept
<1>. SUFFICES ASSUME NEW lock
              PROVE  \/ /\ Capacity(Group(pledges', lock)) >= Capacity(Group(pledges, lock))
                        /\ Amount(Group(pledges', lock)) >= Amount(Group(pledges, lock))
                     \/ \E s \in settlements' \ settlements :
                           s.pledges = Group(pledges, lock) \ Group(pledges', lock)
  BY DEF EscrowKept
<1>. DEFINE before == Group(pledges, lock)
            after  == Group(pledges', lock)
            I == Group(tx.pledgeIn, lock)
            O == Group(tx.pledgeOut, lock)
<1>1. TypeOK /\ LedgerFinite
  BY DEF LedgerInv, IInv
<1>2. /\ after = (before \ I) \cup O
      /\ Amount(after) = Amount(before) - Amount(I) + Amount(O)
      /\ Capacity(after) = Capacity(before) - Capacity(I) + Capacity(O)
      /\ Amount(before) \in Nat /\ Amount(I) \in Nat
      /\ Capacity(before) \in Nat /\ Capacity(I) \in Nat
  BY <1>1, GroupMoved
<1>3. I \in SUBSET before
  BY <1>1, CommitEffect DEF Group
<1>4. Amount({}) = 0 /\ Capacity({}) = 0
  BY AmountEmpty, CapacityEmpty
<1>5. CASE I = {} /\ O = {}
  <2>. HIDE DEF I, O, before, after
  <2>1. Capacity(after) >= Capacity(before) /\ Amount(after) >= Amount(before)
    BY <1>2, <1>4, <1>5
  <2>. QED BY <2>1 DEF before, after
<1>6. CASE SettlesPledges(tx) /\ I # {}
  <2>1. PICK p \in tx.pledgeIn : LockOf(p) = lock
    BY <1>6 DEF Group
  <2>2. tx.pledgeIn = I
    <3>1. \A q \in tx.pledgeIn : LockOf(q) = LockOf(p)
      BY <1>1, <1>6, SettlementScript DEF ClientCommit, SettlesPledges
    <3>. QED BY <2>1, <3>1 DEF Group
  <2>3. O = {}
    BY <1>6 DEF SettlesPledges, Group
  <2>4. before \ after = tx.pledgeIn
    <3>. HIDE DEF I, O, before, after
    <3>. QED BY <1>2, <1>3, <2>2, <2>3
  <2>5. SettlementOf(tx) \in settlements' /\ SettlementOf(tx).pledges = tx.pledgeIn
    BY <1>6, SettlementsAfter DEF SettlementOf
  <2>6. SettlementOf(tx) \notin settlements
    <3>1. p \in pledges
      BY <1>1, CommitEffect
    <3>. QED BY <2>5, <3>1 DEF LedgerInv, SettledOnce
  <2>. QED BY <2>4, <2>5, <2>6
<1>7. CASE MakesPledge(tx)
  <2>1. I = {} /\ tx.pledgeOut \subseteq PledgeCell /\ IsFiniteSet(tx.pledgeOut)
    <3>1. tx.pledgeIn = {}
      BY <1>7 DEF MakesPledge
    <3>. QED BY <1>1, <3>1, CommitEffect DEF Group
  <2>2. O \in SUBSET tx.pledgeOut
    BY DEF Group
  <2>3. Amount(O) \in Nat /\ Capacity(O) \in Nat
    <3>1. IsFiniteSet(O) /\ \A q \in O : q.amount \in Nat /\ q.capacity \in Nat
      BY <2>1, <2>2, FS_Subset, U64Assumption DEF PledgeCell, U64
    <3>. QED BY <3>1, AmountNat, CapacityNat
  <2>. HIDE DEF I, O, before, after
  <2>4. Capacity(after) >= Capacity(before) /\ Amount(after) >= Amount(before)
    BY <1>2, <1>4, <2>1, <2>3
  <2>. QED BY <2>4 DEF before, after
<1>8. CASE MergesPledges(tx) /\ ~(I = {} /\ O = {})
  <2>1. PICK m \in PledgeCell :
           /\ tx.pledgeOut = {m}
           /\ \A q \in tx.pledgeIn : LockOf(q) = LockOf(m)
           /\ m.amount = Amount(tx.pledgeIn)
           /\ m.capacity = Capacity(tx.pledgeIn)
    BY <1>1, <1>8, MergeScript
  <2>2. I = tx.pledgeIn /\ O = {m}
    BY <1>8, <2>1 DEF Group
  <2>3. Amount({m}) = m.amount /\ Capacity({m}) = m.capacity
    BY AmountSingle, CapacitySingle, U64Assumption DEF PledgeCell, U64
  <2>4. Amount(O) = Amount(I) /\ Capacity(O) = Capacity(I)
    BY <2>1, <2>2, <2>3
  <2>. HIDE DEF I, O, before, after
  <2>5. Capacity(after) >= Capacity(before) /\ Amount(after) >= Amount(before)
    BY <1>2, <2>4
  <2>. QED BY <2>5 DEF before, after
<1>9. CASE tx.pledgeIn = {} /\ tx.pledgeOut = {}
  <2>1. I = {} /\ O = {}
    BY <1>9 DEF Group
  <2>. QED BY <1>5, <2>1
<1>10. CASE SettlesPledges(tx) /\ I = {}
  <2>1. O = {}
    BY <1>10 DEF SettlesPledges, Group
  <2>. QED BY <1>5, <1>10, <2>1
<1>. QED BY <1>5, <1>6, <1>7, <1>8, <1>9, <1>10 DEF ClientCommit, Kind, MovesCampaign, TakesReceipts

LEMMA EscrowKeptStep == LedgerInv /\ [Next]_vars => [EscrowKept]_vars
<1>. SUFFICES ASSUME LedgerInv, Next
              PROVE  EscrowKept
  OBVIOUS
<1>1. CASE NewBlock
  <2>1. pledges' = pledges
    BY <1>1 DEF NewBlock
  <2>2. ASSUME NEW lock
        PROVE  Capacity(Group(pledges, lock)) \in Nat /\ Amount(Group(pledges, lock)) \in Nat
    <3>1. Group(pledges, lock) \in SUBSET pledges
      BY DEF Group
    <3>. QED BY <3>1, EscrowCells DEF LedgerInv, IInv
  <2>. QED BY <2>1, <2>2 DEF EscrowKept
<1>2. CASE \E tx : ClientCommit(tx)
  BY <1>2, EscrowKeptCommit
<1>. QED BY <1>1, <1>2, StepKind

\* No step takes capacity or claimed amounts out of a lock but the settlement it
\* records, of exactly the cells that are gone (validate_merge,
\* ensure_only_pledge_group_in_inputs).
THEOREM EscrowIsConserved == Spec => EscrowConserved
  BY LedgerInvHolds, EscrowKeptStep, PTL DEF Spec, EscrowConserved

-----------------------------------------------------------------------------
(* A way out of escrow                                                      *)

LEMMA OneBacker ==
    ASSUME NEW p, NEW w
    PROVE  OfBacker({p}, w) = IF w = p.backer THEN {p} ELSE {}
BY DEF OfBacker

\* What a pledge in escrow holds: its amount, its storage and so the fee.
Holds(p) ==
    /\ p.backer \in Wallets
    /\ p.amount \in Nat /\ p.amount > 0
    /\ p.capacity \in Nat /\ p.capacity <= U64Max
    /\ p.capacity >= p.amount + PledgeOccupied
    /\ p.deadline \in Nat /\ p.deadline <= U64Max /\ p.deadline > 0
    /\ Amount({p}) = p.amount /\ Capacity({p}) = p.capacity /\ HeldAmount({p}) = p.amount

LEMMA PledgeHolds ==
    ASSUME LedgerInv, NEW p \in pledges
    PROVE  Holds(p)
<1>1. p \in PledgeCell
  BY DEF LedgerInv, IInv, TypeOK
<1>2. /\ p.backer \in Wallets /\ p.amount \in Nat /\ p.capacity \in Nat /\ p.capacity <= U64Max
      /\ p.deadline \in Nat /\ p.deadline <= U64Max
  BY <1>1, U64Assumption DEF PledgeCell, U64
<1>3. p.amount > 0 /\ p.deadline > 0 /\ PledgeFunded(p)
  BY DEF LedgerInv, EscrowBacked
<1>4. Amount({p}) = p.amount /\ Capacity({p}) = p.capacity
  BY <1>2, AmountSingle, CapacitySingle
<1>5. HeldAmount({p}) = Amount({p})
  <2>1. {p} \subseteq PledgeCell /\ \A q \in {p} : PledgeFunded(q)
    BY <1>1, <1>3
  <2>. QED BY <2>1, FundedHeldAmount
<1>. QED BY <1>1, <1>2, <1>3, <1>4, <1>5 DEF PledgeFunded, Holds

\* permissionlessRefund pays out of the cell: there is enough for the fee.
LEMMA RefundPayable ==
    ASSUME LedgerInv, NEW p \in pledges
    PROVE  /\ RefundPay({p}, MAX_FEE) \in [Wallets -> U64]
           /\ RefundPay({p}, MAX_FEE)[p.backer] = p.capacity - MAX_FEE
<1>0. Holds(p)
  BY PledgeHolds
<1>1. ASSUME NEW w \in Wallets
      PROVE  (IF OfBacker({p}, w) = {} THEN 0 ELSE Capacity(OfBacker({p}, w)) - MAX_FEE)
             = IF w = p.backer THEN p.capacity - MAX_FEE ELSE 0
  <2>1. CASE w = p.backer
    <3>1. OfBacker({p}, w) = {p}
      BY <2>1, OneBacker
    <3>. QED BY <1>0, <2>1, <3>1 DEF Holds
  <2>2. CASE w # p.backer
    BY <2>2, OneBacker
  <2>. QED BY <2>1, <2>2
<1>2. RefundPay({p}, MAX_FEE) = [w \in Wallets |-> IF w = p.backer THEN p.capacity - MAX_FEE ELSE 0]
  BY <1>1 DEF RefundPay
<1>3. p.capacity - MAX_FEE \in U64 /\ 0 \in U64
  BY <1>0, U64Assumption, LimitsAssumption, FeeAssumption DEF Holds, U64
<1>. QED BY <1>0, <1>2, <1>3 DEF Holds

\* So does permissionlessRelease.
LEMMA ReleasePayable ==
    ASSUME LedgerInv, NEW p \in pledges, NEW k \in Wallets
    PROVE  /\ ReleasePay({p}, k, p.amount, MAX_FEE) \in [Wallets -> U64]
           /\ k = p.backer => ReleasePay({p}, k, p.amount, MAX_FEE)[k] = p.capacity - MAX_FEE
           /\ k # p.backer => /\ ReleasePay({p}, k, p.amount, MAX_FEE)[k] = p.amount
                              /\ ReleasePay({p}, k, p.amount, MAX_FEE)[p.backer] =
                                    p.capacity - p.amount - MAX_FEE
<1>. DEFINE rest == p.capacity - p.amount - MAX_FEE
            pay  == ReleasePay({p}, k, p.amount, MAX_FEE)
<1>0. Holds(p)
  BY PledgeHolds
<1>1. ASSUME NEW w \in Wallets
      PROVE  OverheadTo({p}, w, MAX_FEE) = IF w = p.backer THEN rest ELSE 0
  <2>1. CASE w = p.backer
    <3>1. OfBacker({p}, w) = {p}
      BY <2>1, OneBacker
    <3>. QED BY <1>0, <2>1, <3>1 DEF Holds, OverheadTo
  <2>2. CASE w # p.backer
    BY <2>2, OneBacker DEF OverheadTo
  <2>. QED BY <2>1, <2>2
<1>2. \A w \in Wallets : pay[w] = (IF w = p.backer THEN rest ELSE 0) + (IF w = k THEN p.amount ELSE 0)
  BY <1>1 DEF ReleasePay
<1>3. pay = [w \in Wallets |-> pay[w]]
  BY DEF ReleasePay
<1>4. rest \in Nat /\ rest + p.amount \in U64 /\ rest \in U64 /\ p.amount \in U64 /\ 0 \in U64
  BY <1>0, U64Assumption, LimitsAssumption, FeeAssumption DEF Holds, U64
<1>5. rest + p.amount = p.capacity - MAX_FEE /\ p.backer \in Wallets /\ p.amount \in Nat
  BY <1>0, LimitsAssumption DEF Holds
<1>. HIDE DEF rest, pay
<1>6. \A w \in Wallets : pay[w] \in U64
  BY <1>2, <1>4, <1>5, U64Assumption DEF U64
<1>7. pay \in [Wallets -> U64]
  BY <1>3, <1>6
<1>8. k = p.backer => pay[k] = p.capacity - MAX_FEE
  BY <1>2, <1>4, <1>5
<1>9. k # p.backer => pay[k] = p.amount /\ pay[p.backer] = rest
  BY <1>2, <1>4, <1>5
<1>. QED BY <1>7, <1>8, <1>9 DEF rest, pay

LEMMA SettleValid ==
    ASSUME LedgerInv, NEW p \in pledges, NEW deps \in SUBSET campaigns,
           NEW since \in 0 .. height, since >= p.deadline,
           NEW pay \in [Wallets -> U64],
           LET tx == SettleTx({p}, deps, since, pay)
           IN  IF CampaignDep(tx, LockOf(p)) = {}
               THEN SinceReached(tx, GraceDeadline(p.deadline)) /\ Refund(tx, LockOf(p))
               ELSE \A c \in CampaignDep(tx, LockOf(p)) :
                       \/ c.status = "Success" /\ Release(tx, LockOf(p), c)
                       \/ c.status = "Failed" /\ Refund(tx, LockOf(p))
    PROVE  Valid(SettleTx({p}, deps, since, pay))
<1>. DEFINE tx == SettleTx({p}, deps, since, pay)
<1>1. /\ tx.since = since /\ tx.deps = deps /\ tx.campIn = {} /\ tx.campOut = {}
      /\ tx.pledgeIn = {p} /\ tx.pledgeOut = {} /\ tx.receiptIn = {} /\ tx.receiptOut = {}
      /\ tx.pay = pay
  BY DEF SettleTx, EmptyTx
<1>2. p \in PledgeCell /\ deps \subseteq CampaignCell
  BY DEF LedgerInv, IInv, TypeOK
<1>3. tx \in Transaction
  <2>1. height \in 0 .. Horizon
    BY DEF LedgerInv, IInv, TypeOK
  <2>2. since \in 0 .. MaxBlock
    BY <2>1, FormsAssumption, BlockAssumption
  <2>. QED BY <1>2, <2>2 DEF SettleTx, EmptyTx, Transaction
<1>0. Holds(p)
  BY PledgeHolds
<1>4. p.deadline \in U64 /\ p.deadline > 0 /\ since # 0 /\ since <= height
  BY <1>0, U64Assumption DEF Holds, U64
<1>5. IF CampaignDep(tx, LockOf(p)) = {}
      THEN SinceReached(tx, GraceDeadline(p.deadline)) /\ Refund(tx, LockOf(p))
      ELSE \A c \in CampaignDep(tx, LockOf(p)) :
              \/ c.status = "Success" /\ Release(tx, LockOf(p), c)
              \/ c.status = "Failed" /\ Refund(tx, LockOf(p))
  OBVIOUS
<1>. HIDE DEF tx
<1>6. SinceReached(tx, p.deadline)
  BY <1>1, <1>4, U64Assumption DEF SinceReached, U64
<1>7. PledgeLock(tx, LockOf(p))
  <2>1. LockOf(p).deadline = p.deadline
    BY DEF LockOf
  <2>. QED BY <1>1, <1>4, <1>5, <1>6, <2>1 DEF PledgeLock
<1>8. ScriptsAccept(tx, minted)
  BY <1>1, <1>7 DEF ScriptsAccept, PledgeType, ReceiptType
<1>9. /\ tx.since <= height /\ tx.campIn \cup tx.deps \subseteq campaigns
      /\ tx.pledgeIn \subseteq pledges /\ tx.receiptIn \subseteq receipts
      /\ \A r \in tx.pledgeOut \cup tx.receiptOut : r.id \notin usedIds
      /\ AtMostOne(tx.pledgeOut)
  BY <1>1 DEF AtMostOne
<1>10. Valid(tx)
  BY <1>3, <1>8, <1>9 DEF Valid
<1>. QED BY <1>10 DEF tx

LEMMA RefundAccepted ==
    ASSUME LedgerInv, NEW p \in pledges, NEW deps, NEW since
    PROVE  Refund(SettleTx({p}, deps, since, RefundPay({p}, MAX_FEE)), LockOf(p))
<1>. DEFINE tx == SettleTx({p}, deps, since, RefundPay({p}, MAX_FEE))
<1>1. tx.pledgeIn = {p} /\ tx.pay = RefundPay({p}, MAX_FEE)
  BY DEF SettleTx, EmptyTx
<1>2. Group(tx.pledgeIn, LockOf(p)) = {p}
  BY <1>1 DEF Group
<1>. HIDE DEF tx
<1>0. Holds(p)
  BY PledgeHolds
<1>3. tx.pay[p.backer] = p.capacity - MAX_FEE
  BY <1>1, RefundPayable
<1>4. Refund(tx, LockOf(p))
  <2>1. LockOf(p).backer = p.backer
    BY DEF LockOf
  <2>2. tx.pay[p.backer] >= SatSub(Capacity({p}), MAX_FEE)
    BY <1>0, <1>3, LimitsAssumption, FeeAssumption DEF Holds, SatSub
  <2>. QED BY <1>0, <1>1, <1>2, <2>1, <2>2 DEF Holds, Refund, OnlyPledgeGroup
<1>. QED BY <1>4 DEF tx

LEMMA ReleaseAccepted ==
    ASSUME LedgerInv, NEW p \in pledges, NEW c \in campaigns, NEW since
    PROVE  Release(SettleTx({p}, {c}, since, ReleasePay({p}, c.creator, p.amount, MAX_FEE)),
                   LockOf(p), c)
<1>. DEFINE tx == SettleTx({p}, {c}, since, ReleasePay({p}, c.creator, p.amount, MAX_FEE))
<1>1. tx.pledgeIn = {p} /\ tx.pay = ReleasePay({p}, c.creator, p.amount, MAX_FEE)
  BY DEF SettleTx, EmptyTx
<1>2. Group(tx.pledgeIn, LockOf(p)) = {p} /\ LockOf(p).backer = p.backer
  BY <1>1 DEF Group, LockOf
<1>. HIDE DEF tx
<1>3. c.creator \in Wallets
  BY DEF LedgerInv, IInv, TypeOK, CampaignCell
<1>4. Holds(p)
  BY PledgeHolds
<1>5. CASE c.creator = p.backer
  <2>1. tx.pay[p.backer] = p.capacity - MAX_FEE
    BY <1>1, <1>3, <1>5, ReleasePayable
  <2>2. tx.pay[p.backer] >= SatSub(Capacity({p}), MAX_FEE)
    BY <1>4, <2>1, LimitsAssumption, FeeAssumption DEF Holds, SatSub
  <2>3. Release(tx, LockOf(p), c)
    BY <1>1, <1>2, <1>4, <1>5, <2>2 DEF Holds, Release, OnlyPledgeGroup
  <2>. QED BY <2>3 DEF tx
<1>6. CASE c.creator # p.backer
  <2>1. tx.pay[c.creator] = p.amount /\ tx.pay[p.backer] = p.capacity - p.amount - MAX_FEE
    BY <1>1, <1>3, <1>6, ReleasePayable
  <2>2. /\ tx.pay[c.creator] >= HeldAmount({p})
        /\ tx.pay[p.backer] >= SatSub(Capacity({p}) - HeldAmount({p}), MAX_FEE)
    BY <1>4, <2>1, LimitsAssumption, FeeAssumption DEF Holds, SatSub
  <2>3. Release(tx, LockOf(p), c)
    BY <1>1, <1>2, <1>4, <1>6, <2>2 DEF Holds, Release, OnlyPledgeGroup
  <2>. QED BY <2>3 DEF tx
<1>. QED BY <1>5, <1>6

LEMMA RescueOpen ==
    ASSUME LedgerInv, NEW p \in pledges, GraceOver(p)
    PROVE  Valid(SettleTx({p}, {}, GraceDeadline(p.deadline), RefundPay({p}, MAX_FEE)))
<1>. DEFINE since == GraceDeadline(p.deadline)
            tx == SettleTx({p}, {}, since, RefundPay({p}, MAX_FEE))
<1>1. p.deadline \in U64 /\ p.deadline > 0 /\ height \in U64
  <2>1. Holds(p)
    BY PledgeHolds
  <2>2. height \in 0 .. Horizon
    BY DEF LedgerInv, IInv, TypeOK
  <2>. QED BY <2>1, <2>2, FormsAssumption, BlockAssumption, U64Assumption DEF Holds, U64
<1>2. since \in 0 .. height /\ since >= p.deadline /\ since > 0
  BY <1>1, U64Assumption, LimitsAssumption DEF GraceOver, GraceDeadline, SatAdd, U64
<1>3. tx.since = since /\ tx.deps = {}
  BY DEF SettleTx, EmptyTx
<1>4. CampaignDep(tx, LockOf(p)) = {}
  BY <1>3 DEF CampaignDep
<1>5. SinceReached(tx, since)
  BY <1>2, <1>3, U64Assumption DEF SinceReached, U64
<1>6. Refund(tx, LockOf(p))
  BY RefundAccepted
<1>7. {} \in SUBSET campaigns
  OBVIOUS
<1>. QED BY <1>2, <1>4, <1>5, <1>6, <1>7, SettleValid, RefundPayable

LEMMA SettleOpen ==
    ASSUME LedgerInv, NEW p \in pledges, height >= p.deadline,
           NEW c \in campaigns, c.id = p.campaign
    PROVE  /\ c.status = "Success" =>
                 Valid(SettleTx({p}, {c}, p.deadline, ReleasePay({p}, c.creator, p.amount, MAX_FEE)))
           /\ c.status = "Failed" =>
                 Valid(SettleTx({p}, {c}, p.deadline, RefundPay({p}, MAX_FEE)))
<1>1. \A pay : CampaignDep(SettleTx({p}, {c}, p.deadline, pay), LockOf(p)) = {c}
  BY DEF SettleTx, EmptyTx, CampaignDep, LockOf
<1>2. {c} \in SUBSET campaigns /\ {c} # {}
  OBVIOUS
<1>3. p.deadline \in 0 .. height /\ p.deadline >= p.deadline
  <2>1. Holds(p)
    BY PledgeHolds
  <2>2. height \in 0 .. Horizon
    BY DEF LedgerInv, IInv, TypeOK
  <2>. QED BY <2>1, <2>2, FormsAssumption, BlockAssumption, U64Assumption DEF Holds, U64
<1>4. c.creator \in Wallets
  BY DEF LedgerInv, IInv, TypeOK, CampaignCell
<1>5. ASSUME c.status = "Success"
      PROVE  Valid(SettleTx({p}, {c}, p.deadline, ReleasePay({p}, c.creator, p.amount, MAX_FEE)))
  <2>1. ReleasePay({p}, c.creator, p.amount, MAX_FEE) \in [Wallets -> U64]
    BY <1>4, ReleasePayable
  <2>2. Release(SettleTx({p}, {c}, p.deadline, ReleasePay({p}, c.creator, p.amount, MAX_FEE)),
                LockOf(p), c)
    BY ReleaseAccepted
  <2>. QED BY <1>1, <1>2, <1>3, <1>5, <2>1, <2>2, SettleValid
<1>6. ASSUME c.status = "Failed"
      PROVE  Valid(SettleTx({p}, {c}, p.deadline, RefundPay({p}, MAX_FEE)))
  <2>1. RefundPay({p}, MAX_FEE) \in [Wallets -> U64]
    BY RefundPayable
  <2>2. Refund(SettleTx({p}, {c}, p.deadline, RefundPay({p}, MAX_FEE)), LockOf(p))
    BY RefundAccepted
  <2>. QED BY <1>1, <1>2, <1>3, <1>6, <2>1, <2>2, SettleValid
<1>. QED BY <1>5, <1>6

LEMMA FinalizeOpen ==
    ASSUME LedgerInv, NEW c \in campaigns, c.status = "Active", height >= c.deadline
    PROVE  \E status \in CampaignStatus : Valid(FinalizeTx(c, status, c.capacity, c.deadline))
<1>. DEFINE status == IF c.total >= c.goal THEN "Success" ELSE "Failed"
            new == [c EXCEPT !.status = status, !.capacity = c.capacity]
            tx  == FinalizeTx(c, status, c.capacity, c.deadline)
<1>1. /\ tx.since = c.deadline /\ tx.deps = {} /\ tx.campIn = {c} /\ tx.campOut = {new}
      /\ tx.pledgeIn = {} /\ tx.pledgeOut = {} /\ tx.receiptIn = {} /\ tx.receiptOut = {}
      /\ tx.pay = NoPay
  BY DEF FinalizeTx, EmptyTx
<1>2. c \in CampaignCell /\ c.deadline > 0
  BY DEF LedgerInv, IInv, TypeOK, EscrowBacked
<1>3. /\ new \in CampaignCell /\ new.id = c.id /\ new.creator = c.creator /\ new.goal = c.goal
      /\ new.deadline = c.deadline /\ new.total = c.total /\ new.capacity = c.capacity
      /\ new.status = status
  BY <1>2 DEF CampaignCell, CampaignStatus
<1>4. status \in {"Success", "Failed"} /\ StatusJustified(status, c.total, c.goal)
  <2>1. c.total \in Nat /\ c.goal \in Nat
    BY <1>2, U64Assumption DEF CampaignCell, U64
  <2>. QED BY <2>1 DEF StatusJustified
<1>5. /\ c.deadline \in Nat /\ c.capacity \in Nat /\ c.deadline \in 0 .. MaxBlock /\ height \in Nat
  BY <1>2, U64Assumption, FormsAssumption, BlockAssumption DEF CampaignCell, U64, LedgerInv, IInv, TypeOK
<1>6. tx \in Transaction
  <2>1. NoPay \in [Wallets -> U64]
    BY U64Assumption DEF NoPay, U64
  <2>2. tx = [EmptyTx EXCEPT !.since = c.deadline, !.campIn = {c}, !.campOut = {new}]
    BY DEF FinalizeTx
  <2>. HIDE DEF new, tx
  <2>. QED BY <1>2, <1>3, <1>5, <2>1, <2>2 DEF EmptyTx, Transaction
<1>. HIDE DEF tx, new, status
<1>7. SinceReached(tx, c.deadline)
  BY <1>1, <1>2, <1>5 DEF SinceReached
<1>8. CampaignType(tx, c.id, minted)
  <2>1. {d \in tx.campIn : d.id = c.id} = {c} /\ {d \in tx.campOut : d.id = c.id} = {new}
    BY <1>1, <1>3
  <2>2. Finalization(c, new, tx) /\ CapacityPreserved(c, new) /\ new.status # "Active"
    BY <1>3, <1>4, <1>5, <1>7 DEF Finalization, ImmutableFields, CapacityPreserved
  <2>. QED BY <2>1, <2>2 DEF CampaignType, AtMostOne
<1>9. CampaignLock(tx, c)
  <2>1. CarriedForward(c, tx) = {}
    BY <1>1, <1>3, <1>4 DEF CarriedForward
  <2>. QED BY <1>7, <2>1 DEF CampaignLock
<1>10. ScriptsAccept(tx, minted)
  <2>1. {d.id : d \in tx.campIn \cup tx.campOut} = {c.id}
    BY <1>1, <1>3
  <2>. QED BY <1>1, <1>8, <1>9, <2>1 DEF ScriptsAccept, PledgeType, ReceiptType
<1>11. Valid(tx)
  BY <1>1, <1>5, <1>6, <1>10 DEF Valid, AtMostOne
<1>12. status \in CampaignStatus
  BY <1>4 DEF CampaignStatus
<1>. QED BY <1>11, <1>12 DEF tx

LEMMA AlwaysWayOut == LedgerInv => NeverStuck
<1>. SUFFICES ASSUME LedgerInv, NEW p \in pledges, height >= p.deadline
              PROVE  WayOut(p)
  BY DEF NeverStuck
<1>1. CASE \A c \in campaigns : c.id # p.campaign
  <2>1. GraceOver(p)
    BY <1>1 DEF LedgerInv, IInv, NoLockout
  <2>. QED BY <2>1, RescueOpen DEF WayOut
<1>2. CASE \E c \in campaigns : c.id = p.campaign
  <2>1. PICK c \in campaigns : c.id = p.campaign
    BY <1>2
  <2>2. c.status \in CampaignStatus /\ c.deadline = p.deadline
    BY <2>1 DEF LedgerInv, IInv, TypeOK, CampaignCell, DeadlinesAgree
  <2>3. CASE c.status = "Active"
    BY <2>1, <2>2, <2>3, FinalizeOpen DEF WayOut
  <2>4. CASE c.status = "Success"
    BY <2>1, <2>4, SettleOpen DEF WayOut
  <2>5. CASE c.status = "Failed"
    BY <2>1, <2>5, SettleOpen DEF WayOut
  <2>. QED BY <2>2, <2>3, <2>4, <2>5 DEF CampaignStatus
<1>. QED BY <1>1, <1>2

\* From its deadline on, some transaction the scripts accept moves a pledge
\* towards its owner: finalize, release, refund or the fail-safe, whichever the
\* campaign cell, if there still is one, calls for (pledge lock and campaign
\* scripts together).
THEOREM NoPledgeIsStuck == Spec => []NeverStuck
  BY AlwaysWayOut, LedgerInvHolds, PTL

=============================================================================
