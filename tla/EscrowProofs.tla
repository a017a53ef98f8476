----------------------------- MODULE EscrowProofs -----------------------------
(***************************************************************************)
(* Proof that the ledger of cells and scripts implements the escrow        *)
(* accounts, for all values of its constants: the initial ledger is the    *)
(* initial accounts, and every step is a step of them or leaves them.      *)
(***************************************************************************)
EXTENDS CrowdfundEscrow, CrowdfundProofs

-----------------------------------------------------------------------------
(* The accounts, as the ledger has them                                     *)

Phase == [id \in Campaigns |-> PhaseOf(id)]
Terms == [id \in Campaigns |-> TermsOf(id)]
Held  == [id \in Campaigns |-> Amount(Bound(pledges, id))]

LEMMA EscrowInitial == Init => Accounts!Init
<1>. SUFFICES ASSUME Init PROVE Accounts!Init
  OBVIOUS
<1>1. ASSUME NEW id \in Campaigns
      PROVE  /\ PhaseOf(id) = "Unborn"
             /\ TermsOf(id) = [goal |-> 0, deadline |-> 0]
             /\ Amount(Bound(pledges, id)) = 0
             /\ \A how : Amount(Settled(id, {how})) = 0
  <2>1. CellsOf(id) = {} /\ Bound(pledges, id) = {} /\ \A how : Settled(id, {how}) = {}
    BY SettledMember DEF Init, CellsOf, Bound
  <2>2. PhaseOf(id) = "Unborn"
    BY DEF Init, PhaseOf
  <2>3. TermsOf(id) = [goal |-> 0, deadline |-> 0]
    BY <2>1 DEF TermsOf
  <2>. QED BY <2>1, <2>2, <2>3, AmountEmpty
<1>. QED BY <1>1 DEF Accounts!Init, Accounts!NoTerms, PaidBy, Init

LEMMA OneCell ==
    ASSUME NEW C, NEW c \in C, \A d \in C : d.id = c.id => d = c
    PROVE  /\ {d \in C : d.id = c.id} = {c}
           /\ (CHOOSE d \in {e \in C : e.id = c.id} : TRUE) = c
<1>1. {d \in C : d.id = c.id} = {c}
  OBVIOUS
<1>. QED BY <1>1

\* The phase and the terms of an account are those of the live campaign cell.
LEMMA LiveAccount ==
    ASSUME IInv, NEW c \in campaigns
    PROVE  /\ c.id \in Campaigns /\ c.id \in minted
           /\ PhaseOf(c.id) = c.status
           /\ TermsOf(c.id) = [goal |-> c.goal, deadline |-> c.deadline]
<1>1. CellsOf(c.id) = {c} /\ (CHOOSE d \in CellsOf(c.id) : TRUE) = c
  BY OneCell DEF IInv, OneCampaignCell, CellsOf
<1>2. c.id \in Campaigns /\ c.id \in minted
  BY DEF IInv, TypeOK, CampaignCell, CampaignsMinted
<1>. QED BY <1>1, <1>2 DEF PhaseOf, TermsOf

LEMMA LiveAccountNext ==
    ASSUME IInv', NEW c \in campaigns'
    PROVE  /\ PhaseOf(c.id)' = c.status
           /\ TermsOf(c.id)' = [goal |-> c.goal, deadline |-> c.deadline]
<1>1. CellsOf(c.id)' = {c} /\ (CHOOSE d \in CellsOf(c.id)' : TRUE) = c
  BY OneCell DEF IInv, OneCampaignCell, CellsOf
<1>2. c.id \in minted'
  BY DEF IInv, CampaignsMinted
<1>. QED BY <1>1, <1>2 DEF PhaseOf, TermsOf

\* What a transaction does not touch stays.
LEMMA AccountStays ==
    ASSUME NEW id,
           {c \in campaigns' : c.id = id} = {c \in campaigns : c.id = id},
           id \in minted' <=> id \in minted
    PROVE  PhaseOf(id)' = PhaseOf(id) /\ TermsOf(id)' = TermsOf(id)
<1>1. CellsOf(id)' = CellsOf(id)
  BY DEF CellsOf
<1>2. PhaseOf(id)' = PhaseOf(id)
  BY <1>1 DEF PhaseOf
<1>3. TermsOf(id)' = TermsOf(id)
  BY <1>1 DEF TermsOf
<1>. QED BY <1>2, <1>3

\* The accumulator is the account's four figures together.
LEMMA TotalIsRaised ==
    ASSUME LedgerInv, NEW c \in campaigns
    PROVE  /\ c.total = Held[c.id] + PaidBy("released")[c.id] + PaidBy("refunded")[c.id]
                          + PaidBy("rescued")[c.id]
           /\ Held[c.id] \in Nat /\ PaidBy("released")[c.id] \in Nat
           /\ PaidBy("refunded")[c.id] \in Nat /\ PaidBy("rescued")[c.id] \in Nat
<1>. DEFINE A == Settled(c.id, {"released"})
            B == Settled(c.id, {"refunded"})
            R == Settled(c.id, {"rescued"})
<1>1. TypeOK /\ LedgerFinite /\ SettledOnce /\ c.id \in Campaigns
  BY LiveAccount DEF LedgerInv, IInv
<1>2. Settled(c.id, Outcomes) = (A \cup B) \cup R
  BY SettledMember DEF Outcomes
<1>3. A \cap B = {} /\ (A \cup B) \cap R = {}
  <2>1. \A h, g, p : p \in Settled(c.id, {h}) /\ p \in Settled(c.id, {g}) => h = g
    BY <1>1, SettledMember DEF SettledOnce
  <2>2. "released" # "refunded" /\ "released" # "rescued" /\ "refunded" # "rescued"
    OBVIOUS
  <2>. QED BY <2>1, <2>2
<1>4. /\ IsFiniteSet(A) /\ IsFiniteSet(B) /\ IsFiniteSet(R)
      /\ \A p \in A : p.amount \in Nat
      /\ \A p \in B : p.amount \in Nat
      /\ \A p \in R : p.amount \in Nat
      /\ Amount(A) \in Nat /\ Amount(B) \in Nat /\ Amount(R) \in Nat
  BY <1>1, SettledCells
<1>5. Held[c.id] = Amount(Bound(pledges, c.id)) /\ Held[c.id] \in Nat
  <2>1. Bound(pledges, c.id) \in SUBSET pledges
    BY DEF Bound
  <2>. QED BY <1>1, <2>1, EscrowCells DEF Held
<1>6. /\ PaidBy("released")[c.id] = Amount(A) /\ PaidBy("refunded")[c.id] = Amount(B)
      /\ PaidBy("rescued")[c.id] = Amount(R)
  BY <1>1 DEF PaidBy
<1>7. c.total = Held[c.id] + Amount(Settled(c.id, Outcomes))
  BY <1>5 DEF LedgerInv, AccumulatorExact
<1>. HIDE DEF A, B, R
<1>8. Amount(A \cup B) = Amount(A) + Amount(B)
  BY <1>3, <1>4, AmountOfParts
<1>9. Amount((A \cup B) \cup R) = Amount(A \cup B) + Amount(R)
  <2>1. IsFiniteSet(A \cup B) /\ \A p \in A \cup B : p.amount \in Nat
    BY <1>4, FS_Union
  <2>. QED BY <1>3, <1>4, <2>1, AmountOfParts
<1>. QED BY <1>2, <1>4, <1>5, <1>6, <1>7, <1>8, <1>9

-----------------------------------------------------------------------------
(* What a transaction does to the accounts                                  *)

\* Only a settlement or a new pledge moves money.
LEMMA MoneyStays ==
    ASSUME LedgerInv, NEW tx, ClientCommit(tx), ~MakesPledge(tx), ~SettlesPledges(tx)
    PROVE  /\ Held' = Held
           /\ PaidBy("released")' = PaidBy("released")
           /\ PaidBy("refunded")' = PaidBy("refunded")
           /\ PaidBy("rescued")' = PaidBy("rescued")
<1>1. TypeOK /\ LedgerFinite /\ SettledOnce
  BY DEF LedgerInv, IInv
<1>2. \A id, how : Settled(id, how)' = Settled(id, how)
  BY SettledAfter
<1>3. ASSUME NEW id \in Campaigns
      PROVE  Amount(Bound(pledges', id)) = Amount(Bound(pledges, id))
  <2>1. Amount(Bound(pledges', id)) + Amount(Settled(id, Outcomes)') =
           Amount(Bound(pledges, id)) + Amount(Settled(id, Outcomes))
    BY <1>1, RaisedAfter
  <2>2. Amount(Settled(id, Outcomes)') = Amount(Settled(id, Outcomes))
    BY <1>2
  <2>3. Amount(Settled(id, Outcomes)) \in Nat
    BY <1>1, SettledCells
  <2>4. Amount(Bound(pledges, id)) \in Nat
    BY <1>1, HeldAfter
  <2>5. Amount(Bound(pledges', id)) \in Int
    <3>1. /\ Amount(Bound(pledges', id)) =
                Amount(Bound(pledges, id)) - Amount(Bound(tx.pledgeIn, id))
                   + Amount(Bound(tx.pledgeOut, id))
          /\ Amount(Bound(tx.pledgeIn, id)) \in Nat /\ Amount(Bound(tx.pledgeOut, id)) \in Nat
      BY <1>1, HeldAfter
    <3>. QED BY <2>4, <3>1
  <2>. QED BY <2>1, <2>2, <2>3, <2>4, <2>5
<1>4. Held' = Held
  BY <1>3 DEF Held
<1>5. \A how : PaidBy(how)' = PaidBy(how)
  BY <1>2 DEF PaidBy
<1>. QED BY <1>4, <1>5

\* Campaign cells, and so phases and terms, stay where no campaign cell is moved.
LEMMA PhasesStay ==
    ASSUME NEW tx, ClientCommit(tx), tx.campIn = {}, tx.campOut = {}
    PROVE  Phase' = Phase /\ Terms' = Terms
<1>1. campaigns' = campaigns /\ minted' = minted
  BY DEF ClientCommit, Commit
<1>2. \A id : PhaseOf(id)' = PhaseOf(id) /\ TermsOf(id)' = TermsOf(id)
  BY <1>1, AccountStays
<1>. QED BY <1>2 DEF Phase, Terms

LEMMA HeightStays ==
    ASSUME NEW tx, ClientCommit(tx)
    PROVE  height' = height
BY DEF ClientCommit, Commit

\* Merges and reclaimed receipts leave the accounts alone.
LEMMA StutterStep ==
    ASSUME LedgerInv, NEW tx, ClientCommit(tx), MergesPledges(tx) \/ TakesReceipts(tx)
    PROVE  UNCHANGED Accounts!vars
<1>1. /\ tx.campIn = {} /\ tx.campOut = {}
      /\ ~MakesPledge(tx) /\ ~SettlesPledges(tx)
  BY DEF MergesPledges, TakesReceipts, MakesPledge, SettlesPledges
<1>2. Phase' = Phase /\ Terms' = Terms
  BY <1>1, PhasesStay
<1>3. /\ Held' = Held /\ PaidBy("released")' = PaidBy("released")
      /\ PaidBy("refunded")' = PaidBy("refunded") /\ PaidBy("rescued")' = PaidBy("rescued")
  BY <1>1, MoneyStays
<1>. QED BY <1>2, <1>3, HeightStays DEF Accounts!vars, Phase, Terms, Held

\* A pledge is a contribution: PledgeTx counts it in full.
LEMMA ContributeStep ==
    ASSUME LedgerInv, LedgerInv', NEW tx, ClientCommit(tx), MakesPledge(tx)
    PROVE  \E k \in Campaigns : Accounts!Contribute(k)
<1>1. TypeOK /\ LedgerFinite /\ SettledOnce /\ IInv /\ IInv'
  BY DEF LedgerInv, IInv
<1>2. PICK old \in campaigns, new \in CampaignCell, p \in PledgeCell :
         /\ tx.campIn = {old} /\ tx.campOut = {new}
         /\ tx.pledgeIn = {} /\ tx.pledgeOut = {p}
         /\ new.id = old.id /\ old.status = "Active" /\ new.status = "Active"
         /\ ImmutableFields(old, new)
         /\ new.total = old.total + p.amount /\ new.total <= U64Max
         /\ p.campaign = old.id
         /\ p.amount >= MIN_PLEDGE_AMOUNT
  BY <1>1, PledgeScript
<1>. DEFINE k == old.id
            amount == p.amount
<1>3. k \in Campaigns /\ k \in minted /\ PhaseOf(k) = "Active"
      /\ TermsOf(k) = [goal |-> old.goal, deadline |-> old.deadline]
  BY <1>1, <1>2, LiveAccount
<1>4. new \in campaigns' /\ campaigns' = (campaigns \ {old}) \cup {new}
  BY <1>1, <1>2, CommitEffect
<1>5. minted' = minted
  BY <1>2, <1>3 DEF ClientCommit, Commit
<1>6. ASSUME NEW id \in Campaigns
      PROVE  PhaseOf(id)' = PhaseOf(id) /\ TermsOf(id)' = TermsOf(id)
  <2>1. CASE id = k
    <3>1. PhaseOf(new.id)' = "Active" /\ TermsOf(new.id)' = [goal |-> new.goal, deadline |-> new.deadline]
      BY <1>1, <1>2, <1>4, LiveAccountNext
    <3>2. new.goal = old.goal /\ new.deadline = old.deadline
      BY <1>2 DEF ImmutableFields
    <3>. QED BY <1>2, <1>3, <2>1, <3>1, <3>2
  <2>2. CASE id # k
    <3>1. {c \in campaigns' : c.id = id} = {c \in campaigns : c.id = id}
      BY <1>2, <1>4, <2>2
    <3>. QED BY <1>5, <3>1, AccountStays
  <2>. QED BY <2>1, <2>2
<1>7. Phase' = Phase /\ Terms' = Terms
  BY <1>6 DEF Phase, Terms
<1>8. \A how : PaidBy(how)' = PaidBy(how)
  <2>1. ~SettlesPledges(tx)
    BY <1>2 DEF SettlesPledges
  <2>2. \A id, how : Settled(id, how)' = Settled(id, how)
    BY <2>1, SettledAfter
  <2>. QED BY <2>2 DEF PaidBy
<1>9. amount \in MIN_PLEDGE_AMOUNT .. U64Max /\ amount \in Nat
  BY <1>2, U64Assumption, LimitsAssumption DEF PledgeCell, U64
<1>10. ASSUME NEW id \in Campaigns
       PROVE  Amount(Bound(pledges', id)) =
                 IF id = k THEN Amount(Bound(pledges, id)) + amount ELSE Amount(Bound(pledges, id))
  <2>1. /\ Amount(Bound(pledges', id)) =
              Amount(Bound(pledges, id)) - Amount(Bound(tx.pledgeIn, id))
                 + Amount(Bound(tx.pledgeOut, id))
        /\ Amount(Bound(pledges, id)) \in Nat
    BY <1>1, HeldAfter
  <2>2. Bound(tx.pledgeIn, id) = {} /\ Bound(tx.pledgeOut, id) = IF id = k THEN {p} ELSE {}
    BY <1>2 DEF Bound
  <2>3. Amount({}) = 0 /\ Amount({p}) = amount
    BY <1>9, AmountEmpty, AmountSingle
  <2>. HIDE DEF k, amount
  <2>4. Amount(Bound(tx.pledgeOut, id)) = IF id = k THEN amount ELSE 0
    BY <2>2, <2>3
  <2>. QED BY <1>9, <2>1, <2>2, <2>3, <2>4
<1>11. Held' = [Held EXCEPT ![k] = @ + amount]
  BY <1>3, <1>10 DEF Held
<1>12. Held[k] + PaidBy("released")[k] + PaidBy("refunded")[k] + PaidBy("rescued")[k] + amount <= U64Max
  BY <1>2, TotalIsRaised
<1>13. Accounts!Contribute(k)
  <2>1. Phase[k] = "Active"
    BY <1>3 DEF Phase
  <2>. HIDE DEF k, amount
  <2>. QED BY <1>7, <1>8, <1>9, <1>11, <1>12, <2>1, HeightStays
           DEF Accounts!Contribute, Accounts!Raised, Phase, Terms, Held
<1>. QED BY <1>3, <1>13

\* What MovesCampaign leaves to say: the accounts of other campaigns stay.
LEMMA OthersStay ==
    ASSUME NEW tx, ClientCommit(tx), NEW k,
           \A c \in tx.campIn \cup tx.campOut : c.id = k,
           NEW id, id # k
    PROVE  PhaseOf(id)' = PhaseOf(id) /\ TermsOf(id)' = TermsOf(id)
<1>1. /\ campaigns' = (campaigns \ tx.campIn) \cup tx.campOut
      /\ minted' = minted \cup {c.id : c \in tx.campOut}
  BY DEF ClientCommit, Commit
<1>2. {c \in campaigns' : c.id = id} = {c \in campaigns : c.id = id}
  BY <1>1
<1>3. id \in minted' <=> id \in minted
  BY <1>1
<1>. QED BY <1>2, <1>3, AccountStays

LEMMA OpenStep ==
    ASSUME LedgerInv, LedgerInv', NEW tx, ClientCommit(tx), MovesCampaign(tx), tx.campIn = {},
           NEW new, tx.campOut = {new}
    PROVE  \E k \in Campaigns : Accounts!Open(k)
<1>1. IInv /\ IInv' /\ TypeOK
  BY DEF LedgerInv, IInv
<1>2. new \in CampaignCell /\ new \in campaigns'
  BY <1>1, CommitEffect
<1>3. new.id \notin minted /\ CampaignCreation(new)
  <2>1. NewCampaign(new) \/ \E old \in tx.campIn : Successor(tx, old, new)
    BY <1>1, CampaignOutput DEF ClientCommit
  <2>. QED BY <2>1 DEF NewCampaign
<1>. DEFINE k == new.id
            goal == new.goal
            deadline == new.deadline
<1>4. k \in Campaigns /\ PhaseOf(k) = "Unborn"
  BY <1>2, <1>3 DEF CampaignCell, PhaseOf
<1>5. goal \in 1 .. U64Max /\ deadline \in 1 .. U64Max
  BY <1>2, <1>3, U64Assumption DEF CampaignCell, CampaignCreation, U64
<1>6. PhaseOf(k)' = "Active" /\ TermsOf(k)' = [goal |-> goal, deadline |-> deadline]
  BY <1>1, <1>2, <1>3, LiveAccountNext DEF CampaignCreation
<1>7. \A id \in Campaigns \ {k} : PhaseOf(id)' = PhaseOf(id) /\ TermsOf(id)' = TermsOf(id)
  <2>1. \A c \in tx.campIn \cup tx.campOut : c.id = k
    OBVIOUS
  <2>. QED BY <2>1, OthersStay
<1>8. Phase' = [Phase EXCEPT ![k] = "Active"]
  BY <1>4, <1>6, <1>7 DEF Phase
<1>9. Terms' = [Terms EXCEPT ![k] = [goal |-> goal, deadline |-> deadline]]
  BY <1>4, <1>6, <1>7 DEF Terms
<1>10. /\ Held' = Held /\ PaidBy("released")' = PaidBy("released")
       /\ PaidBy("refunded")' = PaidBy("refunded") /\ PaidBy("rescued")' = PaidBy("rescued")
  BY MoneyStays DEF MovesCampaign, MakesPledge, SettlesPledges
<1>11. Phase[k] = "Unborn"
  BY <1>4 DEF Phase
<1>. HIDE DEF k, goal, deadline
<1>12. Accounts!Open(k)
  BY <1>5, <1>8, <1>9, <1>10, <1>11, HeightStays DEF Accounts!Open, Phase, Terms, Held
<1>. QED BY <1>4, <1>12

LEMMA DecideStep ==
    ASSUME LedgerInv, LedgerInv', NEW tx, ClientCommit(tx), MovesCampaign(tx),
           NEW old, tx.campIn = {old}, NEW new, tx.campOut = {new}
    PROVE  \E k \in Campaigns : Accounts!Decide(k)
<1>1. IInv /\ IInv' /\ TypeOK /\ IsFiniteSet(pledges)
  BY DEF LedgerInv, IInv, LedgerFinite
<1>2. /\ new \in CampaignCell /\ new \in campaigns'
      /\ old \in CampaignCell /\ old \in campaigns /\ new.id = old.id
  BY <1>1, CommitEffect DEF MovesCampaign, TypeOK
<1>3. Finalization(old, new, tx)
  <2>1. tx.pledgeOut = {}
    BY DEF MovesCampaign
  <2>. QED BY <1>1, <1>2, <2>1, TotalFrozen
<1>. DEFINE k == old.id
<1>4. /\ k \in Campaigns /\ PhaseOf(k) = "Active"
      /\ TermsOf(k) = [goal |-> old.goal, deadline |-> old.deadline]
  BY <1>1, <1>2, <1>3, LiveAccount DEF Finalization
<1>5. /\ PhaseOf(k)' = new.status
      /\ TermsOf(k)' = [goal |-> old.goal, deadline |-> old.deadline]
  BY <1>1, <1>2, <1>3, LiveAccountNext DEF Finalization, ImmutableFields
<1>6. \A id \in Campaigns \ {k} : PhaseOf(id)' = PhaseOf(id) /\ TermsOf(id)' = TermsOf(id)
  <2>1. \A c \in tx.campIn \cup tx.campOut : c.id = k
    BY <1>2
  <2>. QED BY <2>1, OthersStay
<1>7. Phase' = [Phase EXCEPT ![k] = new.status]
  BY <1>4, <1>5, <1>6 DEF Phase
<1>8. Terms' = Terms
  BY <1>4, <1>5, <1>6 DEF Terms
<1>9. /\ Held' = Held /\ PaidBy("released")' = PaidBy("released")
      /\ PaidBy("refunded")' = PaidBy("refunded") /\ PaidBy("rescued")' = PaidBy("rescued")
  BY MoneyStays DEF MovesCampaign, MakesPledge, SettlesPledges
<1>10. Phase[k] = "Active" /\ Terms[k].deadline = old.deadline /\ Terms[k].goal = old.goal
  BY <1>4 DEF Phase, Terms
<1>11. height >= old.deadline
  <2>1. tx.since >= old.deadline /\ tx.since \in 0 .. MaxBlock /\ tx.since <= height
    BY <1>1, <1>3, CommitEffect DEF Finalization, SinceReached
  <2>2. old.deadline \in U64 /\ height \in 0 .. Horizon
    BY <1>1, <1>2 DEF TypeOK, CampaignCell
  <2>. QED BY <2>1, <2>2, U64Assumption, FormsAssumption, BlockAssumption DEF U64
<1>12. new.status = IF Held[k] + PaidBy("released")[k] + PaidBy("refunded")[k]
                          + PaidBy("rescued")[k] >= Terms[k].goal
                    THEN "Success" ELSE "Failed"
  <2>1. \/ new.status = "Success" /\ old.total >= old.goal
        \/ new.status = "Failed" /\ old.total < old.goal
    BY <1>3 DEF Finalization, StatusJustified
  <2>2. old.total \in Nat /\ old.goal \in Nat
    BY <1>2, U64Assumption DEF CampaignCell, U64
  <2>3. old.total = Held[k] + PaidBy("released")[k] + PaidBy("refunded")[k] + PaidBy("rescued")[k]
    BY <1>2, TotalIsRaised
  <2>. HIDE DEF k
  <2>. QED BY <1>10, <2>1, <2>2, <2>3
<1>. HIDE DEF k
<1>13. Accounts!Decide(k)
  BY <1>7, <1>8, <1>9, <1>10, <1>11, <1>12, HeightStays
     DEF Accounts!Decide, Accounts!Expired, Accounts!Raised, Phase, Terms, Held
<1>. QED BY <1>4, <1>13

LEMMA CloseStep ==
    ASSUME LedgerInv, LedgerInv', NEW tx, ClientCommit(tx), MovesCampaign(tx),
           NEW old, tx.campIn = {old}, tx.campOut = {}
    PROVE  \E k \in Campaigns : Accounts!Close(k)
<1>1. IInv /\ TypeOK
  BY DEF LedgerInv, IInv
<1>2. old \in CampaignCell /\ old \in campaigns /\ campaigns' = campaigns \ {old}
  BY <1>1, CommitEffect DEF TypeOK
<1>3. old.status # "Active" /\ SinceReached(tx, GraceDeadline(old.deadline))
  <2>1. CampaignType(tx, old.id, minted)
    BY DEF ClientCommit, Commit, Valid, ScriptsAccept
  <2>. QED BY <2>1 DEF CampaignType, DestructionAfterGrace
<1>. DEFINE k == old.id
<1>4. /\ k \in Campaigns /\ k \in minted
      /\ PhaseOf(k) = old.status /\ old.status \in {"Success", "Failed"}
      /\ TermsOf(k) = [goal |-> old.goal, deadline |-> old.deadline]
  BY <1>1, <1>2, <1>3, LiveAccount DEF CampaignCell, CampaignStatus
<1>5. PhaseOf(k)' = "Gone" /\ TermsOf(k)' = [goal |-> 0, deadline |-> 0]
  <2>1. CellsOf(k)' = {}
    BY <1>1, <1>2 DEF CellsOf, IInv, OneCampaignCell
  <2>2. k \in minted'
    BY <1>4 DEF ClientCommit, Commit
  <2>. QED BY <2>1, <2>2 DEF PhaseOf, TermsOf
<1>6. \A id \in Campaigns \ {k} : PhaseOf(id)' = PhaseOf(id) /\ TermsOf(id)' = TermsOf(id)
  <2>1. \A c \in tx.campIn \cup tx.campOut : c.id = k
    OBVIOUS
  <2>. QED BY <2>1, OthersStay
<1>7. Phase' = [Phase EXCEPT ![k] = "Gone"]
  BY <1>4, <1>5, <1>6 DEF Phase
<1>8. Terms' = [Terms EXCEPT ![k] = [goal |-> 0, deadline |-> 0]]
  BY <1>4, <1>5, <1>6 DEF Terms
<1>9. /\ Held' = Held /\ PaidBy("released")' = PaidBy("released")
      /\ PaidBy("refunded")' = PaidBy("refunded") /\ PaidBy("rescued")' = PaidBy("rescued")
  BY MoneyStays DEF MovesCampaign, MakesPledge, SettlesPledges
<1>10. Phase[k] \in {"Success", "Failed"} /\ Terms[k].deadline = old.deadline
  BY <1>4 DEF Phase, Terms
<1>11. height >= old.deadline + GRACE_PERIOD_BLOCKS
  <2>1. old.deadline \in U64
    BY <1>2 DEF CampaignCell
  <2>. QED BY <1>1, <1>3, <2>1, GraceReached DEF GraceOver
<1>. HIDE DEF k
<1>12. Accounts!Close(k)
  BY <1>7, <1>8, <1>9, <1>10, <1>11, HeightStays
     DEF Accounts!Close, Accounts!RescueOpen, Accounts!NoTerms, Phase, Terms, Held
<1>. QED BY <1>4, <1>12

LEMMA MoveStep ==
    ASSUME LedgerInv, LedgerInv', NEW tx, ClientCommit(tx), MovesCampaign(tx)
    PROVE  Accounts!Next
<1>1. /\ tx.campIn = {} \/ \E old : tx.campIn = {old}
      /\ tx.campOut = {} \/ \E new : tx.campOut = {new}
      /\ tx.campIn \cup tx.campOut # {}
  <2>1. \A S : AtMostOne(S) => S = {} \/ \E x : S = {x}
    <3>. SUFFICES ASSUME NEW S, AtMostOne(S), NEW x \in S
                  PROVE  S = {x}
      OBVIOUS
    <3>. QED BY DEF AtMostOne
  <2>. QED BY <2>1 DEF MovesCampaign
<1>2. CASE tx.campIn = {}
  <2>1. PICK new : tx.campOut = {new}
    BY <1>1, <1>2
  <2>2. \E k \in Campaigns : Accounts!Open(k)
    BY <1>2, <2>1, OpenStep
  <2>. QED BY <2>2 DEF Accounts!Next
<1>3. CASE \E old : tx.campIn = {old}
  <2>1. PICK old : tx.campIn = {old}
    BY <1>3
  <2>2. CASE tx.campOut = {}
    <3>1. \E k \in Campaigns : Accounts!Close(k)
      BY <2>1, <2>2, CloseStep
    <3>. QED BY <3>1 DEF Accounts!Next
  <2>3. CASE \E new : tx.campOut = {new}
    <3>1. PICK new : tx.campOut = {new}
      BY <2>3
    <3>2. \E k \in Campaigns : Accounts!Decide(k)
      BY <2>1, <3>1, DecideStep
    <3>. QED BY <3>2 DEF Accounts!Next
  <2>. QED BY <1>1, <2>2, <2>3
<1>. QED BY <1>1, <1>2, <1>3

-----------------------------------------------------------------------------
(* Money that leaves escrow                                                 *)

LEMMA AmountOfSome ==
    ASSUME NEW P, IsFiniteSet(P), \A p \in P : p.amount \in Nat, NEW I \in SUBSET P
    PROVE  Amount(I) <= Amount(P)
<1>1. IsFiniteSet({}) /\ {} \cap P = {} /\ \A p \in P \cup {} : p.amount \in Nat
  BY FS_EmptySet
<1>. QED BY <1>1, AmountMoved

\* A settlement takes a part of one account, which is not nothing, and books it
\* by the branch of the pledge lock that let it go.
LEMMA SettlementMoves ==
    ASSUME LedgerInv, NEW tx, ClientCommit(tx), SettlesPledges(tx), NEW p \in tx.pledgeIn
    PROVE  \E amount \in 1 .. Held[p.campaign] :
              /\ p.campaign \in Campaigns
              /\ Held' = [Held EXCEPT ![p.campaign] = @ - amount]
              /\ \A how :
                    PaidBy(how)' = IF how = HowSettled(tx)
                                   THEN [PaidBy(how) EXCEPT ![p.campaign] = @ + amount]
                                   ELSE PaidBy(how)
<1>. DEFINE P == tx.pledgeIn
            k == p.campaign
            amount == Amount(tx.pledgeIn)
<1>1. TypeOK /\ IInv /\ LedgerFinite /\ SettledOnce /\ EscrowBacked
  BY DEF LedgerInv, IInv
<1>2. \A q \in P : q.campaign = k
  BY <1>1, SettlementPays DEF LockOf
<1>3. P \in SUBSET pledges /\ P \in SUBSET Bound(pledges, k) /\ Bound(pledges, k) \in SUBSET pledges
  BY <1>1, <1>2, CommitEffect DEF Bound
<1>4. k \in Campaigns
  BY <1>1, <1>3 DEF TypeOK, PledgeCell
<1>5. \A id : Bound(tx.pledgeIn, id) = IF id = k THEN P ELSE {}
  BY <1>2 DEF Bound
<1>6. amount \in Nat /\ amount > 0 /\ amount <= Amount(Bound(pledges, k))
  <2>1. /\ IsFiniteSet(P) /\ (\A q \in P : q.amount \in Nat) /\ amount \in Nat
        /\ IsFiniteSet(Bound(pledges, k)) /\ \A q \in Bound(pledges, k) : q.amount \in Nat
    BY <1>1, <1>3, EscrowCells
  <2>2. Amount({p}) <= amount
    <3>1. {p} \in SUBSET P
      OBVIOUS
    <3>. QED BY <2>1, <3>1, AmountOfSome
  <2>3. Amount({p}) = p.amount /\ p.amount \in Nat /\ p.amount > 0
    BY <1>1, <1>3, <2>1, AmountSingle DEF EscrowBacked
  <2>4. amount <= Amount(Bound(pledges, k))
    BY <1>3, <2>1, AmountOfSome
  <2>. HIDE DEF amount
  <2>. QED BY <2>1, <2>2, <2>3, <2>4
<1>7. ASSUME NEW id \in Campaigns
      PROVE  /\ Amount(Bound(pledges', id)) =
                   IF id = k THEN Amount(Bound(pledges, id)) - amount ELSE Amount(Bound(pledges, id))
             /\ Amount(Bound(pledges, id)) \in Nat
  <2>1. /\ Amount(Bound(pledges', id)) =
              Amount(Bound(pledges, id)) - Amount(Bound(tx.pledgeIn, id))
                 + Amount(Bound(tx.pledgeOut, id))
        /\ Amount(Bound(pledges, id)) \in Nat
    BY <1>1, HeldAfter
  <2>2. Bound(tx.pledgeOut, id) = {}
    BY DEF SettlesPledges, Bound
  <2>3. Amount(Bound(tx.pledgeIn, id)) = IF id = k THEN amount ELSE 0
    BY <1>5, AmountEmpty
  <2>. HIDE DEF amount, k
  <2>. QED BY <1>6, <2>1, <2>2, <2>3, AmountEmpty
<1>8. ASSUME NEW how, NEW id \in Campaigns
      PROVE  Amount(Settled(id, {how})') =
                IF how = HowSettled(tx) /\ id = k THEN Amount(Settled(id, {how})) + amount
                ELSE Amount(Settled(id, {how}))
  <2>1. /\ Amount(Settled(id, {how})') =
              Amount(Settled(id, {how})) + IF SettlesPledges(tx) /\ HowSettled(tx) \in {how}
                                           THEN Amount(Bound(tx.pledgeIn, id)) ELSE 0
        /\ Amount(Settled(id, {how})) \in Nat
    BY <1>1, SettledSum
  <2>2. Amount(Bound(tx.pledgeIn, id)) = IF id = k THEN amount ELSE 0
    BY <1>5, AmountEmpty
  <2>. HIDE DEF amount, k
  <2>. QED BY <2>1, <2>2
<1>. HIDE DEF amount, k, P
<1>9. Held' = [Held EXCEPT ![k] = @ - amount]
  BY <1>4, <1>7 DEF Held
<1>10. ASSUME NEW how
       PROVE  PaidBy(how)' = IF how = HowSettled(tx) THEN [PaidBy(how) EXCEPT ![k] = @ + amount]
                             ELSE PaidBy(how)
  BY <1>4, <1>8 DEF PaidBy
<1>11. amount \in 1 .. Held[k]
  BY <1>4, <1>6, <1>7 DEF Held
<1>. QED BY <1>4, <1>9, <1>10, <1>11 DEF k

LEMMA SettleStep ==
    ASSUME LedgerInv, NEW tx, ClientCommit(tx), SettlesPledges(tx)
    PROVE  Accounts!Next
<1>1. TypeOK /\ IInv /\ OneCampaignCell /\ tx \in Transaction /\ Commit(tx)
  BY DEF LedgerInv, IInv, ClientCommit
<1>2. PICK p \in tx.pledgeIn : TRUE
  BY DEF SettlesPledges
<1>. DEFINE k == p.campaign
<1>3. PICK amount \in 1 .. Held[k] :
         /\ k \in Campaigns
         /\ Held' = [Held EXCEPT ![k] = @ - amount]
         /\ \A how : PaidBy(how)' = IF how = HowSettled(tx)
                                    THEN [PaidBy(how) EXCEPT ![k] = @ + amount]
                                    ELSE PaidBy(how)
  BY SettlementMoves
<1>4. Phase' = Phase /\ Terms' = Terms /\ height' = height
  BY PhasesStay, HeightStays DEF SettlesPledges
<1>5. tx.pledgeIn # {} /\ tx.pledgeOut = {}
  BY DEF SettlesPledges
<1>6. CASE HowSettled(tx) = "released"
  <2>1. PICK c \in campaigns : c.status = "Success" /\ \A q \in tx.pledgeIn : q.campaign = c.id
    BY <1>1, <1>5, <1>6, SettlementCampaign
  <2>2. Phase[k] = "Success"
    BY <1>1, <1>3, <2>1, LiveAccount DEF Phase
  <2>3. /\ PaidBy("released")' = [PaidBy("released") EXCEPT ![k] = @ + amount]
        /\ PaidBy("refunded")' = PaidBy("refunded") /\ PaidBy("rescued")' = PaidBy("rescued")
    BY <1>3, <1>6
  <2>. HIDE DEF k
  <2>4. Accounts!PayOut(k)
    BY <1>3, <1>4, <2>2, <2>3 DEF Accounts!PayOut, Accounts!MoveTo, Phase, Terms, Held
  <2>. QED BY <1>3, <2>4 DEF Accounts!Next
<1>7. CASE HowSettled(tx) = "refunded"
  <2>1. PICK c \in campaigns : c.status = "Failed" /\ \A q \in tx.pledgeIn : q.campaign = c.id
    BY <1>1, <1>5, <1>7, SettlementCampaign
  <2>2. Phase[k] = "Failed"
    BY <1>1, <1>3, <2>1, LiveAccount DEF Phase
  <2>3. /\ PaidBy("refunded")' = [PaidBy("refunded") EXCEPT ![k] = @ + amount]
        /\ PaidBy("released")' = PaidBy("released") /\ PaidBy("rescued")' = PaidBy("rescued")
    BY <1>3, <1>7
  <2>. HIDE DEF k
  <2>4. Accounts!Return(k)
    BY <1>3, <1>4, <2>2, <2>3 DEF Accounts!Return, Accounts!MoveTo, Phase, Terms, Held
  <2>. QED BY <1>3, <2>4 DEF Accounts!Next
<1>8. CASE HowSettled(tx) = "rescued"
  <2>1. p \in pledges /\ p.deadline \in U64
    BY <1>1, CommitEffect DEF TypeOK, PledgeCell
  <2>2. GraceOver(p)
    BY <1>1, <1>5, <1>8, <2>1, RescueScript, GraceReached
  <2>3. \/ Phase[k] = "Gone"
        \/ height >= Terms[k].deadline + GRACE_PERIOD_BLOCKS
    <3>1. CASE CellsOf(k) = {}
      <4>1. k \in minted
        BY <1>1, <2>1 DEF IInv, CampaignsMinted
      <4>. QED BY <1>3, <3>1, <4>1 DEF Phase, PhaseOf
    <3>2. CASE CellsOf(k) # {}
      <4>1. PICK c \in campaigns : c.id = k
        BY <3>2 DEF CellsOf
      <4>2. c.deadline = p.deadline
        BY <1>1, <2>1, <4>1 DEF IInv, DeadlinesAgree
      <4>3. Terms[k].deadline = c.deadline
        <5>1. TermsOf(k) = [goal |-> c.goal, deadline |-> c.deadline]
          BY <1>1, <4>1, LiveAccount
        <5>. QED BY <1>3, <5>1 DEF Terms
      <4>. QED BY <2>2, <4>2, <4>3 DEF GraceOver
    <3>. QED BY <3>1, <3>2
  <2>4. /\ PaidBy("rescued")' = [PaidBy("rescued") EXCEPT ![k] = @ + amount]
        /\ PaidBy("released")' = PaidBy("released") /\ PaidBy("refunded")' = PaidBy("refunded")
    BY <1>3, <1>8
  <2>. HIDE DEF k
  <2>5. Accounts!Rescue(k)
    BY <1>3, <1>4, <2>3, <2>4
       DEF Accounts!Rescue, Accounts!RescueOpen, Accounts!MoveTo, Phase, Terms, Held
  <2>. QED BY <1>3, <2>5 DEF Accounts!Next
<1>9. HowSettled(tx) \in {"released", "refunded", "rescued"}
  BY DEF HowSettled
<1>. QED BY <1>6, <1>7, <1>8, <1>9

-----------------------------------------------------------------------------
(* The refinement                                                           *)

LEMMA SameCellsSameAccounts ==
    ASSUME campaigns' = campaigns, minted' = minted, pledges' = pledges,
           settlements' = settlements
    PROVE  /\ Phase' = Phase /\ Terms' = Terms /\ Held' = Held
           /\ \A how : PaidBy(how)' = PaidBy(how)
<1>1. \A id : PhaseOf(id)' = PhaseOf(id) /\ TermsOf(id)' = TermsOf(id)
  BY AccountStays
<1>2. Phase' = Phase /\ Terms' = Terms
  BY <1>1 DEF Phase, Terms
<1>3. \A id, how : Settled(id, how)' = Settled(id, how)
  BY DEF Settled
<1>4. \A how : PaidBy(how)' = PaidBy(how)
  BY <1>3 DEF PaidBy
<1>. QED BY <1>2, <1>4 DEF Held

\* A block makes the accounts wait, until heights are no longer told apart.
LEMMA BlockStep ==
    ASSUME LedgerInv, NewBlock
    PROVE  Accounts!Next \/ UNCHANGED Accounts!vars
<1>1. /\ Phase' = Phase /\ Terms' = Terms /\ Held' = Held
      /\ \A how : PaidBy(how)' = PaidBy(how)
  BY SameCellsSameAccounts DEF NewBlock
<1>2. height \in 0 .. Horizon
  BY DEF LedgerInv, IInv, TypeOK
<1>3. CASE height < Horizon
  <2>1. height' = height + 1 /\ height < U64Max
    BY <1>2, <1>3, FormsAssumption, BlockAssumption, U64Assumption DEF NewBlock, U64
  <2>2. Accounts!Wait
    BY <1>1, <2>1 DEF Accounts!Wait, Phase, Terms, Held
  <2>. QED BY <2>2 DEF Accounts!Next
<1>4. CASE ~(height < Horizon)
  <2>1. height' = height
    BY <1>2, <1>4, FormsAssumption, BlockAssumption, U64Assumption DEF NewBlock, U64
  <2>. QED BY <1>1, <2>1 DEF Accounts!vars, Phase, Terms, Held
<1>. QED BY <1>3, <1>4

LEMMA EscrowStep ==
    LedgerInv /\ LedgerInv' /\ [Next]_vars => [Accounts!Next]_(Accounts!vars)
<1>. SUFFICES ASSUME LedgerInv, LedgerInv', [Next]_vars
              PROVE  Accounts!Next \/ UNCHANGED Accounts!vars
  OBVIOUS
<1>1. CASE UNCHANGED vars
  <2>1. /\ Phase' = Phase /\ Terms' = Terms /\ Held' = Held
        /\ \A how : PaidBy(how)' = PaidBy(how)
    BY <1>1, SameCellsSameAccounts DEF vars
  <2>. QED BY <1>1, <2>1 DEF vars, Accounts!vars, Phase, Terms, Held
<1>2. CASE NewBlock
  BY <1>2, BlockStep
<1>3. ASSUME NEW tx, ClientCommit(tx)
      PROVE  Accounts!Next \/ UNCHANGED Accounts!vars
  <2>1. CASE MovesCampaign(tx)
    BY <1>3, <2>1, MoveStep
  <2>2. CASE MakesPledge(tx)
    <3>1. \E k \in Campaigns : Accounts!Contribute(k)
      BY <1>3, <2>2, ContributeStep
    <3>. QED BY <3>1 DEF Accounts!Next
  <2>3. CASE MergesPledges(tx) \/ TakesReceipts(tx)
    BY <1>3, <2>3, StutterStep
  <2>4. CASE SettlesPledges(tx)
    BY <1>3, <2>4, SettleStep
  <2>. QED BY <1>3, <2>1, <2>2, <2>3, <2>4 DEF ClientCommit, Kind
<1>. QED BY <1>1, <1>2, <1>3, StepKind

\* The cells and scripts, whoever sends what in which order, implement an escrow
\* account per campaign: money comes in while it is open, is decided by what
\* really came in, goes to the creator only or to the backers only, or is
\* rescued after the grace period (all five scripts and the clients'
\* transactions, against module Escrow).
THEOREM LedgerImplementsEscrow == Spec => ImplementsEscrow
<1>1. Init => Accounts!Init
  BY EscrowInitial
<1>2. LedgerInv /\ LedgerInv' /\ [Next]_vars => [Accounts!Next]_(Accounts!vars)
  BY EscrowStep
<1>. QED BY <1>1, <1>2, LedgerInvHolds, PTL DEF Spec, ImplementsEscrow, Accounts!Spec

=============================================================================
