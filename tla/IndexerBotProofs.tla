--------------------------- MODULE IndexerBotProofs ---------------------------
(***************************************************************************)
(* Proofs about IndexerBot, for all values of its constants: any number of *)
(* campaigns, pledges, overlapping cycles and faults.                      *)
(***************************************************************************)
EXTENDS IndexerBot, FiniteSetTheorems, TLAPS

\* A step of the chain, which no cycle takes part in.
ChainStep ==
    \/ \E tx \in Tx : Land(tx)
    \/ \E p \in Pledges, i \in Campaigns : Back(p, i)
    \/ \E i \in Campaigns : Tick(i) \/ Destroy(i)
    \/ \E p \in pledges : Rescue(p)

CycleStep(c) == StartCycle(c) \/ Step(c) \/ IndexFails(c)

LEMMA StepKinds ==
    ASSUME TypeOK, Next
    PROVE  \/ ChainStep
           \/ \E tx \in pool : Drop(tx)
           \/ \E c \in Cycles : CycleStep(c)
           \/ Restart
<1>1. CASE \E tx \in pool : Mine(tx)
  BY <1>1 DEF Mine, TypeOK, ChainStep
<1>2. CASE Outsider
  <2>1. \A i \in Campaigns :
           [kind |-> "finalize", id |-> i, ver |-> camp[i].ver, pledge |-> NoPledge] \in Tx
    BY DEF TypeOK, Tx
  <2>2. \A kind \in {"release", "refund"}, p \in pledges :
           [kind |-> kind, id |-> p.campaign, ver |-> camp[p.campaign].ver, pledge |-> p.id] \in Tx
    BY DEF TypeOK, Tx, PledgeRow
  <2>. QED BY <1>2, <2>1, <2>2 DEF Outsider, ChainStep
<1>3. CASE \E c \in Polls : StartCycle(c)
  BY <1>3 DEF Cycles, CycleStep
<1>4. CASE \/ \E p \in Pledges, i \in Campaigns : Back(p, i)
           \/ \E i \in Campaigns : Tick(i) \/ Destroy(i)
           \/ \E p \in pledges : Rescue(p)
  BY <1>4 DEF ChainStep
<1>5. CASE \E c \in Cycles : Step(c) \/ IndexFails(c)
  BY <1>5 DEF CycleStep
<1>. QED BY <1>1, <1>2, <1>3, <1>4, <1>5 DEF Next

\* What a chain step leaves alone.
LEMMA ChainStepFrame ==
    ASSUME ChainStep
    PROVE  UNCHANGED <<dropped, database, lookups, inFlight, pc, hands, faults>>
  BY DEF ChainStep, Land, Back, Tick, Destroy, Rescue, node

\* What any other step leaves alone.
LEMMA CycleStepFrame ==
    ASSUME NEW c, CycleStep(c)
    PROVE  UNCHANGED <<chain, dropped>>
  BY DEF CycleStep, StartCycle, Step, IndexFails, ReadCampaigns, ReadPledges, Store, Scan,
         Finalize, EndFinalize, OpenCampaign, TakeJob, Settle, EndPhase, node

-----------------------------------------------------------------------------
(* Types                                                                    *)

LEMMA TypeOKInitial == Init => TypeOK
<1>. SUFFICES ASSUME Init
              PROVE  TypeOK
  OBVIOUS
<1>1. /\ camp \in [Campaigns -> [ver : Nat, status : Status]]
      /\ clock \in [Campaigns -> 0 .. 2]
      /\ faults \in 0 .. MaxFaults
  BY FaultsAssumption DEF Init, Status
<1>2. /\ pc \in [Cycles -> Phases]
      /\ rows \in [Cycles -> SUBSET CampaignRow]
      /\ listed \in [Cycles -> SUBSET PledgeRow]
      /\ jobs \in [Cycles -> SUBSET Job]
      /\ task \in [Cycles -> SUBSET Job]
  BY DEF Init, Phases
<1>3. DOMAIN origin \subseteq Campaigns /\ \A i \in DOMAIN origin : origin[i] \in Nat
  BY DEF Init
<1>. QED BY <1>1, <1>2, <1>3 DEF Init, TypeOK

LEMMA TypeOKChain == TypeOK /\ ChainStep => TypeOK'
<1>. SUFFICES ASSUME TypeOK, ChainStep
              PROVE  TypeOK'
  OBVIOUS
<1>1. UNCHANGED <<dropped, database, lookups, inFlight, pc, hands, faults>>
  BY ChainStepFrame
<1>2. /\ camp' \in [Campaigns -> [ver : Nat, status : Status]]
      /\ clock' \in [Campaigns -> 0 .. 2]
      /\ pledges' \subseteq PledgeRow
      /\ used' \subseteq Pledges
      /\ pool' \subseteq Tx
  <2>1. CASE \E tx \in Tx : Land(tx)
    <3>1. PICK tx \in Tx : Land(tx)
      BY <2>1
    <3>2. Outcome(tx.id) \in Status /\ tx.id \in Campaigns
      BY DEF Outcome, Status, Terminal, Tx
    <3>3. camp' \in [Campaigns -> [ver : Nat, status : Status]]
      BY <3>1, <3>2 DEF Land, TypeOK
    <3>. QED BY <3>1, <3>3 DEF Land, Evict, TypeOK
  <2>2. CASE \E p \in Pledges, i \in Campaigns : Back(p, i)
    BY <2>2 DEF Back, Evict, TypeOK, PledgeRow
  <2>3. CASE \E i \in Campaigns : Tick(i)
    BY <2>3 DEF Tick, TypeOK, node
  <2>4. CASE \E i \in Campaigns : Destroy(i)
    BY <2>4 DEF Destroy, Evict, TypeOK, Status
  <2>5. CASE \E p \in pledges : Rescue(p)
    BY <2>5 DEF Rescue, Evict, TypeOK
  <2>. QED BY <2>1, <2>2, <2>3, <2>4, <2>5 DEF ChainStep
<1>. QED BY <1>1, <1>2 DEF TypeOK, database, lookups, hands

\* Where a walk ends is a version.
LEMMA WalkType ==
    ASSUME NEW R, R \subseteq CampaignRow, NEW walk \in Walks(R), NEW r \in R
    PROVE  walk[r.id] \in Nat
<1>1. r.ver \in Nat /\ walk[r.id] \in Walk(r.ver) .. r.ver
  BY DEF Walks, CampaignRow
<1>2. Walk(r.ver) \in Nat
  BY <1>1, HopsAssumption DEF Walk
<1>. QED BY <1>1, <1>2

LEMMA TypeOKStore == ASSUME TypeOK, NEW c \in Cycles, Store(c) PROVE TypeOK'
<1>. DEFINE R == rows[c]
            U == {r \in R : r.id \notin DOMAIN origin}
            Missed(failed, walk) == failed \cup {r.id : r \in {q \in U : walk[q.id] # Walk(q.ver)}}
            Beside(walk) == {r.id : r \in {q \in U : walk[q.id] # 0}}
<1>1. PICK failed \in SUBSET {r.id : r \in U}, walk \in Walks(U), written \in BOOLEAN :
          /\ Fault(Cardinality(Missed(failed, walk)) + IF written THEN 0 ELSE 1)
          /\ origin' = Remembered(R, failed, walk)
          /\ strayed' = strayed \cup (Beside(walk) \ failed)
          /\ IF written
             THEN /\ dbRows' = Resolved(R, failed, walk)
                  /\ dbPledges' = listed[c]
                  /\ ready' = TRUE
             ELSE UNCHANGED database
  BY DEF Store
<1>2. R \subseteq CampaignRow /\ U \subseteq CampaignRow
  BY DEF TypeOK
<1>3. /\ \A r \in R : r.ver \in Nat /\ r.id \in Campaigns /\ OriginOf(r, walk) \in Nat
      /\ \A r \in U : walk[r.id] \in Nat
  <2>1. \A r \in R : r.ver \in Nat /\ r.id \in Campaigns
    BY <1>2 DEF CampaignRow
  <2>2. \A r \in U : walk[r.id] \in Nat
    BY <1>2, WalkType
  <2>. QED BY <2>1, <2>2 DEF TypeOK, OriginOf
<1>4. Resolved(R, failed, walk) \subseteq CampaignRow
  BY <1>2, <1>3 DEF Resolved, CampaignRow
<1>5. DOMAIN origin' \subseteq Campaigns /\ \A i \in DOMAIN origin' : origin'[i] \in Nat
  <2>1. DOMAIN origin' = DOMAIN origin \cup ({r.id : r \in R} \ failed)
    BY <1>1 DEF Remembered
  <2>2. ASSUME NEW i \in DOMAIN origin' PROVE origin'[i] \in Nat
    <3>1. CASE i \in DOMAIN origin
      BY <1>1, <2>1, <3>1 DEF Remembered, TypeOK
    <3>2. CASE i \notin DOMAIN origin
      <4>1. PICK r \in U : r.id = i
        BY <2>1, <2>2, <3>2
      <4>2. walk[i] \in Nat
        BY <1>3, <4>1
      <4>. QED BY <1>1, <2>1, <3>2, <4>2 DEF Remembered
    <3>. QED BY <3>1, <3>2
  <2>. QED BY <1>3, <2>1, <2>2 DEF TypeOK
<1>6. faults' \in 0 .. MaxFaults /\ strayed' \subseteq Campaigns
  <2>1. Missed(failed, walk) \subseteq Campaigns /\ Beside(walk) \subseteq Campaigns
    BY <1>3
  <2>2. Cardinality(Missed(failed, walk)) \in Nat
    BY <2>1, CampaignsAssumption, FS_Subset, FS_CardinalityType
  <2>. HIDE DEF Missed, Beside
  <2>. QED BY <1>1, <2>1, <2>2, FaultsAssumption DEF Fault, TypeOK
<1>7. dbRows' \subseteq CampaignRow /\ dbPledges' \subseteq PledgeRow /\ ready' \in BOOLEAN
  <2>1. CASE written
    <3>1. dbRows' \subseteq CampaignRow /\ dbPledges' \subseteq PledgeRow
      BY <1>1, <1>4, <2>1 DEF TypeOK
    <3>2. ready' = TRUE
      BY <1>1, <2>1
    <3>. QED BY <3>1, <3>2
  <2>2. CASE ~written
    BY <1>1, <2>2, Zenon DEF TypeOK, database
  <2>. QED BY <2>1, <2>2
<1>8. pc' \in [Cycles -> Phases] /\ rows' \in [Cycles -> SUBSET CampaignRow]
      /\ listed' \in [Cycles -> SUBSET PledgeRow]
  BY DEF Store, TypeOK, Phases
<1>9. /\ UNCHANGED <<camp, clock, pledges, used, pool, dropped>>
      /\ UNCHANGED <<inFlight, jobs, task>>
  BY DEF Store, chain, node
<1>. QED BY <1>5, <1>6, <1>7, <1>8, <1>9 DEF TypeOK

LEMMA EnterType ==
    ASSUME TypeOK, NEW c \in Cycles, NEW phase \in {"release", "refund"}, Enter(c, phase)
    PROVE  pc' \in [Cycles -> Phases] /\ rows' \in [Cycles -> SUBSET CampaignRow]
  BY DEF Enter, DecidedRows, TypeOK, Phases

LEMMA TypeOKCycle == ASSUME TypeOK, NEW c \in Cycles, CycleStep(c) PROVE TypeOK'
<1>. USE DEF chain, node, database, lookups, hands
<1>1. CASE StartCycle(c)
  BY <1>1 DEF StartCycle, TypeOK, Phases
<1>2. CASE ReadCampaigns(c)
  <2>1. LiveCampaigns \subseteq CampaignRow
    BY DEF LiveCampaigns, TypeOK, CampaignRow
  <2>. QED BY <1>2, <2>1 DEF ReadCampaigns, TypeOK, Phases
<1>3. CASE ReadPledges(c)
  BY <1>3 DEF ReadPledges, TypeOK, Phases
<1>4. CASE Store(c)
  BY <1>4, TypeOKStore
<1>5. CASE Scan(c)
  <2>1. faults' \in 0 .. MaxFaults
    BY <1>5, FaultsAssumption DEF Scan, Fault, TypeOK
  <2>2. pc' \in [Cycles -> Phases] /\ rows' \in [Cycles -> SUBSET CampaignRow]
    <3>1. CASE Enter(c, "release")
      BY <3>1, EnterType
    <3>2. CASE rows' = [rows EXCEPT ![c] = ExpiredRows] /\ pc' = [pc EXCEPT ![c] = "finalize"]
      BY <3>2 DEF ExpiredRows, TypeOK, Phases
    <3>. QED BY <1>5, <3>1, <3>2 DEF Scan
  <2>. QED BY <1>5, <2>1, <2>2 DEF Scan, TypeOK
<1>6. CASE \E r \in rows[c] : Finalize(c, r)
  <2>1. PICK r \in rows[c] : Finalize(c, r)
    BY <1>6
  <2>. DEFINE tx == [kind |-> "finalize", id |-> r.id, ver |-> camp[r.id].ver, pledge |-> NoPledge]
  <2>2. tx \in Tx
    BY <2>1 DEF TypeOK, CampaignRow, Tx
  <2>3. pool' \subseteq Tx /\ faults' \in 0 .. MaxFaults
    BY <2>1, <2>2, FaultsAssumption DEF Finalize, Fault, TypeOK
  <2>. QED BY <2>1, <2>3 DEF Finalize, TypeOK
<1>7. CASE EndFinalize(c)
  <2>1. pc' \in [Cycles -> Phases] /\ rows' \in [Cycles -> SUBSET CampaignRow]
    BY <1>7, EnterType DEF EndFinalize
  <2>. QED BY <1>7, <2>1 DEF EndFinalize, TypeOK
<1>8. CASE \E r \in rows[c] : OpenCampaign(c, r)
  <2>1. PICK r \in rows[c] : OpenCampaign(c, r)
    BY <1>8
  <2>2. {[row |-> r, pledge |-> p] : p \in Linked(r)} \subseteq Job
    BY DEF Linked, TypeOK, Job
  <2>. QED BY <2>1, <2>2 DEF OpenCampaign, TypeOK
<1>9. CASE \E j \in jobs[c] : TakeJob(c, j)
  BY <1>9 DEF TakeJob, TypeOK
<1>10. CASE \E j \in task[c] : Settle(c, j)
  <2>1. PICK j \in task[c] : Settle(c, j)
    BY <1>10
  <2>. DEFINE tx == [kind |-> pc[c], id |-> j.row.id, ver |-> j.row.ver, pledge |-> j.pledge.id]
  <2>2. j \in Job
    BY DEF TypeOK
  <2>3. tx \in Tx
    BY <2>1, <2>2 DEF Job, CampaignRow, PledgeRow, Settle, Tx
  <2>4. pool' \subseteq Tx /\ faults' \in 0 .. MaxFaults
    BY <2>1, <2>3, FaultsAssumption DEF Settle, Fault, TypeOK
  <2>5. inFlight' \subseteq Pledges
    BY <2>1, <2>2 DEF Settle, TypeOK, Job, PledgeRow
  <2>. QED BY <2>1, <2>4, <2>5 DEF Settle, TypeOK
<1>11. CASE EndPhase(c)
  <2>1. pc' \in [Cycles -> Phases] /\ rows' \in [Cycles -> SUBSET CampaignRow]
    BY <1>11, EnterType DEF EndPhase, TypeOK, Phases
  <2>. QED BY <1>11, <2>1 DEF EndPhase, TypeOK
<1>12. CASE IndexFails(c)
  BY <1>12, FaultsAssumption DEF IndexFails, Fault, TypeOK, Phases
<1>. QED BY <1>1, <1>2, <1>3, <1>4, <1>5, <1>6, <1>7, <1>8, <1>9, <1>10, <1>11, <1>12
         DEF CycleStep, Step

LEMMA TypeOKStep == TypeOK /\ [Next]_vars => TypeOK'
<1>. SUFFICES ASSUME TypeOK, [Next]_vars
              PROVE  TypeOK'
  OBVIOUS
<1>1. CASE UNCHANGED vars
  BY <1>1 DEF vars, chain, node, database, lookups, hands, TypeOK
<1>2. CASE ChainStep
  BY <1>2, TypeOKChain
<1>3. CASE \E tx \in pool : Drop(tx)
  <2>1. PICK tx \in pool : Drop(tx)
    BY <1>3
  <2>2. dropped' \subseteq Pledges
    BY <2>1 DEF Drop, TypeOK, Tx
  <2>3. faults' \in 0 .. MaxFaults
    BY <2>1, FaultsAssumption DEF Drop, Fault, TypeOK
  <2>. QED BY <2>1, <2>2, <2>3 DEF Drop, TypeOK, chain, database, lookups, hands
<1>4. CASE \E c \in Cycles : CycleStep(c)
  BY <1>4, TypeOKCycle
<1>5. CASE Restart
  <2>1. faults' \in 0 .. MaxFaults
    BY <1>5, FaultsAssumption DEF Restart, Fault, TypeOK
  <2>2. pc' \in [Cycles -> Phases]
    BY <1>5 DEF Restart, Phases
  <2>3. DOMAIN origin' \subseteq Campaigns /\ \A i \in DOMAIN origin' : origin'[i] \in Nat
    BY <1>5 DEF Restart
  <2>4. ready' \in BOOLEAN
    BY <1>5 DEF Restart
  <2>. QED BY <1>5, <2>1, <2>2, <2>3, <2>4 DEF Restart, TypeOK, chain, node
<1>. QED BY <1>1, <1>2, <1>3, <1>4, <1>5, StepKinds

\* The loop's state is well-typed in every reachable state.
THEOREM BotTypeCorrect == Spec => []TypeOK
  BY TypeOKInitial, TypeOKStep, PTL DEF Spec

-----------------------------------------------------------------------------
(* What the chain does to campaigns and pledges                             *)

\* Only an Active campaign moves, and a decided one only disappears.
Advances(i) ==
    \/ camp'[i] = camp[i]
    \/ camp[i].status = "Active" /\ camp[i].ver <= camp'[i].ver
    \/ camp[i].ver = camp'[i].ver /\ camp'[i].status = "Gone"

LEMMA CampaignsAdvance ==
    ASSUME TypeOK, ChainStep
    PROVE  \A i \in Campaigns : Advances(i)
<1>1. CASE \E tx \in Tx : Land(tx)
  <2>1. PICK tx \in Tx : Land(tx)
    BY <1>1
  <2>2. tx.id \in Campaigns
    BY DEF Tx
  <2>. QED BY <2>1, <2>2 DEF Land, Valid, TypeOK, Advances
<1>2. CASE \E p \in Pledges, i \in Campaigns : Back(p, i)
  BY <1>2 DEF Back, TypeOK, Advances
<1>3. CASE \E i \in Campaigns : Tick(i)
  BY <1>3 DEF Tick, Advances
<1>4. CASE \E i \in Campaigns : Destroy(i)
  BY <1>4 DEF Destroy, TypeOK, Advances
<1>5. CASE \E p \in pledges : Rescue(p)
  BY <1>5 DEF Rescue, Advances
<1>. QED BY <1>1, <1>2, <1>3, <1>4, <1>5 DEF ChainStep

\* A pledge that appears is counted by the next version of its campaign.
Arrives(p) ==
    /\ p.id \notin used
    /\ p.id \in used'
    /\ p.at > camp[p.campaign].ver
    /\ camp[p.campaign].status = "Active"

LEMMA PledgesArrive ==
    ASSUME TypeOK, ChainStep
    PROVE  /\ \A p \in pledges' : p \in pledges \/ Arrives(p)
           /\ \A p, q \in pledges' \ pledges : p = q
           /\ used \subseteq used'
<1>1. CASE \E p \in Pledges, i \in Campaigns : Back(p, i)
  <2>1. PICK p \in Pledges, i \in Campaigns : Back(p, i)
    BY <1>1
  <2>. DEFINE new == [id |-> p, campaign |-> i, at |-> camp[i].ver + 1]
  <2>2. pledges' = pledges \cup {new} /\ used' = used \cup {p}
    BY <2>1 DEF Back
  <2>3. Arrives(new)
    BY <2>1, <2>2 DEF Back, Arrives, TypeOK
  <2>. QED BY <2>2, <2>3
<1>2. CASE pledges' \subseteq pledges /\ used' = used
  BY <1>2
<1>. QED BY <1>1, <1>2 DEF ChainStep, Land, Tick, Destroy, Rescue

LEMMA TruthKept ==
    ASSUME TypeOK, TypeOK', NEW r \in CampaignRow, Advances(r.id), Truthful(r)
    PROVE  Truthful(r)'
<1>1. /\ r.id \in Campaigns /\ r.ver \in Nat
      /\ camp[r.id].ver \in Nat /\ camp'[r.id].ver \in Nat
  BY DEF CampaignRow, TypeOK
<1>. QED BY <1>1 DEF Truthful, Advances, Terminal

\* A cycle adds at most one transaction to the pool, a valid one, and marks at
\* most its pledge.
LEMMA CycleSends ==
    ASSUME TypeOK, NEW c \in Cycles, CycleStep(c)
    PROVE  \/ pool' = pool /\ inFlight' \subseteq inFlight
           \/ \E tx \in Tx :
                 /\ Valid(tx, camp, pledges)
                 /\ pool' = pool \cup {tx}
                 /\ \/ inFlight' = inFlight
                    \/ tx.kind # "finalize" /\ inFlight' = inFlight \cup {tx.pledge}
<1>. USE DEF node
<1>1. CASE \E r \in rows[c] : Finalize(c, r)
  <2>1. PICK r \in rows[c] : Finalize(c, r)
    BY <1>1
  <2>. DEFINE tx == [kind |-> "finalize", id |-> r.id, ver |-> camp[r.id].ver, pledge |-> NoPledge]
  <2>2. tx \in Tx
    BY <2>1 DEF TypeOK, CampaignRow, Tx
  <2>. QED BY <2>1, <2>2 DEF Finalize, Accepts
<1>2. CASE \E j \in task[c] : Settle(c, j)
  <2>1. PICK j \in task[c] : Settle(c, j)
    BY <1>2
  <2>. DEFINE tx == [kind |-> pc[c], id |-> j.row.id, ver |-> j.row.ver, pledge |-> j.pledge.id]
  <2>2. j \in Job
    BY DEF TypeOK
  <2>3. tx \in Tx /\ tx.kind # "finalize" /\ tx.pledge = j.pledge.id
    BY <2>1, <2>2 DEF Job, CampaignRow, PledgeRow, Settle, Tx
  <2>. QED BY <2>1, <2>3 DEF Settle, Accepts
<1>3. CASE StartCycle(c) \/ ReadCampaigns(c) \/ ReadPledges(c) \/ Store(c) \/ IndexFails(c)
  BY <1>3 DEF StartCycle, ReadCampaigns, ReadPledges, Store, IndexFails
<1>4. CASE Scan(c) \/ EndFinalize(c) \/ EndPhase(c)
  BY <1>4 DEF Scan, EndFinalize, EndPhase
<1>5. CASE \/ \E r \in rows[c] : OpenCampaign(c, r)
           \/ \E j \in jobs[c] : TakeJob(c, j)
  BY <1>5 DEF OpenCampaign, TakeJob
<1>. QED BY <1>1, <1>2, <1>3, <1>4, <1>5 DEF CycleStep, Step

\* A valid settlement spends a live pledge of the campaign that it cites.
LEMMA ValidSpends ==
    ASSUME NEW tx \in Tx, tx.kind # "finalize", Valid(tx, camp, pledges)
    PROVE  /\ \E p \in pledges : p.id = tx.pledge /\ p.campaign = tx.id
           /\ camp[tx.id].status \in Terminal
  BY DEF Valid, Cites, Terminal

LEMMA PledgesDistinctStep ==
    ASSUME TypeOK, PledgesDistinct, Next
    PROVE  PledgesDistinct'
<1>1. CASE ChainStep
  <2>1. inFlight' = inFlight
    BY <1>1, ChainStepFrame
  <2>. QED BY <1>1, <2>1, PledgesArrive DEF PledgesDistinct, Arrives
<1>2. CASE \E c \in Cycles : CycleStep(c)
  <2>1. PICK c \in Cycles : CycleStep(c)
    BY <1>2
  <2>2. UNCHANGED chain
    BY <2>1, CycleStepFrame
  <2>3. inFlight' \subseteq used
    BY <2>1, CycleSends, ValidSpends DEF PledgesDistinct
  <2>. QED BY <2>2, <2>3 DEF chain, PledgesDistinct
<1>3. CASE \E tx \in pool : Drop(tx)
  BY <1>3 DEF Drop, chain, PledgesDistinct
<1>4. CASE Restart
  BY <1>4 DEF Restart, chain, PledgesDistinct
<1>. QED BY <1>1, <1>2, <1>3, <1>4, StepKinds

-----------------------------------------------------------------------------
(* Rows tell the truth                                                      *)

\* Where the rows in hand and those in the table come from.
LEMMA RowsFrom ==
    ASSUME TypeOK, NEW c \in Cycles, CycleStep(c)
    PROVE  /\ \A d \in Cycles : \A r \in rows'[d] :
                 r \in rows[d] \/ r \in LiveCampaigns \/ r \in dbRows
           /\ \A r \in dbRows' :
                 \/ r \in dbRows
                 \/ \E q \in rows[c] : /\ q.id = r.id /\ q.ver = r.ver
                                       /\ q.status = r.status
<1>. USE DEF TypeOK, hands, database
<1>1. CASE ReadCampaigns(c)
  BY <1>1 DEF ReadCampaigns
<1>2. CASE Store(c)
  <2>1. \A d \in Cycles : \A r \in rows'[d] : r \in rows[d]
    BY <1>2 DEF Store
  <2>2. PICK failed, walk : dbRows' = Resolved(rows[c], failed, walk) \/ dbRows' = dbRows
    BY <1>2 DEF Store
  <2>3. \A r \in Resolved(rows[c], failed, walk) :
           \E q \in rows[c] : q.id = r.id /\ q.ver = r.ver /\ q.status = r.status
    BY DEF Resolved, CampaignRow
  <2>. QED BY <2>1, <2>2, <2>3
<1>3. CASE Scan(c)
  BY <1>3 DEF Scan, Enter, DecidedRows, ExpiredRows
<1>4. CASE EndFinalize(c)
  BY <1>4 DEF EndFinalize, Enter, DecidedRows
<1>5. CASE EndPhase(c)
  BY <1>5 DEF EndPhase, Enter, DecidedRows
<1>6. CASE StartCycle(c) \/ ReadPledges(c) \/ IndexFails(c)
  BY <1>6 DEF StartCycle, ReadPledges, IndexFails
<1>7. CASE \E r \in rows[c] : Finalize(c, r) \/ OpenCampaign(c, r)
  BY <1>7 DEF Finalize, OpenCampaign
<1>8. CASE \/ \E j \in jobs[c] : TakeJob(c, j)
           \/ \E j \in task[c] : Settle(c, j)
  BY <1>8 DEF TakeJob, Settle
<1>. QED BY <1>1, <1>2, <1>3, <1>4, <1>5, <1>6, <1>7, <1>8 DEF CycleStep, Step

LEMMA LiveCampaignsTruthful == TypeOK => \A r \in LiveCampaigns : Truthful(r)
  BY DEF LiveCampaigns, Truthful, TypeOK

LEMMA RowsTruthfulStep ==
    ASSUME TypeOK, TypeOK', RowsTruthful, Next
    PROVE  RowsTruthful'
<1>1. CASE ChainStep
  <2>1. dbRows' = dbRows /\ rows' = rows
    BY <1>1, ChainStepFrame DEF database, hands
  <2>2. \A r \in CampaignRow : Truthful(r) => Truthful(r)'
    <3>1. \A r \in CampaignRow : r.id \in Campaigns
      BY DEF CampaignRow
    <3>. QED BY <1>1, <3>1, CampaignsAdvance, TruthKept
  <2>. QED BY <2>1, <2>2 DEF RowsTruthful, TypeOK
<1>2. CASE \E c \in Cycles : CycleStep(c)
  <2>1. PICK c \in Cycles : CycleStep(c)
    BY <1>2
  <2>2. camp' = camp
    BY <2>1, CycleStepFrame DEF chain
  <2>3. \A d \in Cycles : \A r \in rows'[d] : Truthful(r)
    BY <2>1, RowsFrom, LiveCampaignsTruthful DEF RowsTruthful
  <2>4. \A r \in dbRows' : Truthful(r)
    BY <2>1, RowsFrom DEF RowsTruthful, Truthful
  <2>. QED BY <2>2, <2>3, <2>4 DEF RowsTruthful, Truthful
<1>3. CASE \E tx \in pool : Drop(tx)
  BY <1>3 DEF Drop, chain, database, hands, RowsTruthful, Truthful
<1>4. CASE Restart
  BY <1>4 DEF Restart, chain, RowsTruthful, Truthful
<1>. QED BY <1>1, <1>2, <1>3, <1>4, StepKinds

-----------------------------------------------------------------------------
(* What a cycle settles can be cited                                        *)

LEMMA JobsCitableChain ==
    ASSUME TypeOK, TypeOK', JobsCitable, ChainStep
    PROVE  JobsCitable'
<1>1. pc' = pc /\ rows' = rows /\ jobs' = jobs /\ task' = task
  BY ChainStepFrame DEF hands
<1>2. \A r \in CampaignRow : Truthful(r) => Truthful(r)'
  <2>1. \A r \in CampaignRow : r.id \in Campaigns
    BY DEF CampaignRow
  <2>. QED BY <2>1, CampaignsAdvance, TruthKept
<1>3. \A c \in Cycles : \A j \in jobs[c] \cup task[c] : j.row \in CampaignRow
  BY DEF TypeOK, Job
<1>. QED BY <1>1, <1>2, <1>3 DEF JobsCitable, Citable

\* A cycle changes its own phase and its own hands only.
LEMMA OtherCycles ==
    ASSUME TypeOK, NEW c \in Cycles, CycleStep(c), NEW d \in Cycles, d # c
    PROVE  /\ pc'[d] = pc[d] /\ rows'[d] = rows[d] /\ listed'[d] = listed[d]
           /\ jobs'[d] = jobs[d] /\ task'[d] = task[d]
<1>. USE DEF TypeOK, hands
<1>1. CASE StartCycle(c) \/ ReadCampaigns(c) \/ ReadPledges(c) \/ IndexFails(c)
  BY <1>1 DEF StartCycle, ReadCampaigns, ReadPledges, IndexFails
<1>2. CASE Store(c)
  BY <1>2 DEF Store
<1>3. CASE Scan(c) \/ EndFinalize(c) \/ EndPhase(c)
  BY <1>3 DEF Scan, EndFinalize, EndPhase, Enter
<1>4. CASE \E r \in rows[c] : Finalize(c, r) \/ OpenCampaign(c, r)
  BY <1>4 DEF Finalize, OpenCampaign
<1>5. CASE \/ \E j \in jobs[c] : TakeJob(c, j)
           \/ \E j \in task[c] : Settle(c, j)
  BY <1>5 DEF TakeJob, Settle
<1>. QED BY <1>1, <1>2, <1>3, <1>4, <1>5 DEF CycleStep, Step

\* JobsCitable for one cycle.
CycleCitable(c) ==
    /\ jobs[c] \cup task[c] # {} => pc[c] \in {"release", "refund"}
    /\ pc[c] \in {"release", "refund"} => \A r \in rows[c] : r.status = Cites(pc[c])
    /\ \A j \in jobs[c] \cup task[c] : Citable(j, c)

LEMMA EnterCitable ==
    ASSUME TypeOK, NEW c \in Cycles, NEW phase \in {"release", "refund"}, Enter(c, phase),
           jobs'[c] = {}, task'[c] = {}
    PROVE  CycleCitable(c)'
  BY DEF Enter, DecidedRows, CycleCitable, TypeOK

LEMMA JobsCitableCycle ==
    ASSUME TypeOK, RowsTruthful, JobsCitable, NEW c \in Cycles, CycleStep(c)
    PROVE  JobsCitable'
<1>1. camp' = camp
  BY CycleStepFrame DEF chain
<1>2. \A d \in Cycles : CycleCitable(d)
  BY DEF JobsCitable, CycleCitable
<1>3. ASSUME NEW d \in Cycles, d # c PROVE CycleCitable(d)'
  BY <1>1, <1>2, <1>3, OtherCycles DEF CycleCitable, Citable, Truthful
<1>4. CycleCitable(c)'
  <2>. USE DEF TypeOK, hands
  <2>1. CASE StartCycle(c) \/ ReadCampaigns(c) \/ ReadPledges(c) \/ IndexFails(c)
    <3>1. jobs[c] = {} /\ task[c] = {}
      BY <1>2, <2>1 DEF CycleCitable, StartCycle, ReadCampaigns, ReadPledges, IndexFails
    <3>2. pc'[c] \notin {"release", "refund"} /\ jobs' = jobs /\ task' = task
      BY <2>1 DEF StartCycle, ReadCampaigns, ReadPledges, IndexFails
    <3>. QED BY <3>1, <3>2 DEF CycleCitable
  <2>2. CASE Store(c)
    <3>1. jobs[c] = {} /\ task[c] = {}
      BY <1>2, <2>2 DEF CycleCitable, Store
    <3>2. pc'[c] \notin {"release", "refund"} /\ jobs' = jobs /\ task' = task
      BY <2>2 DEF Store
    <3>. QED BY <3>1, <3>2 DEF CycleCitable
  <2>3. CASE Scan(c)
    <3>1. jobs'[c] = {} /\ task'[c] = {}
      BY <1>2, <2>3 DEF CycleCitable, Scan
    <3>2. CASE pc' = [pc EXCEPT ![c] = "finalize"]
      BY <3>1, <3>2 DEF CycleCitable
    <3>. QED BY <2>3, <3>1, <3>2, EnterCitable DEF Scan
  <2>4. CASE EndFinalize(c)
    <3>1. jobs'[c] = {} /\ task'[c] = {}
      BY <1>2, <2>4 DEF CycleCitable, EndFinalize
    <3>. QED BY <2>4, <3>1, EnterCitable DEF EndFinalize
  <2>5. CASE \E r \in rows[c] : Finalize(c, r)
    BY <1>1, <1>2, <2>5 DEF Finalize, CycleCitable, Citable, Truthful
  <2>6. CASE \E r \in rows[c] : OpenCampaign(c, r)
    <3>1. PICK r \in rows[c] : OpenCampaign(c, r)
      BY <2>6
    <3>2. pc' = pc /\ task'[c] = {} /\ rows'[c] \subseteq rows[c]
      BY <3>1 DEF OpenCampaign
    <3>3. jobs'[c] = {[row |-> r, pledge |-> p] : p \in Linked(r)}
      BY <3>1 DEF OpenCampaign
    <3>4. r.status = Cites(pc[c]) /\ Truthful(r) /\ pc[c] \in {"release", "refund"}
      BY <1>2, <3>1 DEF OpenCampaign, CycleCitable, RowsTruthful
    <3>5. \A j \in jobs'[c] : j.row = r /\ j.pledge.campaign = r.id
      BY <3>3 DEF Linked
    <3>6. \A j \in jobs'[c] : Citable(j, c)'
      BY <1>1, <3>2, <3>4, <3>5 DEF Citable, Truthful
    <3>. QED BY <1>2, <3>2, <3>4, <3>6 DEF CycleCitable
  <2>7. CASE \E j \in jobs[c] : TakeJob(c, j)
    <3>1. PICK j \in jobs[c] : TakeJob(c, j)
      BY <2>7
    <3>2. jobs'[c] \cup task'[c] \subseteq jobs[c] \cup task[c] /\ pc' = pc /\ rows' = rows
      BY <3>1 DEF TakeJob
    <3>. QED BY <1>1, <1>2, <3>2 DEF CycleCitable, Citable, Truthful
  <2>8. CASE \E j \in task[c] : Settle(c, j)
    <3>1. PICK j \in task[c] : Settle(c, j)
      BY <2>8
    <3>2. jobs'[c] \cup task'[c] \subseteq jobs[c] \cup task[c] /\ pc' = pc /\ rows' = rows
      BY <3>1 DEF Settle
    <3>. QED BY <1>1, <1>2, <3>2 DEF CycleCitable, Citable, Truthful
  <2>9. CASE EndPhase(c)
    <3>1. jobs'[c] = {} /\ task'[c] = {}
      BY <2>9 DEF EndPhase
    <3>2. CASE pc' = [pc EXCEPT ![c] = "idle"]
      BY <3>1, <3>2 DEF CycleCitable
    <3>. QED BY <2>9, <3>1, <3>2, EnterCitable DEF EndPhase
  <2>. QED BY <2>1, <2>2, <2>3, <2>4, <2>5, <2>6, <2>7, <2>8, <2>9 DEF CycleStep, Step
<1>. QED BY <1>3, <1>4 DEF JobsCitable, CycleCitable

LEMMA JobsCitableStep ==
    ASSUME TypeOK, TypeOK', RowsTruthful, JobsCitable, Next
    PROVE  JobsCitable'
<1>1. CASE \E tx \in pool : Drop(tx)
  BY <1>1 DEF Drop, chain, hands, JobsCitable, Citable, Truthful
<1>2. CASE Restart
  BY <1>2 DEF Restart, JobsCitable
<1>. QED BY <1>1, <1>2, StepKinds, JobsCitableChain, JobsCitableCycle

-----------------------------------------------------------------------------
(* Pledges that a row counts are listed                                     *)

LEMMA CountedStep ==
    ASSUME TypeOK, RowsTruthful, CountedPledgesInHand, CountedPledgesListed, Next
    PROVE  CountedPledgesInHand' /\ CountedPledgesListed'
<1>1. CASE ChainStep
  <2>1. UNCHANGED <<dbRows, dbPledges, pc, rows, listed>>
    BY <1>1, ChainStepFrame DEF database, hands
  <2>2. \A p \in pledges' : p \in pledges \/ p.at > camp[p.campaign].ver
    BY <1>1, PledgesArrive DEF Arrives
  <2>3. \A r \in CampaignRow, p \in pledges' :
           Truthful(r) /\ p.campaign = r.id /\ p.at <= r.ver => p \in pledges
    <3>1. SUFFICES ASSUME NEW r \in CampaignRow, NEW p \in pledges', p \notin pledges,
                          Truthful(r), p.campaign = r.id, p.at <= r.ver
                   PROVE  FALSE
      OBVIOUS
    <3>2. r.ver <= camp[r.id].ver /\ p.at > camp[r.id].ver
      BY <2>2, <3>1 DEF Truthful
    <3>3. p.at \in Nat /\ r.ver \in Nat /\ camp[r.id].ver \in Nat
      BY <1>1, <3>1, TypeOKChain DEF TypeOK, PledgeRow, CampaignRow
    <3>. QED BY <3>1, <3>2, <3>3
  <2>4. CountedPledgesListed'
    BY <2>1, <2>3 DEF RowsTruthful, CountedPledgesListed, TypeOK
  <2>5. CountedPledgesInHand'
    BY <2>1, <2>3 DEF RowsTruthful, CountedPledgesInHand, TypeOK
  <2>. QED BY <2>4, <2>5
<1>2. CASE \E c \in Cycles : CycleStep(c)
  <2>1. PICK c \in Cycles : CycleStep(c)
    BY <1>2
  <2>2. pledges' = pledges
    BY <2>1, CycleStepFrame DEF chain
  <2>3. CASE Store(c)
    <3>1. pc[c] = "store" /\ pc'[c] # "store"
      BY <2>3 DEF Store, TypeOK
    <3>2. CountedPledgesInHand'
      BY <2>1, <2>2, <3>1, OtherCycles DEF CountedPledgesInHand
    <3>3. CASE UNCHANGED <<dbRows, dbPledges>>
      BY <2>2, <3>2, <3>3 DEF CountedPledgesListed
    <3>4. CASE \E failed, walk : dbRows' = Resolved(rows[c], failed, walk) /\ dbPledges' = listed[c]
      <4>1. PICK failed, walk : dbRows' = Resolved(rows[c], failed, walk) /\ dbPledges' = listed[c]
        BY <3>4
      <4>2. \A r \in dbRows' : \E q \in rows[c] : q.id = r.id /\ q.ver = r.ver
        BY <4>1 DEF Resolved, TypeOK, CampaignRow
      <4>. QED BY <2>2, <3>1, <3>2, <4>1, <4>2 DEF CountedPledgesInHand, CountedPledgesListed
    <3>. QED BY <2>3, <3>3, <3>4 DEF Store, database
  <2>4. CASE ReadPledges(c)
    <3>1. listed'[c] = pledges /\ UNCHANGED <<dbRows, dbPledges>>
      BY <2>4 DEF ReadPledges, TypeOK, database
    <3>. QED BY <2>1, <2>2, <3>1, OtherCycles DEF CountedPledgesInHand, CountedPledgesListed
  <2>5. CASE ~Store(c) /\ ~ReadPledges(c)
    <3>. USE DEF database, hands, TypeOK
    <3>1. pc'[c] # "store" /\ UNCHANGED <<dbRows, dbPledges>>
      <4>1. CASE StartCycle(c) \/ ReadCampaigns(c) \/ IndexFails(c)
        BY <4>1 DEF StartCycle, ReadCampaigns, IndexFails
      <4>2. CASE Scan(c) \/ EndFinalize(c) \/ EndPhase(c)
        BY <4>2 DEF Scan, EndFinalize, EndPhase, Enter
      <4>3. CASE \E r \in rows[c] : Finalize(c, r) \/ OpenCampaign(c, r)
        BY <4>3 DEF Finalize, OpenCampaign
      <4>4. CASE \/ \E j \in jobs[c] : TakeJob(c, j)
                 \/ \E j \in task[c] : Settle(c, j)
        BY <4>4 DEF TakeJob, Settle
      <4>. QED BY <2>1, <2>5, <4>1, <4>2, <4>3, <4>4 DEF CycleStep, Step
    <3>. QED BY <2>1, <2>2, <3>1, OtherCycles DEF CountedPledgesInHand, CountedPledgesListed
  <2>. QED BY <2>3, <2>4, <2>5
<1>3. CASE \E tx \in pool : Drop(tx)
  BY <1>3 DEF Drop, chain, database, hands, CountedPledgesInHand, CountedPledgesListed
<1>4. CASE Restart
  BY <1>4 DEF Restart, chain, CountedPledgesInHand, CountedPledgesListed
<1>. QED BY <1>1, <1>2, <1>3, <1>4, StepKinds

-----------------------------------------------------------------------------
(* The pool and the pledges in flight                                       *)

\* What the pool loses to a chain step is what can no longer be mined.
LEMMA PoolKept ==
    ASSUME TypeOK, PoolValid, ChainStep
    PROVE  pool' = {tx \in pool : Valid(tx, camp, pledges)'}
<1>. USE DEF Evict, Valid
<1>1. CASE \E tx \in Tx : Land(tx)
  BY <1>1 DEF Land
<1>2. CASE \E p \in Pledges, i \in Campaigns : Back(p, i)
  BY <1>2 DEF Back
<1>3. CASE \E i \in Campaigns : Destroy(i)
  BY <1>3 DEF Destroy
<1>4. CASE \E p \in pledges : Rescue(p)
  BY <1>4 DEF Rescue
<1>5. CASE \E i \in Campaigns : Tick(i)
  <2>1. \A i \in Campaigns : clock[i] >= 1 => clock'[i] >= 1
    BY <1>5 DEF Tick, TypeOK
  <2>2. \A tx \in pool : tx.id \in Campaigns
    BY DEF TypeOK, Tx
  <2>. QED BY <1>5, <2>1, <2>2 DEF Tick, PoolValid, node
<1>. QED BY <1>1, <1>2, <1>3, <1>4, <1>5 DEF ChainStep

LEMMA PoolValidStep ==
    ASSUME TypeOK, PoolValid, Next
    PROVE  PoolValid'
<1>1. CASE ChainStep
  BY <1>1, PoolKept DEF PoolValid
<1>2. CASE \E c \in Cycles : CycleStep(c)
  BY <1>2, CycleSends, CycleStepFrame DEF PoolValid, Valid, chain
<1>3. CASE \E tx \in pool : Drop(tx)
  BY <1>3 DEF Drop, PoolValid, Valid, chain
<1>4. CASE Restart
  BY <1>4 DEF Restart, PoolValid, Valid, chain, node
<1>. QED BY <1>1, <1>2, <1>3, <1>4, StepKinds

\* OnlyDropsForget for one pledge.
Remains(p) ==
    \/ Waiting(p.campaign, p.id) # {}
    \/ p.id \in dropped
    \/ camp[p.campaign].status = "Gone"

LEMMA RemainsChain ==
    ASSUME TypeOK, PoolValid, ChainStep, NEW p \in pledges, p \in pledges', Remains(p)
    PROVE  Remains(p)'
<1>1. p.campaign \in Campaigns /\ p.id \in Pledges
  BY DEF TypeOK, PledgeRow
<1>2. Advances(p.campaign)
  BY <1>1, CampaignsAdvance
<1>3. CASE p.id \in dropped \/ camp[p.campaign].status = "Gone"
  BY <1>2, <1>3, ChainStepFrame DEF Remains, Advances
<1>4. CASE Waiting(p.campaign, p.id) # {}
  <2>1. PICK tx \in pool : tx.id = p.campaign /\ tx.pledge = p.id
    BY <1>4 DEF Waiting
  <2>2. tx \in Tx /\ tx.kind # "finalize"
    BY <1>1, <2>1, NoPledgeAssumption DEF TypeOK, Tx
  <2>3. Valid(tx, camp, pledges) /\ camp[p.campaign].status \in Terminal
    BY <2>1, <2>2, ValidSpends DEF PoolValid
  <2>4. CASE camp'[p.campaign] = camp[p.campaign]
    <3>1. Valid(tx, camp, pledges)'
      BY <2>1, <2>2, <2>3, <2>4 DEF Valid
    <3>2. tx \in pool'
      BY <2>1, <3>1, PoolKept
    <3>. QED BY <2>1, <3>2 DEF Remains, Waiting
  <2>5. CASE camp'[p.campaign].status = "Gone"
    BY <2>5 DEF Remains
  <2>. QED BY <1>2, <2>3, <2>4, <2>5 DEF Advances, Terminal
<1>. QED BY <1>3, <1>4 DEF Remains

LEMMA OnlyDropsForgetStep ==
    ASSUME TypeOK, PledgesDistinct, PoolValid, OnlyDropsForget, Next
    PROVE  OnlyDropsForget'
<1>0. \A p \in pledges : p.id \in inFlight => Remains(p)
  BY DEF OnlyDropsForget, Remains
<1>1. CASE ChainStep
  <2>1. inFlight' = inFlight
    BY <1>1, ChainStepFrame
  <2>2. \A p \in pledges' : p.id \in inFlight => p \in pledges
    BY <1>1, PledgesArrive DEF PledgesDistinct, Arrives
  <2>3. \A p \in pledges' : p.id \in inFlight' => Remains(p)'
    BY <1>0, <1>1, <2>1, <2>2, RemainsChain
  <2>. QED BY <2>3 DEF OnlyDropsForget, Remains
<1>2. CASE \E c \in Cycles : CycleStep(c)
  <2>1. PICK c \in Cycles : CycleStep(c)
    BY <1>2
  <2>2. UNCHANGED <<camp, pledges, dropped>>
    BY <2>1, CycleStepFrame DEF chain
  <2>3. CASE pool' = pool /\ inFlight' \subseteq inFlight
    BY <2>2, <2>3 DEF OnlyDropsForget, Waiting
  <2>4. CASE \E tx \in Tx :
                 /\ Valid(tx, camp, pledges)
                 /\ pool' = pool \cup {tx}
                 /\ \/ inFlight' = inFlight
                    \/ tx.kind # "finalize" /\ inFlight' = inFlight \cup {tx.pledge}
    <3>1. PICK tx \in Tx :
                 /\ Valid(tx, camp, pledges)
                 /\ pool' = pool \cup {tx}
                 /\ \/ inFlight' = inFlight
                    \/ tx.kind # "finalize" /\ inFlight' = inFlight \cup {tx.pledge}
      BY <2>4
    <3>2. \A p \in pledges : Remains(p) => Remains(p)'
      BY <2>2, <3>1 DEF Remains, Waiting
    <3>3. ASSUME tx.kind # "finalize", NEW p \in pledges, p.id = tx.pledge
          PROVE  Remains(p)'
      <4>1. p.campaign = tx.id
        BY <3>1, <3>3, ValidSpends DEF PledgesDistinct
      <4>2. tx \in Waiting(p.campaign, p.id)'
        BY <3>1, <3>3, <4>1 DEF Waiting
      <4>. QED BY <4>2 DEF Remains
    <3>4. \A p \in pledges' : p.id \in inFlight' => Remains(p)'
      BY <1>0, <2>2, <3>1, <3>2, <3>3
    <3>. QED BY <3>4 DEF OnlyDropsForget, Remains
  <2>. QED BY <2>1, <2>3, <2>4, CycleSends
<1>3. CASE \E tx \in pool : Drop(tx)
  <2>1. PICK tx \in pool : Drop(tx)
    BY <1>3
  <2>2. /\ UNCHANGED <<camp, pledges, inFlight>>
        /\ pool' = pool \ {tx} /\ dropped' = dropped \cup ({tx.pledge} \ {NoPledge})
    BY <2>1 DEF Drop, chain
  <2>3. \A p \in pledges : p.id # NoPledge
    BY NoPledgeAssumption DEF TypeOK, PledgeRow
  <2>4. \A p \in pledges : Remains(p) => Remains(p)'
    BY <2>2, <2>3 DEF Remains, Waiting
  <2>5. \A p \in pledges' : p.id \in inFlight' => Remains(p)'
    BY <1>0, <2>2, <2>4
  <2>. QED BY <2>5 DEF OnlyDropsForget, Remains
<1>4. CASE Restart
  BY <1>4 DEF Restart, OnlyDropsForget
<1>. QED BY <1>1, <1>2, <1>3, <1>4, StepKinds

-----------------------------------------------------------------------------
(* The invariant                                                            *)

LEMMA BotInvInitial == Init => BotInv
<1>. SUFFICES ASSUME Init
              PROVE  BotInv
  OBVIOUS
<1>1. TypeOK
  BY TypeOKInitial
<1>2. PledgesDistinct /\ RowsTruthful /\ JobsCitable
  BY DEF Init, PledgesDistinct, RowsTruthful, JobsCitable
<1>3. CountedPledgesInHand /\ CountedPledgesListed
  BY DEF Init, CountedPledgesInHand, CountedPledgesListed
<1>4. PoolValid /\ OnlyDropsForget
  BY DEF Init, PoolValid, OnlyDropsForget
<1>. QED BY <1>1, <1>2, <1>3, <1>4 DEF BotInv

LEMMA BotInvStep == BotInv /\ [Next]_vars => BotInv'
<1>. SUFFICES ASSUME BotInv, [Next]_vars
              PROVE  BotInv'
  OBVIOUS
<1>1. TypeOK'
  BY TypeOKStep DEF BotInv
<1>2. CASE Next
  BY <1>1, <1>2, PledgesDistinctStep, RowsTruthfulStep, JobsCitableStep, CountedStep,
     PoolValidStep, OnlyDropsForgetStep DEF BotInv
<1>3. CASE UNCHANGED vars
  <2>. USE <1>3 DEF BotInv, vars, chain, node, database, lookups, hands
  <2>1. PledgesDistinct'
    BY DEF PledgesDistinct
  <2>2. RowsTruthful' /\ JobsCitable'
    BY DEF RowsTruthful, JobsCitable, Citable, Truthful
  <2>3. CountedPledgesInHand' /\ CountedPledgesListed'
    BY DEF CountedPledgesInHand, CountedPledgesListed
  <2>4. PoolValid' /\ OnlyDropsForget'
    BY DEF PoolValid, OnlyDropsForget, Valid, Waiting
  <2>. QED BY <1>1, <2>1, <2>2, <2>3, <2>4
<1>. QED BY <1>2, <1>3

\* The inductive invariant holds in every reachable state, for any number of
\* campaigns, of pledges and of cycles under way together.
THEOREM BotInvHolds == Spec => []BotInv
  BY BotInvInitial, BotInvStep, PTL DEF Spec

\* A live pledge that a campaign row of the database counts is listed next to
\* it, however the list calls of indexAll interleave with the chain.
THEOREM CountedHolds == Spec => []CountedPledgesListed
<1>1. BotInv => CountedPledgesListed
  BY DEF BotInv
<1>. QED BY <1>1, BotInvHolds, PTL

\* Whatever the bot is about to send cites the cell that decided the campaign of
\* the pledge, or a cell that is destroyed, in however many cycles at once.
THEOREM TaskCitesHolds == Spec => []TaskCitesDecision
<1>1. ASSUME BotInv, NEW c \in Cycles, NEW j \in task[c]
      PROVE  /\ j.pledge.campaign = j.row.id
             /\ \/ camp[j.row.id].status = "Gone"
                \/ camp[j.row.id] = [ver |-> j.row.ver, status |-> Cites(pc[c])]
  <2>1. Citable(j, c)
    BY <1>1 DEF BotInv, JobsCitable
  <2>2. j.row.id \in Campaigns
    BY <1>1 DEF BotInv, TypeOK, Job, CampaignRow
  <2>3. camp[j.row.id] \in [ver : Nat, status : Status]
    BY <1>1, <2>2 DEF BotInv, TypeOK
  <2>4. j.row.status \in Terminal
    BY <2>1 DEF Citable, Cites, Terminal
  <2>5. CASE camp[j.row.id].ver = j.row.ver /\ camp[j.row.id].status = Cites(pc[c])
    BY <2>1, <2>3, <2>5 DEF Citable
  <2>. QED BY <2>1, <2>4, <2>5 DEF Citable, Truthful
<1>2. BotInv => TaskCitesDecision
  BY <1>1 DEF TaskCitesDecision
<1>. QED BY <1>2, BotInvHolds, PTL

\* The bot forgets to settle a pledge that it has marked in flight only if the
\* pool dropped the transaction or the campaign is gone: overlapping cycles,
\* lost answers and restarts never lead to it.
THEOREM OnlyDropsForgetHolds == Spec => []OnlyDropsForget
<1>1. BotInv => OnlyDropsForget
  BY DEF BotInv
<1>. QED BY <1>1, BotInvHolds, PTL

=============================================================================
