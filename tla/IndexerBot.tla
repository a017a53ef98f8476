------------------------------ MODULE IndexerBot ------------------------------
(* The indexer's polling loop and the finalization bot that runs inside it     *)
(* (off-chain/indexer).  A timer starts a cycle whether or not the last one is *)
(* over; a cycle reads the chain list by list, replaces the database, and lets *)
(* the bot finalize, release and refund from what the database then says.      *)
(*                                                                             *)
(* The chain is what the loop sees of it.  The out point of a campaign cell is *)
(* a version: 0 is the creation, and each pledge and the finalization adds 1.  *)
(* The pool holds the bot's transactions that are accepted and not yet mined.  *)
EXTENDS Naturals, FiniteSets

CONSTANTS
    Campaigns,                  \* campaigns, each with a live cell at the start
    Pledges,                    \* ids of pledge cells
    Polls,                      \* polling cycles that may be under way together
    Boot,                       \* the indexing run of main(), before the timer starts
    Goal,                       \* pledges that a campaign needs
    NoPledge,                   \* the pledge of a finalization: none
    MAX_CAMPAIGN_HISTORY_HOPS,  \* bound of the walk to a creation hash
    MaxFaults                   \* bound on crashes, drops and failed calls

ASSUME CampaignsAssumption == IsFiniteSet(Campaigns)
ASSUME GoalAssumption == Goal \in Nat
ASSUME HopsAssumption == MAX_CAMPAIGN_HISTORY_HOPS \in Nat
ASSUME FaultsAssumption == MaxFaults \in Nat
ASSUME BootAssumption == Boot \notin Polls
ASSUME NoPledgeAssumption == NoPledge \notin Pledges

Cycles == Polls \cup {Boot}

VARIABLES
    camp,       \* chain: version and status of each campaign cell
    clock,      \* chain: 0 before the deadline, 1 after it, 2 after the grace period
    pledges,    \* chain: live pledge cells
    used,       \* chain: pledge ids taken
    pool,       \* node: the bot's transactions waiting to be mined
    dropped,    \* node: pledges whose settlement the pool once dropped (history)
    dbRows,     \* database: campaigns table
    dbPledges,  \* database: pledges table
    origin,     \* originalTxHashByType
    strayed,    \* campaigns remembered by a walk that ended too early (history)
    ready,      \* initialSyncComplete
    inFlight,   \* inFlightTxs
    pc,         \* where each cycle is
    rows,       \* campaign rows in a cycle's hands
    listed,     \* pledges a cycle has listed
    jobs,       \* settlements left for the campaign a cycle is at
    task,       \* the settlement a cycle awaits
    faults      \* faults so far

chain == <<camp, clock, pledges, used>>
node == <<pool, dropped>>
database == <<dbRows, dbPledges, ready>>
lookups == <<origin, strayed>>
hands == <<rows, listed, jobs, task>>
vars == <<chain, node, database, lookups, inFlight, pc, hands, faults>>

Terminal == {"Success", "Failed"}
Status == Terminal \cup {"Active", "Gone"}

PledgeRow == [id : Pledges, campaign : Campaigns, at : Nat]
CampaignRow == [id : Campaigns, ver : Nat, status : Status, link : Nat]
Job == [row : CampaignRow, pledge : PledgeRow]

Tx == [kind : {"finalize"}, id : Campaigns, ver : Nat, pledge : {NoPledge}]
      \cup [kind : {"release", "refund"}, id : Campaigns, ver : Nat, pledge : Pledges]

Phases == {"idle", "campaigns", "pledges", "store", "scan", "finalize", "release", "refund"}

Init ==
    /\ camp = [i \in Campaigns |-> [ver |-> 0, status |-> "Active"]]
    /\ clock = [i \in Campaigns |-> 0]
    /\ pledges = {} /\ used = {}
    /\ pool = {} /\ dropped = {}
    /\ dbRows = {} /\ dbPledges = {}
    /\ origin = [i \in {} |-> 0]
    /\ strayed = {}
    /\ ready = FALSE
    /\ inFlight = {}
    /\ pc = [c \in Cycles |-> IF c = Boot THEN "campaigns" ELSE "idle"]
    /\ rows = [c \in Cycles |-> {}]
    /\ listed = [c \in Cycles |-> {}]
    /\ jobs = [c \in Cycles |-> {}]
    /\ task = [c \in Cycles |-> {}]
    /\ faults = 0

\* n more faults.
Fault(n) == faults + n <= MaxFaults /\ faults' = faults + n

-----------------------------------------------------------------------------
(* The chain and the node                                                   *)

\* The accumulator of a campaign counts its pledges, one per version.
Outcome(i) == IF camp[i].ver >= Goal THEN "Success" ELSE "Failed"

\* The status that a settlement of this kind has to cite.
Cites(kind) == IF kind = "release" THEN "Success" ELSE "Failed"

\* What the scripts and the inputs of tx need, on a chain with these cells.
Valid(tx, C, P) ==
    /\ tx.ver = C[tx.id].ver
    /\ IF tx.kind = "finalize"
       THEN C[tx.id].status = "Active" /\ clock[tx.id] >= 1
       ELSE /\ C[tx.id].status = Cites(tx.kind)
            /\ \E p \in P : p.id = tx.pledge /\ p.campaign = tx.id

\* The node takes a valid transaction that spends what no other in the pool does.
Accepts(tx) ==
    /\ Valid(tx, camp, pledges)
    /\ \A u \in pool : u.id = tx.id => u.pledge # tx.pledge

\* The pool forgets what can no longer be mined.
Evict == pool' = {u \in pool : Valid(u, camp', pledges')}

Land(tx) ==
    /\ Valid(tx, camp, pledges)
    /\ IF tx.kind = "finalize"
       THEN /\ camp' = [camp EXCEPT ![tx.id] = [ver |-> @.ver + 1, status |-> Outcome(tx.id)]]
            /\ UNCHANGED pledges
       ELSE /\ pledges' = {p \in pledges : p.id # tx.pledge}
            /\ UNCHANGED camp
    /\ Evict
    /\ UNCHANGED <<clock, used, dropped, database, lookups, inFlight, pc, hands, faults>>

Mine(tx) == tx \in pool /\ Land(tx)

\* Finalization and settlement are permissionless: someone else is faster.
Outsider ==
    \/ \E i \in Campaigns :
          Land([kind |-> "finalize", id |-> i, ver |-> camp[i].ver, pledge |-> NoPledge])
    \/ \E kind \in {"release", "refund"}, p \in pledges :
          Land([kind |-> kind, id |-> p.campaign, ver |-> camp[p.campaign].ver, pledge |-> p.id])

\* A backer's pledge is mined: the campaign cell moves.
Back(p, i) ==
    /\ p \notin used
    /\ camp[i].status = "Active"
    /\ camp' = [camp EXCEPT ![i].ver = @ + 1]
    /\ pledges' = pledges \cup {[id |-> p, campaign |-> i, at |-> camp[i].ver + 1]}
    /\ used' = used \cup {p}
    /\ Evict
    /\ UNCHANGED <<clock, dropped, database, lookups, inFlight, pc, hands, faults>>

\* After the grace period anyone refunds a pledge without citing its campaign.
Rescue(p) ==
    /\ clock[p.campaign] = 2
    /\ pledges' = pledges \ {p}
    /\ UNCHANGED camp
    /\ Evict
    /\ UNCHANGED <<clock, used, dropped, database, lookups, inFlight, pc, hands, faults>>

Tick(i) ==
    /\ clock[i] < 2
    /\ clock' = [clock EXCEPT ![i] = @ + 1]
    /\ UNCHANGED <<camp, pledges, used, node, database, lookups, inFlight, pc, hands, faults>>

\* The creator destroys a decided campaign after the grace period.
Destroy(i) ==
    /\ camp[i].status \in Terminal
    /\ clock[i] = 2
    /\ camp' = [camp EXCEPT ![i].status = "Gone"]
    /\ UNCHANGED pledges
    /\ Evict
    /\ UNCHANGED <<clock, used, dropped, database, lookups, inFlight, pc, hands, faults>>

\* The pool drops a transaction it had accepted.
Drop(tx) ==
    /\ tx \in pool
    /\ pool' = pool \ {tx}
    /\ dropped' = dropped \cup ({tx.pledge} \ {NoPledge})
    /\ Fault(1)
    /\ UNCHANGED <<chain, database, lookups, inFlight, pc, hands>>

-----------------------------------------------------------------------------
(* Indexing                                                                 *)

\* The timer fires; it is set when the indexing run of main() is over.
StartCycle(c) ==
    /\ pc[Boot] = "idle" /\ pc[c] = "idle"
    /\ pc' = [pc EXCEPT ![c] = "campaigns"]
    /\ UNCHANGED <<chain, node, database, lookups, inFlight, hands, faults>>

\* A row before its creation hash is looked up links by its own out point.
LiveCampaigns ==
    {[id |-> i, ver |-> camp[i].ver, status |-> camp[i].status, link |-> camp[i].ver] :
        i \in {j \in Campaigns : camp[j].status # "Gone"}}

ReadCampaigns(c) ==
    /\ pc[c] = "campaigns"
    /\ rows' = [rows EXCEPT ![c] = LiveCampaigns]
    /\ pc' = [pc EXCEPT ![c] = "pledges"]
    /\ UNCHANGED <<chain, node, database, lookups, inFlight, listed, jobs, task, faults>>

ReadPledges(c) ==
    /\ pc[c] = "pledges"
    /\ listed' = [listed EXCEPT ![c] = pledges]
    /\ pc' = [pc EXCEPT ![c] = "store"]
    /\ UNCHANGED <<chain, node, database, lookups, inFlight, rows, jobs, task, faults>>

\* A list cannot be read: indexAll throws, and the cycle is over.
IndexFails(c) ==
    /\ pc[c] \in {"campaigns", "pledges"}
    /\ Fault(1)
    /\ pc' = [pc EXCEPT ![c] = "idle"]
    /\ rows' = [rows EXCEPT ![c] = {}]
    /\ UNCHANGED <<chain, node, database, lookups, inFlight, listed, jobs, task>>

\* Where the walk from version ver ends: at the creation, unless it is too far.
Walk(ver) ==
    IF ver > MAX_CAMPAIGN_HISTORY_HOPS THEN ver - MAX_CAMPAIGN_HISTORY_HOPS ELSE 0

\* A missing answer of the node ends a walk anywhere on the way.
Walks(R) ==
    {walk \in [{r.id : r \in R} -> UNION {Walk(r.ver) .. r.ver : r \in R}] :
        \A r \in R : walk[r.id] \in Walk(r.ver) .. r.ver}

OriginOf(r, walk) == IF r.id \in DOMAIN origin THEN origin[r.id] ELSE walk[r.id]

\* Mutant: a row takes the out point its campaign has by now.
ResolvedLate(R, failed, walk) ==
    {[r EXCEPT !.link = OriginOf(r, walk), !.ver = camp[r.id].ver] : r \in R}

\* original_tx_hash || tx_hash
Resolved(R, failed, walk) ==
    {[r EXCEPT !.link = IF r.id \in failed THEN r.ver ELSE OriginOf(r, walk)] : r \in R}


\* The end of a walk is remembered, wherever it was; a failed look-up is not.
Remembered(R, failed, walk) ==
    [i \in DOMAIN origin \cup ({r.id : r \in R} \ failed) |->
        IF i \in DOMAIN origin THEN origin[i] ELSE walk[i]]

\* Look up the creation hashes, then replaceLiveCells.  The look-ups only read
\* history, so they are one step with the replacement; one that throws or that
\* misses an answer is a fault.  A replacement that fails leaves the tables, and
\* the cycle goes on.
Store(c) ==
    /\ pc[c] = "store"
    /\ LET unknown == {r \in rows[c] : r.id \notin DOMAIN origin}
       IN  \E failed \in SUBSET {r.id : r \in unknown},
              walk \in Walks(unknown), written \in BOOLEAN :
              LET short  == {r \in unknown : walk[r.id] # Walk(r.ver)}
                  beside == {r \in unknown : walk[r.id] # 0}
                  missed == failed \cup {r.id : r \in short}
              IN  /\ Fault(Cardinality(missed) + IF written THEN 0 ELSE 1)
                  /\ origin' = Remembered(rows[c], failed, walk)
                  /\ strayed' = strayed \cup ({r.id : r \in beside} \ failed)
                  /\ IF written
                     THEN /\ dbRows' = Resolved(rows[c], failed, walk)
                          /\ dbPledges' = listed[c]
                          /\ ready' = TRUE
                     ELSE UNCHANGED database
    /\ pc' = [pc EXCEPT ![c] = IF c = Boot THEN "idle" ELSE "scan"]
    /\ rows' = [rows EXCEPT ![c] = {}]
    /\ listed' = [listed EXCEPT ![c] = {}]
    /\ UNCHANGED <<chain, node, inFlight, jobs, task>>

-----------------------------------------------------------------------------
(* The bot                                                                  *)

\* Mutant: only at the deadline.
ExpiredAtOnce == {r \in dbRows : r.status = "Active" /\ clock[r.id] = 1}

\* findExpiredCampaigns
ExpiredRows == {r \in dbRows : r.status = "Active" /\ clock[r.id] >= 1}

\* Mutant: any campaign that is not Active.
SettledRows(status) == {r \in dbRows : r.status \in Terminal}

DecidedRows(status) == {r \in dbRows : r.status = status}

\* Begin to release or to refund, with the rows the database has now.
Enter(c, phase) ==
    /\ pc' = [pc EXCEPT ![c] = phase]
    /\ rows' = [rows EXCEPT ![c] = DecidedRows(Cites(phase))]

\* processPendingFinalizations returns early when nothing has expired, and
\* gives up when the tip cannot be read; the cycle goes on to the releases.
Scan(c) ==
    /\ pc[c] = "scan"
    /\ \/ /\ ExpiredRows # {}
          /\ rows' = [rows EXCEPT ![c] = ExpiredRows]
          /\ pc' = [pc EXCEPT ![c] = "finalize"]
          /\ UNCHANGED faults
       \/ ExpiredRows = {} /\ Enter(c, "release") /\ UNCHANGED faults
       \/ Fault(1) /\ Enter(c, "release")
    /\ UNCHANGED <<chain, node, database, lookups, inFlight, listed, jobs, task>>

\* finalizeSingleCampaign: the builder spends the cell that is live now,
\* whatever the row says.  A failure is logged, and no more.
Finalize(c, r) ==
    LET tx == [kind |-> "finalize", id |-> r.id, ver |-> camp[r.id].ver, pledge |-> NoPledge]
    IN  /\ pc[c] = "finalize" /\ r \in rows[c]
        /\ \/ Accepts(tx) /\ pool' = pool \cup {tx} /\ UNCHANGED faults
           \/ ~Accepts(tx) /\ UNCHANGED <<pool, faults>>
           \/ Fault(1) /\ UNCHANGED pool
        /\ rows' = [rows EXCEPT ![c] = @ \ {r}]
        /\ UNCHANGED <<chain, dropped, database, lookups, inFlight, pc, listed, jobs, task>>

\* cleanupInFlightTxs, then on to the releases.
EndFinalize(c) ==
    /\ pc[c] = "finalize" /\ rows[c] = {}
    /\ inFlight' = inFlight \cap {p.id : p \in dbPledges}
    /\ Enter(c, "release")
    /\ UNCHANGED <<chain, node, database, lookups, listed, jobs, task, faults>>

\* getPledgesForCampaign: pledges record the creation hash of their campaign.
Linked(r) == {p \in dbPledges : p.campaign = r.id /\ r.link = 0}

\* releasePledgesForCampaign and refundPledgesForCampaign list the pledges when
\* they come to a campaign, with the row from the start of the phase.
OpenCampaign(c, r) ==
    /\ pc[c] \in {"release", "refund"} /\ jobs[c] = {} /\ task[c] = {}
    /\ r \in rows[c]
    /\ rows' = [rows EXCEPT ![c] = @ \ {r}]
    /\ jobs' = [jobs EXCEPT ![c] = {[row |-> r, pledge |-> p] : p \in Linked(r)}]
    /\ UNCHANGED <<chain, node, database, lookups, inFlight, pc, listed, task, faults>>

\* A pledge in flight is skipped; any other is awaited.
TakeJob(c, j) ==
    /\ pc[c] \in {"release", "refund"} /\ j \in jobs[c] /\ task[c] = {}
    /\ jobs' = [jobs EXCEPT ![c] = @ \ {j}]
    /\ task' = [task EXCEPT ![c] = IF j.pledge.id \in inFlight THEN {} ELSE {j}]
    /\ UNCHANGED <<chain, node, database, lookups, inFlight, pc, rows, listed, faults>>

\* Mutant: marked before it is sent.
SettleMarked(c, j) ==
    LET tx == [kind |-> pc[c], id |-> j.row.id, ver |-> j.row.ver, pledge |-> j.pledge.id]
    IN  /\ pc[c] \in {"release", "refund"} /\ j \in task[c]
        /\ \/ Accepts(tx) /\ pool' = pool \cup {tx} /\ UNCHANGED faults
           \/ ~Accepts(tx) /\ UNCHANGED <<pool, faults>>
           \/ Fault(1) /\ UNCHANGED pool
        /\ inFlight' = inFlight \cup {j.pledge.id}
        /\ task' = [task EXCEPT ![c] = {}]
        /\ UNCHANGED <<chain, dropped, database, lookups, pc, rows, listed, jobs>>

\* permissionlessRelease or permissionlessRefund, citing the row's cell.  Only a
\* call that returns marks the pledge; the answer of one that was accepted may
\* be lost.
Settle(c, j) ==
    LET tx == [kind |-> pc[c], id |-> j.row.id, ver |-> j.row.ver, pledge |-> j.pledge.id]
    IN  /\ pc[c] \in {"release", "refund"} /\ j \in task[c]
        /\ \/ /\ Accepts(tx) /\ pool' = pool \cup {tx}
              /\ inFlight' = inFlight \cup {j.pledge.id} /\ UNCHANGED faults
           \/ Accepts(tx) /\ pool' = pool \cup {tx} /\ Fault(1) /\ UNCHANGED inFlight
           \/ ~Accepts(tx) /\ UNCHANGED <<pool, inFlight, faults>>
           \/ Fault(1) /\ UNCHANGED <<pool, inFlight>>
        /\ task' = [task EXCEPT ![c] = {}]
        /\ UNCHANGED <<chain, dropped, database, lookups, pc, rows, listed, jobs>>

\* From the releases to the refunds, and from these to the end of the cycle.
EndPhase(c) ==
    /\ pc[c] \in {"release", "refund"}
    /\ rows[c] = {} /\ jobs[c] = {} /\ task[c] = {}
    /\ \/ pc[c] = "release" /\ Enter(c, "refund")
       \/ pc[c] = "refund" /\ pc' = [pc EXCEPT ![c] = "idle"] /\ UNCHANGED rows
    /\ UNCHANGED <<chain, node, database, lookups, inFlight, listed, jobs, task, faults>>

\* The process stops and starts again.  The database is a file and stays.
Restart ==
    /\ Fault(1)
    /\ origin' = [i \in {} |-> 0]
    /\ strayed' = {}
    /\ ready' = FALSE
    /\ inFlight' = {}
    /\ pc' = [c \in Cycles |-> IF c = Boot THEN "campaigns" ELSE "idle"]
    /\ rows' = [c \in Cycles |-> {}]
    /\ listed' = [c \in Cycles |-> {}]
    /\ jobs' = [c \in Cycles |-> {}]
    /\ task' = [c \in Cycles |-> {}]
    /\ UNCHANGED <<chain, node, dbRows, dbPledges>>

-----------------------------------------------------------------------------
\* One step of a cycle that is under way.
Step(c) ==
    \/ ReadCampaigns(c) \/ ReadPledges(c) \/ Store(c) \/ Scan(c)
    \/ \E r \in rows[c] : Finalize(c, r)
    \/ EndFinalize(c)
    \/ \E r \in rows[c] : OpenCampaign(c, r)
    \/ \E j \in jobs[c] : TakeJob(c, j)
    \/ \E j \in task[c] : Settle(c, j)
    \/ EndPhase(c)

Next ==
    \/ \E p \in Pledges, i \in Campaigns : Back(p, i)
    \/ \E i \in Campaigns : Tick(i)
    \/ \E i \in Campaigns : Destroy(i)
    \/ \E tx \in pool : Mine(tx)
    \/ Outsider
    \/ \E p \in pledges : Rescue(p)
    \/ \E tx \in pool : Drop(tx)
    \/ \E c \in Polls : StartCycle(c)
    \/ \E c \in Cycles : Step(c)
    \/ \E c \in Cycles : IndexFails(c)
    \/ Restart

Spec == Init /\ [][Next]_vars

Waiting(id, pledge) == {tx \in pool : tx.id = id /\ tx.pledge = pledge}

\* Blocks are produced and take what the pool keeps; the timer fires; a cycle
\* goes on, for every await of it returns or throws.
Fairness ==
    /\ \A i \in Campaigns : WF_vars(Tick(i))
    /\ \A i \in Campaigns, p \in Pledges \cup {NoPledge} :
          WF_vars(\E tx \in Waiting(i, p) : Mine(tx))
    /\ \A c \in Polls : WF_vars(StartCycle(c))
    /\ \A c \in Cycles : WF_vars(Step(c))

FairSpec == Spec /\ Fairness

-----------------------------------------------------------------------------
(* Safety                                                                   *)

TypeOK ==
    /\ camp \in [Campaigns -> [ver : Nat, status : Status]]
    /\ clock \in [Campaigns -> 0 .. 2]
    /\ pledges \subseteq PledgeRow
    /\ used \subseteq Pledges
    /\ pool \subseteq Tx
    /\ dropped \subseteq Pledges
    /\ dbRows \subseteq CampaignRow
    /\ dbPledges \subseteq PledgeRow
    /\ DOMAIN origin \subseteq Campaigns /\ \A i \in DOMAIN origin : origin[i] \in Nat
    /\ strayed \subseteq Campaigns
    /\ ready \in BOOLEAN
    /\ inFlight \subseteq Pledges
    /\ pc \in [Cycles -> Phases]
    /\ rows \in [Cycles -> SUBSET CampaignRow]
    /\ listed \in [Cycles -> SUBSET PledgeRow]
    /\ jobs \in [Cycles -> SUBSET Job]
    /\ task \in [Cycles -> SUBSET Job]
    /\ faults \in 0 .. MaxFaults

\* However the reads of a cycle interleave with the chain and with other cycles,
\* a live pledge that the total of a campaign row counts is in the pledges table
\* next to it: indexAll lists campaigns before pledges.
CountedPledgesListed ==
    \A r \in dbRows, p \in pledges :
        p.campaign = r.id /\ p.at <= r.ver => p \in dbPledges

\* The campaign cell that a settlement cites is the cell that decided the
\* campaign of the pledge, and it decided so, even when an older snapshot has overwritten a
\* newer one or another cycle has replaced the tables meanwhile.
TaskCitesDecision ==
    \A c \in Cycles : \A j \in task[c] :
        /\ j.pledge.campaign = j.row.id
        /\ \/ camp[j.row.id].status = "Gone"
           \/ camp[j.row.id] = [ver |-> j.row.ver, status |-> Cites(pc[c])]

\* A live pledge marked in flight is one the bot need not send again: its
\* transaction waits in the pool, the pool dropped it, or its campaign is gone.
OnlyDropsForget ==
    \A p \in pledges :
        p.id \in inFlight =>
            \/ Waiting(p.campaign, p.id) # {}
            \/ p.id \in dropped
            \/ camp[p.campaign].status = "Gone"

-----------------------------------------------------------------------------
(* The inductive invariant of the proofs                                    *)

\* The id of a live pledge is taken, once, and so is one marked in flight.
PledgesDistinct ==
    /\ \A p \in pledges : p.id \in used
    /\ inFlight \subseteq used
    /\ \A p, q \in pledges : p.id = q.id => p = q

\* What a row says was so: its cell is not ahead of the chain's, and if it is
\* decided it is the chain's, for a decided cell moves no more.
Truthful(r) ==
    /\ r.ver <= camp[r.id].ver
    /\ r.status \in Terminal =>
          \/ camp[r.id].status = "Gone"
          \/ camp[r.id].ver = r.ver /\ camp[r.id].status = r.status

RowsTruthful ==
    /\ \A r \in dbRows : Truthful(r)
    /\ \A c \in Cycles : \A r \in rows[c] : Truthful(r)

\* What a cycle settles, and cites for it.
Citable(j, c) ==
    /\ j.pledge.campaign = j.row.id
    /\ j.row.status = Cites(pc[c])
    /\ Truthful(j.row)

JobsCitable ==
    \A c \in Cycles :
        /\ jobs[c] \cup task[c] # {} => pc[c] \in {"release", "refund"}
        /\ pc[c] \in {"release", "refund"} => \A r \in rows[c] : r.status = Cites(pc[c])
        /\ \A j \in jobs[c] \cup task[c] : Citable(j, c)

\* CountedPledgesListed for what a cycle is about to store.
CountedPledgesInHand ==
    \A c \in Cycles : pc[c] = "store" =>
        \A r \in rows[c], p \in pledges :
            p.campaign = r.id /\ p.at <= r.ver => p \in listed[c]

PoolValid == \A tx \in pool : Valid(tx, camp, pledges)

BotInv ==
    /\ TypeOK
    /\ PledgesDistinct
    /\ RowsTruthful
    /\ JobsCitable
    /\ CountedPledgesInHand
    /\ CountedPledgesListed
    /\ PoolValid
    /\ OnlyDropsForget

-----------------------------------------------------------------------------
(* What the comments of the code say                                        *)

\* "avoid re-submitting same tx on each poll cycle" (bot.ts:41): no cycle is
\* about to send a settlement that waits in the pool.
NoResubmission ==
    \A c \in Cycles : \A j \in task[c] : Waiting(j.row.id, j.pledge.id) = {}

-----------------------------------------------------------------------------
(* Liveness                                                                 *)

\* An expired campaign is finalized, whatever the bot's snapshot says and
\* however often new pledges move the cell first.
BotFinalizes ==
    \A i \in Campaigns :
        clock[i] >= 1 /\ camp[i].status = "Active" ~> camp[i].status # "Active"


=============================================================================
