----------------------------- MODULE CampaignPage -----------------------------
(***************************************************************************)
(* What a visitor sees of one campaign: the chain it lives on, the indexer *)
(* that copies it into its database and serves it, and the campaign page,  *)
(* which waits until the indexer is ready, loads the campaign by the id in *)
(* its URL and refreshes it by a timer that does not wait for the last     *)
(* refresh.                                                                *)
(*                                                                         *)
(* A campaign id is an out point.  The out points of the campaign are its  *)
(* versions, 0 when it is created; every pledge and the finalization move  *)
(* it.  The indexer walks back to the creation, and the walk may fail or   *)
(* end early.  Answers of the indexer may be overtaken: a request is       *)
(* answered in one step and takes effect on the page in another.           *)
(***************************************************************************)
EXTENDS Integers

CONSTANTS
    Goal,         \* pledges that make the campaign a success
    Deadline,     \* its deadline block
    Links,        \* versions whose out point may be in a page's URL
    Loads,        \* loads of the page that may be under way at once
    None,         \* no campaign
    Unlisted,     \* no index cycle has listed the campaigns
    MAX_CAMPAIGN_HISTORY_HOPS,  \* bound of the walk to a creation hash
    MaxPledges,   \* bound: pledges ever made
    Horizon,      \* bound: block height
    MaxBoots,     \* bound: starts of the indexer
    MaxFaults     \* bound: calls that fail or are not answered in full

Statuses == {"Active", "Success", "Failed"}
Campaign == [ver : Nat, status : Statuses \cup {"Gone"}, total : Nat]
Row == [ver : Nat, status : Statuses, total : Nat, link : Nat]
Badges == {"active", "expired_success", "expired_failed", "success", "failed"}
Shown == [ver : Nat, status : Statuses, total : Nat, tip : Nat, badge : Badges]

ASSUME PageAssumption ==
    /\ Goal \in Nat /\ Deadline \in Nat /\ Links \subseteq Nat
    /\ MAX_CAMPAIGN_HISTORY_HOPS \in Nat
    /\ MaxPledges \in Nat /\ Horizon \in Nat /\ MaxFaults \in Nat
    /\ MaxBoots \in Nat \ {0}
    /\ Loads # {}
    /\ None \notin Row \cup Shown /\ Unlisted \notin Row \cup {None}

VARIABLES
    chain,     \* the campaign cell
    block,     \* block height
    boot,      \* how often the indexer was started
    up,        \* it runs
    ready,     \* initialSyncComplete
    listed,    \* the campaign as the running index cycle has listed it
    db,        \* the campaign's row in the table
    origin,    \* originalTxHashByType: the creation as far as remembered
    astray,    \* history: since the start a row was stored without its creation
    faults,    \* faults so far
    url,       \* the out point in the page's URL
    phase,     \* useIndexerReady: what the page knows of the indexer
    poll,      \* the status request of the current run of its effect
    remount,   \* React ran the effect a second time; the first run's request
    waited,    \* the current run has polled for three minutes
    readyAt,   \* history: the start of the indexer that said it was ready
    load,      \* the loads under way
    view,      \* the campaign the page shows
    error      \* its error message

chainVars == <<chain, block>>
serverVars == <<boot, up, ready, listed, db, origin, astray>>
readyVars == <<phase, poll, remount, waited, readyAt>>
pageVars == <<url, load, view, error>>
vars == <<chainVars, serverVars, readyVars, pageVars, faults>>

Phases == {"Checking", "Waking", "Syncing", "Ready", "Offline"}
Answers == {"Ready", "Syncing", "Unreachable"}

\* A load: whether it is the first one or a refresh, and how far its campaign
\* request is, which reads the row, then the tip.  Of the requests for pledges,
\* receipts and the tip that go with it the model has only that they may fail;
\* the tip they give is taken for the one in this answer.
Load == [kind : {"none", "first", "refresh"},
         step : {"row", "tip", "done"},
         row : Row \cup Shown \cup {None}]

Unasked == [kind |-> "none", step |-> "row", row |-> None]

TypeOK ==
    /\ chain \in Campaign
    /\ block \in 0 .. Horizon
    /\ boot \in 1 .. MaxBoots
    /\ up \in BOOLEAN /\ ready \in BOOLEAN
    /\ listed \in Row \cup {None, Unlisted}
    /\ db \in Row \cup {None}
    /\ origin \in Nat \cup {None}
    /\ astray \in BOOLEAN
    /\ faults \in 0 .. MaxFaults
    /\ url \in Links
    /\ phase \in Phases
    /\ poll \in {"off", "asked"} \cup Answers
    /\ remount \in {"no", "asked", "done"}
    /\ waited \in BOOLEAN
    /\ readyAt \in 0 .. MaxBoots
    /\ load \in [Loads -> Load]
    /\ view \in Shown \cup {None}
    /\ error \in {"none", "loading", "failed", "not found"}

Init ==
    /\ chain = [ver |-> 0, status |-> "Active", total |-> 0]
    /\ block = 0
    /\ boot = 1
    /\ up = TRUE
    /\ ready = FALSE
    /\ listed = Unlisted
    /\ db = None
    /\ origin = None
    /\ astray = FALSE
    /\ faults = 0
    /\ url \in Links
    /\ phase = "Checking"
    /\ poll = "asked"
    /\ remount = "no"
    /\ waited = FALSE
    /\ readyAt = 0
    /\ load = [l \in Loads |-> Unasked]
    /\ view = None
    /\ error = "loading"

\* n more faults.
Fault(n) == faults + n <= MaxFaults /\ faults' = faults + n

-----------------------------------------------------------------------------
(* The chain                                                                *)

OffChain == <<serverVars, readyVars, pageVars, faults>>

NewBlock ==
    /\ block < Horizon
    /\ block' = block + 1
    /\ UNCHANGED <<chain, OffChain>>

\* A pledge; the scripts accept it after the deadline too.
ChainPledge ==
    /\ chain.status = "Active"
    /\ chain.total < MaxPledges
    /\ chain' = [chain EXCEPT !.ver = @ + 1, !.total = @ + 1]
    /\ UNCHANGED <<block, OffChain>>

ChainFinalize ==
    /\ chain.status = "Active"
    /\ block >= Deadline
    /\ chain' = [chain EXCEPT !.ver = @ + 1,
                              !.status = IF chain.total >= Goal THEN "Success" ELSE "Failed"]
    /\ UNCHANGED <<block, OffChain>>

\* Its pledges are settled, the campaign is destroyed.
ChainDestroy ==
    /\ chain.status \in {"Success", "Failed"}
    /\ chain' = [chain EXCEPT !.status = "Gone"]
    /\ UNCHANGED <<block, OffChain>>

-----------------------------------------------------------------------------
(* The indexer: each cycle lists the campaigns and later replaces the table.*)
(* IndexerBot has the cycle in full.                                        *)

\* A row before its creation hash is looked up links by its own out point.
RowOf(c) ==
    IF c.status = "Gone" THEN None
    ELSE [ver |-> c.ver, status |-> c.status, total |-> c.total, link |-> c.ver]

\* Where the walk from version ver ends: at the creation, unless it is too far.
Walk(ver) ==
    IF ver > MAX_CAMPAIGN_HISTORY_HOPS THEN ver - MAX_CAMPAIGN_HISTORY_HOPS ELSE 0

\* getOriginalTxHash, and original_tx_hash || tx_hash.  What is remembered is not
\* looked up again.  A look-up that throws is not remembered and leaves the row its
\* own out point; a walk is remembered wherever it ends, also at a missing answer.
LookUp(link) ==
    \/ origin # None /\ link = origin /\ UNCHANGED <<origin, faults>>
    \/ origin = None /\ link = chain.ver /\ UNCHANGED origin /\ Fault(1)
    \/ /\ origin = None /\ origin' = link
       /\ link >= Walk(chain.ver)
       /\ Fault(IF link = Walk(chain.ver) THEN 0 ELSE 1)

\* The look-ups only read history, so they are one step with the list.
ListCampaigns ==
    /\ up
    /\ listed = Unlisted
    /\ \/ RowOf(chain) = None /\ listed' = None /\ UNCHANGED <<origin, faults>>
       \/ /\ RowOf(chain) # None
          /\ \E link \in 0 .. chain.ver :
                LookUp(link) /\ listed' = [RowOf(chain) EXCEPT !.link = link]
    /\ UNCHANGED <<chainVars, boot, up, ready, db, astray, readyVars, pageVars>>

\* A replacement that fails leaves the table.
ReplaceLiveCells ==
    /\ up
    /\ listed # Unlisted
    /\ listed' = Unlisted
    /\ \/ /\ db' = listed
          /\ ready' = TRUE
          /\ astray' = (astray \/ (listed # None /\ listed.link # 0))
          /\ UNCHANGED faults
       \/ Fault(1) /\ UNCHANGED <<db, ready, astray>>
    /\ UNCHANGED <<chainVars, boot, up, origin, readyVars, pageVars>>

\* The hosted indexer goes to sleep, and starts again with the tables it left or,
\* on a fresh disk, without.
Sleep ==
    /\ up
    /\ boot < MaxBoots
    /\ up' = FALSE
    /\ UNCHANGED <<chainVars, boot, ready, listed, db, origin, astray, readyVars, pageVars, faults>>

Wake ==
    /\ ~up
    /\ up' = TRUE
    /\ boot' = boot + 1
    /\ ready' = FALSE
    /\ listed' = Unlisted
    /\ db' \in {db, None}
    /\ origin' = None
    /\ astray' = FALSE
    /\ UNCHANGED <<chainVars, readyVars, pageVars, faults>>

-----------------------------------------------------------------------------
(* What it serves                                                           *)

\* Mutant: only the live out point is looked up.
LiveOnly(id) == IF db # None /\ db.ver = id THEN db ELSE None

\* getCampaign: by the out point in the row, or by the creation as the row has it.
GetCampaign(id) ==
    IF db # None /\ id \in {db.ver, db.link} THEN db ELSE None

\* Mutant: a campaign one pledge short counts as funded.
BadgeGenerous(row, tip) ==
    CASE row.status = "Success" -> "success"
      [] row.status = "Failed"  -> "failed"
      [] OTHER -> IF tip < Deadline THEN "active"
                  ELSE IF row.total + 1 >= Goal THEN "expired_success" ELSE "expired_failed"

\* computeEffectiveStatus
Badge(row, tip) ==
    CASE row.status = "Success" -> "success"
      [] row.status = "Failed"  -> "failed"
      [] OTHER -> IF tip < Deadline THEN "active"
                  ELSE IF row.total >= Goal THEN "expired_success" ELSE "expired_failed"

WithBadge(row, tip) ==
    [ver |-> row.ver, status |-> row.status, total |-> row.total, tip |-> tip,
     badge |-> Badge(row, tip)]

\* Mutant: an indexer that answers counts as ready.
StatusNoFlag == IF ~up THEN "Unreachable" ELSE "Ready"

\* The /status route, and fetchIndexerStatus for a server that does not answer.
Status == IF ~up THEN "Unreachable" ELSE IF ready THEN "Ready" ELSE "Syncing"

-----------------------------------------------------------------------------
(* useIndexerReady                                                          *)

\* A status request that times out counts as unreachable.
PollAnswered ==
    /\ poll = "asked"
    /\ \/ poll' = Status /\ UNCHANGED faults
       \/ poll' = "Unreachable" /\ Fault(1)
    /\ readyAt' = IF poll' = "Ready" THEN boot ELSE readyAt
    /\ UNCHANGED <<chainVars, serverVars, phase, remount, waited, pageVars>>

\* Three minutes of polling are over.
Waited ==
    /\ phase \notin {"Ready", "Offline"}
    /\ waited' = TRUE
    /\ UNCHANGED <<chainVars, serverVars, phase, poll, remount, readyAt, pageVars, faults>>

PhaseAfter(answer) ==
    CASE answer = "Ready"   -> "Ready"
      [] answer = "Syncing" -> "Syncing"
      [] OTHER -> IF waited THEN "Offline" ELSE "Waking"

\* The effect that holds the first load until the indexer is ready.
FirstLoad(l) == [load EXCEPT ![l] = [Unasked EXCEPT !.kind = "first"]]

\* An answer reaches the page.  Unless it ends the wait, the next poll follows.  Loads
\* are only names, and none is under way before.  Nor can the effect run a second time
\* after: "no" and "done" come to the same.
PollTaken ==
    LET next == PhaseAfter(poll)
    IN  /\ poll \in Answers
        /\ phase' = next
        /\ poll' = IF next \in {"Ready", "Offline"} THEN "off" ELSE "asked"
        /\ waited' = (waited /\ next # "Ready")
        /\ IF next = "Ready"
           THEN load' = FirstLoad(CHOOSE l \in Loads : TRUE)
           ELSE UNCHANGED load
        /\ remount' = IF next = "Ready" /\ remount = "no" THEN "done" ELSE remount
        /\ UNCHANGED <<chainVars, serverVars, readyAt, url, view, error, faults>>

\* Mutant: the answer to the run that was cleaned up is taken.
LateTaken ==
    /\ remount = "asked"
    /\ remount' = "done"
    /\ \E answer \in Answers : phase' = PhaseAfter(answer)
    /\ UNCHANGED <<chainVars, serverVars, poll, waited, readyAt, pageVars, faults>>

\* `if (cancelled) return`: whatever the first run is answered.
LateIgnored ==
    /\ remount = "asked"
    /\ remount' = "done"
    /\ UNCHANGED <<chainVars, serverVars, phase, poll, waited, readyAt, pageVars, faults>>

StartOver ==
    /\ phase' = "Checking"
    /\ waited' = FALSE
    /\ poll' = "asked"
    /\ UNCHANGED <<chainVars, serverVars, readyAt, pageVars, faults>>

\* The visitor presses "Try again".
Retry ==
    /\ phase = "Offline"
    /\ StartOver
    /\ UNCHANGED remount

\* React cleans the effect up and runs it a second time.
Remount ==
    /\ phase = "Checking"
    /\ remount = "no"
    /\ remount' = "asked"
    /\ StartOver

-----------------------------------------------------------------------------
(* Loading the campaign                                                     *)

\* The timer of the refresh; with every load under way it counts as late.
StartRefresh(l) ==
    /\ phase = "Ready"
    /\ load[l].kind = "none"
    /\ load' = [load EXCEPT ![l] = [Unasked EXCEPT !.kind = "refresh"]]
    /\ UNCHANGED <<chainVars, serverVars, readyVars, url, view, error, faults>>

UnderWay(l) == load[l].kind # "none"

\* The /campaigns/:id route reads the row, then asks the node for the tip.
AnswerRow(l) ==
    /\ up /\ UnderWay(l)
    /\ load[l].step = "row"
    /\ load' = [load EXCEPT ![l].row = GetCampaign(url),
                            ![l].step = IF GetCampaign(url) = None THEN "done" ELSE "tip"]
    /\ UNCHANGED <<chainVars, serverVars, readyVars, url, view, error, faults>>

AnswerTip(l) ==
    /\ up /\ UnderWay(l)
    /\ load[l].step = "tip"
    /\ load' = [load EXCEPT ![l].row = WithBadge(load[l].row, block), ![l].step = "done"]
    /\ UNCHANGED <<chainVars, serverVars, readyVars, url, view, error, faults>>

Answered(l) == load[l].step = "done"

\* Only the first load says that there is no such campaign, a refresh then
\* changes nothing.
Complete(l) ==
    LET first == load[l].kind = "first"
        row   == load[l].row
    IN  /\ UnderWay(l) /\ Answered(l)
        /\ IF row = None
           THEN /\ error' = IF first THEN "not found" ELSE error
                /\ UNCHANGED view
           ELSE /\ view' = row
                /\ error' = IF first THEN "none" ELSE error
        /\ load' = [load EXCEPT ![l] = Unasked]
        /\ UNCHANGED <<chainVars, serverVars, readyVars, url, faults>>

\* Mutant: a refresh does not keep quiet.
LoadFailsLoud(l) ==
    /\ UnderWay(l)
    /\ \/ ~up /\ UNCHANGED faults
       \/ up /\ Fault(1)
    /\ error' = "failed"
    /\ load' = [load EXCEPT ![l] = Unasked]
    /\ UNCHANGED <<chainVars, serverVars, readyVars, url, view>>

\* A load fails as soon as one of its requests does, because the server is down,
\* the node does not tell the tip (500), or the answer is lost; a refresh keeps
\* quiet.
LoadFails(l) ==
    /\ UnderWay(l)
    /\ \/ ~up /\ UNCHANGED faults
       \/ up /\ Fault(1)
    /\ error' = IF load[l].kind = "first" THEN "failed" ELSE error
    /\ load' = [load EXCEPT ![l] = Unasked]
    /\ UNCHANGED <<chainVars, serverVars, readyVars, url, view>>

-----------------------------------------------------------------------------

Chain == NewBlock \/ ChainPledge \/ ChainFinalize \/ ChainDestroy
Indexer == ListCampaigns \/ ReplaceLiveCells \/ Sleep \/ Wake
Readiness ==
    \/ PollAnswered \/ PollTaken \/ LateIgnored
    \/ Waited \/ Retry \/ Remount
Loading(l) == AnswerRow(l) \/ AnswerTip(l) \/ Complete(l) \/ LoadFails(l)

Next == Chain \/ Indexer \/ Readiness \/ \E l \in Loads : StartRefresh(l) \/ Loading(l)

Spec == Init /\ [][Next]_vars

\* The indexer polls and the visitor who comes wakes it; requests are answered,
\* and timers fire.  Nothing on the chain has to happen.
Fairness ==
    /\ WF_vars(ListCampaigns) /\ WF_vars(ReplaceLiveCells) /\ WF_vars(Wake)
    /\ WF_vars(PollAnswered) /\ WF_vars(PollTaken)
    /\ \A l \in Loads : WF_vars(StartRefresh(l)) /\ WF_vars(Loading(l))

FairSpec == Spec /\ Fairness

-----------------------------------------------------------------------------
(* Safety                                                                   *)

\* Once the indexer was ready the page stays open, whatever answers are still on
\* their way from a run of the effect that was cleaned up (`if (cancelled)
\* return` in useIndexerReady).
ReadyIsFinal == [][phase = "Ready" => phase' = "Ready"]_vars

\* A link to the creation out point reads "Campaign not found" only if there is
\* no such campaign any more, even when it is opened while the indexer starts:
\* unless the indexer starts over between saying that it is ready and answering,
\* or since its start has stored the campaign without its creation hash (the effect
\* that holds the first load, getCampaign, replaceLiveCells, getOriginalTxHash).
NotFoundHonest ==
    error = "not found" /\ url = 0 /\ readyAt = boot => chain.status = "Gone" \/ astray

\* An outcome the page shows is the one the campaign has or will have, through
\* stale tables, overtaken refreshes and restarts: a status is the chain's last
\* word, a campaign announced as funded at its deadline cannot fail, and one
\* announced as failed can only succeed by pledges that its row did not count
\* (computeEffectiveStatus, loadData).
ShownOutcomeStands ==
    view # None =>
        LET badge == view.badge
        IN  /\ badge = "success" => chain.status \in {"Success", "Gone"}
            /\ badge = "failed" => chain.status \in {"Failed", "Gone"}
            /\ badge \in {"success", "failed"} => view.total = chain.total
            /\ badge = "expired_success" => chain.status # "Failed" /\ chain.total >= Goal
            /\ badge = "expired_failed" /\ chain.status = "Success" => chain.total > view.total

\* A page that shows the campaign goes on showing it: no refresh that fails, finds
\* nothing or is overtaken hides it again, and no first load is still to come that
\* could (loadData, the effects that call it).
StaysShown ==
    [][view # None /\ error = "none" => view' # None /\ error' = "none"]_vars

-----------------------------------------------------------------------------
(* What the comments and the texts of the code say                          *)

\* Violated.  What getCampaign says of itself: any id of the campaign that a
\* client holds still resolves to it.
LinkResolves ==
    up /\ ready /\ db # None /\ url <= db.ver => GetCampaign(url) # None

\* Violated.  "The funding goal was not met, so it will be marked Unsuccessful and
\* every pledge refunded" (page.tsx:1355), which an expired campaign's page says.
AnnouncedFailureStands ==
    view # None /\ view.badge = "expired_failed" /\ view.tip > Deadline =>
        chain.status # "Success"

-----------------------------------------------------------------------------
(* The inductive invariant of the proofs                                    *)

\* A row is the campaign as it once was; once decided it does not change.
Past(row) ==
    /\ row.ver <= chain.ver
    /\ row.total <= chain.total
    /\ row.status # "Active" => chain.status \in {row.status, "Gone"} /\ row.total = chain.total

Badged(row) ==
    /\ Past(row)
    /\ row.badge = "success" => row.status = "Success"
    /\ row.badge = "failed" => row.status = "Failed"
    /\ row.badge = "expired_success" => row.total >= Goal
    /\ row.badge = "expired_failed" => row.total < Goal

ChainDecides ==
    /\ chain.status = "Success" => chain.total >= Goal
    /\ chain.status = "Failed" => chain.total < Goal

RowsArePast ==
    /\ listed \in Row => Past(listed)
    /\ db \in Row => Past(db)
    /\ \A l \in Loads :
          /\ load[l].step = "row" => load[l].row = None
          /\ load[l].step = "tip" => load[l].row \in Row /\ Past(load[l].row)
          /\ load[l].step = "done" /\ load[l].row # None =>
                load[l].row \in Shown /\ Badged(load[l].row)
    /\ view # None => Badged(view)

\* Ready means indexed since the start: without a row the campaign is gone, and
\* the row has its creation unless a look-up went astray.
ReadyMeansIndexed ==
    /\ listed = None => chain.status = "Gone"
    /\ ready /\ db = None => chain.status = "Gone"
    /\ ready /\ db # None => db.link = 0 \/ astray
    /\ ~up => boot < MaxBoots
    /\ readyAt <= boot
    /\ readyAt = boot => ready

\* Loads wait for the phase to be Ready, which ends the polling.
LoadsWait ==
    /\ phase = "Ready" => poll = "off"
    /\ \A l \in Loads : UnderWay(l) => phase = "Ready"
    /\ error # "loading" => phase = "Ready"
    /\ \A l \in Loads :
          UnderWay(l) /\ load[l].step = "done" /\ load[l].row = None /\ url = 0 /\ readyAt = boot
              => chain.status = "Gone" \/ astray

\* There is one first load, and while it is under way the page is loading.
FirstIsOnce ==
    \A l \in Loads : load[l].kind = "first" =>
        /\ error = "loading"
        /\ \A m \in Loads : load[m].kind = "first" => m = l

PageInv ==
    /\ TypeOK
    /\ ChainDecides
    /\ RowsArePast
    /\ ReadyMeansIndexed
    /\ LoadsWait
    /\ FirstIsOnce
    /\ NotFoundHonest

-----------------------------------------------------------------------------
(* Liveness under FairSpec                                                  *)

\* The wait for the indexer ends, and so does the first load.  A page opened by the
\* creation out point in the end has the campaign as it is, through loads that fail
\* or are overtaken: the refresh needs no order among its answers, for it goes on.
\* The exception is a walk that is remembered and ended before the creation.
PageConverges ==
    <>[](\/ phase = "Offline"
         \/ /\ phase = "Ready"
            /\ error # "loading"
            /\ url = 0 /\ chain.status # "Gone" /\ origin \in {0, None} =>
                  view = WithBadge(RowOf(chain), block))

=============================================================================
