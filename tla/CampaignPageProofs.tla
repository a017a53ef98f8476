-------------------------- MODULE CampaignPageProofs --------------------------
(* Safety of CampaignPage, for any goal and deadline, any number of pledges,  *)
(* of loads that overlap and of restarts of the indexer.                      *)
EXTENDS CampaignPage, TLAPS

\* A fault stays below the bound.
LEMMA FaultType ==
    ASSUME NEW n \in 0 .. 1, faults \in 0 .. MaxFaults, Fault(n)
    PROVE  faults' \in 0 .. MaxFaults
BY PageAssumption DEF Fault

LEMMA InitInv == Init => PageInv
<1> SUFFICES ASSUME Init PROVE PageInv
  OBVIOUS
<1> USE PageAssumption DEF Init
<1>1. TypeOK
  <2>1. Unasked \in Load
    BY DEF Unasked, Load
  <2>2. chain \in Campaign
    BY DEF Campaign, Statuses
  <2>3. load \in [Loads -> Load]
    BY <2>1
  <2>4. boot \in 1 .. MaxBoots /\ readyAt \in 0 .. MaxBoots /\ block \in 0 .. Horizon
        /\ faults \in 0 .. MaxFaults
    OBVIOUS
  <2>5. phase \in Phases
    BY DEF Phases
  <2> QED BY <2>2, <2>3, <2>4, <2>5 DEF TypeOK
<1>2. ChainDecides
  BY DEF ChainDecides
<1>3. RowsArePast
  BY DEF RowsArePast, Unasked
<1>4. ReadyMeansIndexed
  BY DEF ReadyMeansIndexed
<1>5. LoadsWait /\ FirstIsOnce /\ NotFoundHonest
  BY DEF LoadsWait, FirstIsOnce, NotFoundHonest, UnderWay, Unasked
<1> QED BY <1>1, <1>2, <1>3, <1>4, <1>5 DEF PageInv

\* What the chain does to a campaign, in terms that rows need: it moves on, and
\* what is decided stays.
ChainMoves ==
    /\ chain.ver <= chain'.ver
    /\ chain.total <= chain'.total
    /\ chain.status # "Active" => chain'.status \in {chain.status, "Gone"} /\ chain'.total = chain.total

LEMMA ChainStepMoves ==
    ASSUME TypeOK, ChainDecides, Chain
    PROVE  /\ ChainMoves
           /\ ChainDecides'
           /\ chain' \in Campaign
           /\ block' \in 0 .. Horizon
           /\ UNCHANGED OffChain
<1> USE PageAssumption
<1>0. /\ chain \in Campaign
      /\ block \in 0 .. Horizon
  BY DEF TypeOK
<1>1. CASE NewBlock
  BY <1>0, <1>1 DEF NewBlock, ChainMoves, ChainDecides, Campaign
<1>2. CASE ChainPledge
  <2>1. chain' = [ver |-> chain.ver + 1, status |-> chain.status, total |-> chain.total + 1]
    BY <1>0, <1>2 DEF ChainPledge, Campaign
  <2> QED BY <1>0, <1>2, <2>1 DEF ChainPledge, ChainMoves, ChainDecides, Campaign
<1>3. CASE ChainFinalize
  <2>1. /\ chain.total >= Goal =>
              chain' = [ver |-> chain.ver + 1, status |-> "Success", total |-> chain.total]
        /\ ~(chain.total >= Goal) =>
              chain' = [ver |-> chain.ver + 1, status |-> "Failed", total |-> chain.total]
    BY <1>0, <1>3 DEF ChainFinalize, Campaign
  <2> QED BY <1>0, <1>3, <2>1 DEF ChainFinalize, ChainMoves, ChainDecides, Statuses, Campaign
<1>4. CASE ChainDestroy
  <2>1. chain' = [ver |-> chain.ver, status |-> "Gone", total |-> chain.total]
    BY <1>0, <1>4 DEF ChainDestroy, Campaign
  <2> QED BY <1>0, <1>4, <2>1 DEF ChainDestroy, ChainMoves, ChainDecides, Campaign
<1> QED BY <1>1, <1>2, <1>3, <1>4 DEF Chain

\* A row of the past stays one, and what was gone is gone.
LEMMA PastStays ==
    ASSUME TypeOK, ChainMoves,
           chain' \in Campaign,
           NEW row \in Row \cup Shown, Past(row)
    PROVE  /\ row.ver <= chain'.ver
           /\ row.total <= chain'.total
           /\ row.status # "Active" =>
                 chain'.status \in {row.status, "Gone"} /\ row.total = chain'.total
<1> row.ver \in Nat /\ row.total \in Nat /\ row.status \in Statuses
  BY DEF Row, Shown
<1> /\ chain.ver \in Nat /\ chain.total \in Nat
    /\ chain'.ver \in Nat /\ chain'.total \in Nat
  BY DEF TypeOK, Campaign
<1> QED BY DEF Past, ChainMoves, Statuses

LEMMA ChainStep == ASSUME PageInv, Chain PROVE PageInv'
<1> USE PageAssumption
<1>0. TypeOK /\ ChainDecides /\ RowsArePast /\ ReadyMeansIndexed /\ LoadsWait
      /\ FirstIsOnce /\ NotFoundHonest
  BY DEF PageInv
<1>1. /\ ChainMoves /\ ChainDecides'
      /\ chain' \in Campaign
      /\ block' \in 0 .. Horizon
      /\ UNCHANGED OffChain
  BY <1>0, ChainStepMoves
<1>2. /\ UNCHANGED <<boot, up, ready, listed, db, origin, astray, faults>>
      /\ UNCHANGED <<phase, poll, remount, waited, readyAt>>
      /\ UNCHANGED <<url, load, view, error>>
  BY <1>1 DEF OffChain, serverVars, readyVars, pageVars
<1>3. TypeOK'
  <2>1. /\ chain' \in Campaign /\ block' \in 0 .. Horizon
        /\ boot' \in 1 .. MaxBoots /\ readyAt' \in 0 .. MaxBoots
        /\ faults' \in 0 .. MaxFaults
    BY <1>0, <1>1, <1>2 DEF TypeOK
  <2>2. /\ up' \in BOOLEAN /\ ready' \in BOOLEAN /\ astray' \in BOOLEAN
        /\ listed' \in Row \cup {None, Unlisted} /\ db' \in Row \cup {None}
        /\ origin' \in Nat \cup {None}
    BY <1>0, <1>2 DEF TypeOK
  <2>3. /\ url' \in Links /\ phase' \in Phases
        /\ poll' \in {"off", "asked"} \cup Answers
        /\ remount' \in {"no", "asked", "done"}
        /\ waited' \in BOOLEAN
    BY <1>0, <1>2 DEF TypeOK
  <2>4. /\ load' \in [Loads -> Load] /\ view' \in Shown \cup {None}
        /\ error' \in {"none", "loading", "failed", "not found"}
    BY <1>0, <1>2 DEF TypeOK
  <2> QED BY <2>1, <2>2, <2>3, <2>4 DEF TypeOK
<1>4. chain.status = "Gone" => chain'.status = "Gone"
  BY <1>1 DEF ChainMoves
<1>5. RowsArePast'
  <2>1. (listed \in Row => Past(listed))'
    BY <1>0, <1>1, <1>2, PastStays DEF RowsArePast, Past
  <2>2. (db \in Row => Past(db))'
    BY <1>0, <1>1, <1>2, PastStays DEF RowsArePast, Past
  <2>3. ASSUME NEW l \in Loads
        PROVE  (/\ load[l].step = "row" => load[l].row = None
                /\ load[l].step = "tip" => load[l].row \in Row /\ Past(load[l].row)
                /\ load[l].step = "done" /\ load[l].row # None =>
                      load[l].row \in Shown /\ Badged(load[l].row))'
    BY <1>0, <1>1, <1>2, PastStays DEF RowsArePast, Past, Badged
  <2>4. (view # None => Badged(view))'
    <3>1. view # None => view \in Shown
      BY <1>0 DEF TypeOK
    <3> QED BY <3>1, <1>0, <1>1, <1>2, PastStays DEF RowsArePast, Past, Badged
  <2> QED BY <2>1, <2>2, <2>3, <2>4 DEF RowsArePast
<1>6. ReadyMeansIndexed'
  BY <1>0, <1>2, <1>4 DEF ReadyMeansIndexed
<1>7. LoadsWait' /\ FirstIsOnce' /\ NotFoundHonest'
  BY <1>0, <1>2, <1>4 DEF LoadsWait, FirstIsOnce, NotFoundHonest, UnderWay
<1> QED BY <1>1, <1>3, <1>5, <1>6, <1>7 DEF PageInv

\* What a look-up comes to, and the row with it.
LEMMA ListStep ==
    ASSUME TypeOK, ListCampaigns
    PROVE  /\ \/ listed' = None /\ chain.status = "Gone"
              \/ listed' \in Row /\ Past(listed')
           /\ origin' \in Nat \cup {None}
           /\ faults' \in 0 .. MaxFaults
<1> USE PageAssumption
<1>0. /\ chain \in Campaign /\ chain.ver \in Nat
      /\ faults \in 0 .. MaxFaults
      /\ origin \in Nat \cup {None}
  BY DEF TypeOK, Campaign
<1>1. CASE RowOf(chain) = None
  <2>1. listed' = None /\ UNCHANGED <<origin, faults>>
    BY <1>1 DEF ListCampaigns
  <2>2. chain.status = "Gone"
    <3> SUFFICES ASSUME chain.status # "Gone" PROVE FALSE
      OBVIOUS
    <3>1. RowOf(chain) \in Row
      BY <1>0 DEF RowOf, Row, Campaign, Statuses
    <3> QED BY <3>1, <1>1
  <2> QED BY <2>1, <2>2, <1>0
<1>2. CASE RowOf(chain) # None
  <2>1. PICK link \in 0 .. chain.ver :
            LookUp(link) /\ listed' = [RowOf(chain) EXCEPT !.link = link]
    BY <1>2 DEF ListCampaigns
  <2>2. chain.status # "Gone"
    BY <1>2 DEF RowOf
  <2>3. listed' = [ver |-> chain.ver, status |-> chain.status, total |-> chain.total, link |-> link]
    BY <2>1, <2>2 DEF RowOf
  <2>4. listed' \in Row /\ Past(listed')
    BY <2>2, <2>3, <1>0 DEF Past, Row, Campaign
  <2>5. origin' \in Nat \cup {None}
    BY <2>1, <1>0 DEF LookUp
  <2>6. faults' = faults \/ \E n \in 0 .. 1 : Fault(n)
    BY <2>1 DEF LookUp
  <2>7. faults' \in 0 .. MaxFaults
    BY <2>6, <1>0, FaultType
  <2> QED BY <2>4, <2>5, <2>7
<1> QED BY <1>1, <1>2

LEMMA IndexerStep == ASSUME PageInv, Indexer PROVE PageInv'
<1> USE PageAssumption
<1>0. TypeOK /\ ChainDecides /\ RowsArePast /\ ReadyMeansIndexed /\ LoadsWait
      /\ FirstIsOnce /\ NotFoundHonest
  BY DEF PageInv
<1>1. /\ UNCHANGED <<chain, block, url, load, view, error>>
      /\ UNCHANGED <<phase, poll, remount, waited, readyAt>>
  BY DEF Indexer, ListCampaigns, ReplaceLiveCells, Sleep, Wake, chainVars, readyVars, pageVars
<1>2. /\ boot \in 1 .. MaxBoots /\ readyAt \in 0 .. MaxBoots /\ readyAt <= boot
      /\ listed \in Row \cup {None, Unlisted} /\ db \in Row \cup {None}
      /\ origin \in Nat \cup {None}
      /\ astray \in BOOLEAN
      /\ faults \in 0 .. MaxFaults
      /\ listed \in Row => Past(listed)
      /\ db \in Row => Past(db)
      /\ listed = None => chain.status = "Gone"
      /\ ready /\ db = None => chain.status = "Gone"
      /\ ready /\ db # None => db.link = 0 \/ astray
      /\ ~up => boot < MaxBoots
      /\ up \in BOOLEAN /\ ready \in BOOLEAN
      /\ readyAt = boot => ready
  BY <1>0 DEF TypeOK, RowsArePast, ReadyMeansIndexed
\* What each step of the indexer leaves, in the terms of the invariant.
<1> DEFINE Kept ==
        /\ boot' \in 1 .. MaxBoots
        /\ boot <= boot'
        /\ ~up' => boot' < MaxBoots
        /\ up' \in BOOLEAN /\ ready' \in BOOLEAN /\ astray' \in BOOLEAN
        /\ listed' \in Row \cup {None, Unlisted}
        /\ db' \in Row \cup {None}
        /\ origin' \in Nat \cup {None}
        /\ faults' \in 0 .. MaxFaults
        /\ listed' \in Row => Past(listed')
        /\ listed' = None => chain.status = "Gone"
        /\ db' \in Row => Past(db')
        /\ ready' /\ db' = None => chain.status = "Gone"
        /\ ready' /\ db' # None => db'.link = 0 \/ astray'
        /\ readyAt = boot' => boot' = boot /\ (ready => ready') /\ (astray => astray')
<1>3. Kept
  <2>1. CASE ListCampaigns
    <3>1. UNCHANGED <<boot, up, ready, db, astray>>
      BY <2>1 DEF ListCampaigns
    <3>2. /\ \/ listed' = None /\ chain.status = "Gone"
             \/ listed' \in Row /\ Past(listed')
          /\ origin' \in Nat \cup {None}
          /\ faults' \in 0 .. MaxFaults
      BY <2>1, <1>0, ListStep
    <3> QED BY <3>1, <3>2, <1>2
  <2>2. CASE ReplaceLiveCells
    <3>1. UNCHANGED <<boot, up, origin>> /\ up /\ listed # Unlisted /\ listed' = Unlisted
      BY <2>2 DEF ReplaceLiveCells
    <3>2. CASE /\ db' = listed /\ ready' = TRUE
               /\ astray' = (astray \/ (listed # None /\ listed.link # 0))
               /\ UNCHANGED faults
      <4>1. boot' \in 1 .. MaxBoots /\ boot <= boot' /\ faults' \in 0 .. MaxFaults
        BY <3>1, <3>2, <1>2
      <4>2. astray' \in BOOLEAN /\ (astray => astray')
        BY <3>2, <1>2, Zenon
      <4>3. ready' /\ db' # None => db'.link = 0 \/ astray'
        BY <3>2, <1>2, Zenon
      <4> QED BY <3>1, <3>2, <4>1, <4>2, <4>3, <1>2, Zenon
    <3>3. CASE Fault(1) /\ UNCHANGED <<db, ready, astray>>
      <4>1. faults' \in 0 .. MaxFaults
        BY <3>3, <1>2, FaultType
      <4> QED BY <3>1, <3>3, <4>1, <1>2
    <3> QED BY <2>2, <3>2, <3>3 DEF ReplaceLiveCells
  <2>3. CASE Sleep
    <3>1. /\ boot' = boot /\ boot < MaxBoots /\ up' = FALSE
          /\ UNCHANGED <<ready, listed, db, origin, astray, faults>>
      BY <2>3 DEF Sleep
    <3>2. boot' \in 1 .. MaxBoots /\ boot <= boot' /\ boot' < MaxBoots /\ faults' \in 0 .. MaxFaults
      BY <3>1, <1>2
    <3>3. db' \in Row => Past(db')
      BY <3>1, <1>2
    <3> QED BY <3>1, <3>2, <3>3, <1>2, Zenon
  <2>4. CASE Wake
    <3>1. /\ boot' = boot + 1 /\ ~up /\ up' = TRUE /\ ready' = FALSE
          /\ listed' = Unlisted /\ db' \in {db, None} /\ origin' = None /\ astray' = FALSE
          /\ UNCHANGED faults
      BY <2>4 DEF Wake
    <3>2. boot' \in 1 .. MaxBoots /\ boot <= boot' /\ readyAt # boot'
      BY <3>1, <1>2
    <3> QED BY <3>1, <3>2, <1>2
  <2> QED BY <2>1, <2>2, <2>3, <2>4 DEF Indexer
<1>4. TypeOK'
  BY <1>0, <1>1, <1>2, <1>3 DEF TypeOK
<1>5. ChainDecides' /\ RowsArePast' /\ FirstIsOnce'
  BY <1>0, <1>1, <1>3 DEF ChainDecides, RowsArePast, Past, Badged, FirstIsOnce
<1>6. ReadyMeansIndexed'
  BY <1>0, <1>1, <1>2, <1>3 DEF ReadyMeansIndexed
<1>7. LoadsWait' /\ NotFoundHonest'
  BY <1>0, <1>1, <1>3 DEF LoadsWait, NotFoundHonest, UnderWay
<1> QED BY <1>4, <1>5, <1>6, <1>7 DEF PageInv

LEMMA ReadinessStep ==
    ASSUME PageInv, Readiness
    PROVE  PageInv' /\ (phase = "Ready" => phase' = "Ready") /\ UNCHANGED <<view, error>>
<1> USE PageAssumption
<1>0. TypeOK /\ ChainDecides /\ RowsArePast /\ ReadyMeansIndexed /\ LoadsWait
      /\ FirstIsOnce /\ NotFoundHonest
  BY DEF PageInv
<1> USE DEF Readiness, PollAnswered, PollTaken, LateIgnored, Waited, Retry, Remount, StartOver
<1>1. /\ UNCHANGED <<chain, block, boot, up, ready, listed, db, origin, astray>>
      /\ UNCHANGED <<url, view, error>>
  BY DEF chainVars, serverVars, pageVars
<1>2. Status \in Answers /\ (Status = "Ready" => ready)
  BY DEF Status, Answers
<1>3. /\ phase' \in Phases
      /\ poll' \in {"off", "asked"} \cup Answers
      /\ remount' \in {"no", "asked", "done"}
      /\ waited' \in BOOLEAN
  BY <1>0, <1>2 DEF TypeOK, PhaseAfter, Phases, Answers
<1>4. phase = "Ready" =>
         phase' = "Ready" /\ poll' = "off" /\ readyAt' = readyAt /\ load' = load
  BY <1>0 DEF LoadsWait, Answers, pageVars
<1>5. /\ readyAt' \in 0 .. MaxBoots
      /\ readyAt' <= boot
      /\ readyAt' = boot => ready
  <2>1. /\ boot \in 1 .. MaxBoots /\ readyAt \in 0 .. MaxBoots
        /\ readyAt <= boot /\ (readyAt = boot => ready)
    BY <1>0 DEF TypeOK, ReadyMeansIndexed
  <2>2. readyAt' = readyAt \/ (readyAt' = boot /\ Status = "Ready")
    OBVIOUS
  <2> QED BY <2>1, <2>2, <1>2
<1>6. phase # "Ready" /\ phase' # "Ready" => load' = load
  BY DEF pageVars, PhaseAfter
<1>7. phase # "Ready" /\ phase' = "Ready" =>
         poll' = "off" /\ \E l \in Loads : load' = FirstLoad(l)
  <2>1. (CHOOSE l \in Loads : TRUE) \in Loads
    OBVIOUS
  <2>2. phase # "Ready" /\ phase' = "Ready" =>
           poll' = "off" /\ load' = FirstLoad(CHOOSE l \in Loads : TRUE)
    BY DEF PhaseAfter
  <2> QED BY <2>1, <2>2
<1>8. \/ load' = load
      \/ phase # "Ready" /\ phase' = "Ready" /\ \E l \in Loads : load' = FirstLoad(l)
  BY <1>4, <1>6, <1>7
<1>9. [Unasked EXCEPT !.kind = "first"] = [kind |-> "first", step |-> "row", row |-> None]
  BY DEF Unasked
<1>10. faults' \in 0 .. MaxFaults
  <2>1. faults \in 0 .. MaxFaults
    BY <1>0 DEF TypeOK
  <2>2. faults' = faults \/ Fault(1)
    OBVIOUS
  <2> QED BY <2>1, <2>2, FaultType
<1>11. load \in [Loads -> Load] /\ load' \in [Loads -> Load]
  <2>1. load \in [Loads -> Load]
    BY <1>0 DEF TypeOK
  <2>2. [kind |-> "first", step |-> "row", row |-> None] \in Load
    BY DEF Load
  <2> QED BY <1>8, <1>9, <2>1, <2>2 DEF FirstLoad
<1>12. TypeOK'
  BY <1>0, <1>1, <1>3, <1>5, <1>11, <1>10 DEF TypeOK
<1>13. \A l \in Loads : load'[l] = load[l] \/ load'[l] = [kind |-> "first", step |-> "row", row |-> None]
  BY <1>8, <1>9, <1>11 DEF FirstLoad
<1>14. ChainDecides' /\ RowsArePast' /\ ReadyMeansIndexed'
  <2>1. ChainDecides' /\ ReadyMeansIndexed'
    BY <1>0, <1>1, <1>5 DEF ChainDecides, ReadyMeansIndexed
  <2>2. RowsArePast'
    BY <1>0, <1>1, <1>13 DEF RowsArePast, Past, Badged
  <2> QED BY <2>1, <2>2
<1>15. LoadsWait'
  <2>1. CASE phase = "Ready"
    BY <2>1, <1>0, <1>1, <1>4 DEF LoadsWait, UnderWay
  <2>2. CASE phase # "Ready" /\ phase' # "Ready"
    BY <2>2, <1>0, <1>1, <1>6 DEF LoadsWait, UnderWay
  <2>3. CASE phase # "Ready" /\ phase' = "Ready"
    <3>1. \A l \in Loads : load[l].kind = "none"
      BY <2>3, <1>0 DEF LoadsWait, UnderWay
    <3>2. \A l \in Loads : load'[l].kind = "none" \/ load'[l].step = "row"
      BY <3>1, <1>13
    <3> QED BY <2>3, <3>2, <1>7 DEF LoadsWait, UnderWay
  <2> QED BY <2>1, <2>2, <2>3
<1>16. NotFoundHonest'
  BY <1>0, <1>1, <1>4 DEF NotFoundHonest, LoadsWait
<1>17. FirstIsOnce'
  <2>1. CASE load' = load
    BY <2>1, <1>0, <1>1 DEF FirstIsOnce
  <2>2. CASE phase # "Ready" /\ \E l \in Loads : load' = FirstLoad(l)
    <3>1. (\A m \in Loads : load[m].kind = "none") /\ error = "loading"
      BY <2>2, <1>0 DEF LoadsWait, UnderWay
    <3>2. PICK l \in Loads : load' = FirstLoad(l)
      BY <2>2
    <3>3. \A m \in Loads \ {l} : load'[m].kind = "none"
      BY <3>1, <3>2, <1>11 DEF FirstLoad
    <3> QED BY <3>1, <3>3, <1>1 DEF FirstIsOnce
  <2> QED BY <2>1, <2>2, <1>8
<1> QED BY <1>1, <1>4, <1>12, <1>14, <1>15, <1>16, <1>17 DEF PageInv

\* The steps of a load change this load, the view and the error.
LEMMA LoadingStep ==
    ASSUME PageInv, NEW l \in Loads, StartRefresh(l) \/ Loading(l)
    PROVE  /\ PageInv'
           /\ phase' = phase
           /\ view # None /\ error = "none" => view' # None /\ error' = "none"
<1> USE PageAssumption
<1>0. TypeOK /\ ChainDecides /\ RowsArePast /\ ReadyMeansIndexed /\ LoadsWait
      /\ FirstIsOnce /\ NotFoundHonest
  BY DEF PageInv
<1>1. /\ UNCHANGED <<chain, block, boot, up, ready, listed, db, origin, astray, url>>
      /\ UNCHANGED <<phase, poll, remount, waited, readyAt>>
  BY DEF StartRefresh, Loading, AnswerRow, AnswerTip, Complete, LoadFails, chainVars, serverVars,
     readyVars
<1>2. /\ load \in [Loads -> Load]
      /\ load[l].kind \in {"none", "first", "refresh"}
      /\ load[l].row \in Row \cup Shown \cup {None}
      /\ block \in Nat
  <2>1. load \in [Loads -> Load] /\ block \in 0 .. Horizon
    BY <1>0 DEF TypeOK
  <2> QED BY <2>1 DEF Load
<1>3. /\ phase = "Ready"
      /\ load[l].step = "row" => load[l].row = None
      /\ load[l].step = "tip" => load[l].row \in Row /\ Past(load[l].row)
      /\ load[l].step = "done" /\ load[l].row # None =>
            load[l].row \in Shown /\ Badged(load[l].row)
      /\ UnderWay(l) /\ load[l].step = "done" /\ load[l].row = None /\ url = 0 /\ readyAt = boot
            => chain.status = "Gone" \/ astray
  BY <1>0 DEF RowsArePast, LoadsWait, StartRefresh, Loading, AnswerRow, AnswerTip, Complete,
     LoadFails
\* What becomes of the load.
<1> DEFINE Good(x) ==
        /\ x \in Load
        /\ x.step = "row" => x.row = None
        /\ x.step = "tip" => x.row \in Row /\ Past(x.row)
        /\ x.step = "done" /\ x.row # None => x.row \in Shown /\ Badged(x.row)
        /\ x.step = "done" /\ x.row = None /\ url = 0 /\ readyAt = boot
              => chain.status = "Gone" \/ astray
        /\ x.kind = "first" => load[l].kind = "first" /\ error' = error
<1>4. PICK x : Good(x) /\ load' = [load EXCEPT ![l] = x]
  <2>1. CASE StartRefresh(l)
    <3>0. [Unasked EXCEPT !.kind = "refresh"] = [kind |-> "refresh", step |-> "row", row |-> None]
      BY DEF Unasked
    <3>1. load' = [load EXCEPT ![l] = [kind |-> "refresh", step |-> "row", row |-> None]]
      BY <2>1, <3>0 DEF StartRefresh
    <3>2. Good([kind |-> "refresh", step |-> "row", row |-> None])
      BY DEF Load
    <3> QED BY <3>1, <3>2
  <2>2. CASE Complete(l) \/ LoadFails(l)
    <3>1. load' = [load EXCEPT ![l] = [kind |-> "none", step |-> "row", row |-> None]]
      BY <2>2 DEF Complete, LoadFails, Unasked
    <3>2. Good([kind |-> "none", step |-> "row", row |-> None])
      BY DEF Load
    <3> QED BY <3>1, <3>2
  <2>3. CASE AnswerRow(l)
    <3> DEFINE row == GetCampaign(url)
               x == [kind |-> load[l].kind,
                     step |-> IF row = None THEN "done" ELSE "tip", row |-> row]
    <3>1. load' = [load EXCEPT ![l] = x]
      BY <2>3, <1>2 DEF AnswerRow, Load
    <3>2. row = None \/ (row = db /\ row \in Row /\ Past(row))
      BY <1>0 DEF GetCampaign, TypeOK, RowsArePast
    <3>3. row = None /\ url = 0 /\ readyAt = boot => chain.status = "Gone" \/ astray
      BY <1>0 DEF GetCampaign, ReadyMeansIndexed
    <3>4. x \in Load
      BY <3>2, <1>2 DEF Load
    <3>5. /\ x.row = row
          /\ row = None => x.step = "done"
          /\ row # None => x.step = "tip"
          /\ x.kind = load[l].kind /\ error' = error
      BY <2>3 DEF AnswerRow
    <3> HIDE DEF row, x
    <3>6. Good(x)
      BY <3>2, <3>3, <3>4, <3>5
    <3> QED BY <3>1, <3>6
  <2>4. CASE AnswerTip(l)
    <3> DEFINE row == WithBadge(load[l].row, block)
               x == [kind |-> load[l].kind, step |-> "done", row |-> row]
    <3>1. load' = [load EXCEPT ![l] = x]
      BY <2>4, <1>2 DEF AnswerTip, Load
    <3>2. load[l].row \in Row /\ Past(load[l].row)
      BY <2>4, <1>3 DEF AnswerTip
    <3>3. /\ load[l].row.ver \in Nat /\ load[l].row.total \in Nat
          /\ load[l].row.status \in Statuses
      BY <3>2 DEF Row
    <3>4. /\ row \in Shown
          /\ row.ver = load[l].row.ver /\ row.total = load[l].row.total
          /\ row.status = load[l].row.status
          /\ row.badge = Badge(load[l].row, block)
      <4>1. Badge(load[l].row, block) \in Badges
        BY DEF Badge, Badges
      <4> QED BY <4>1, <1>2, <3>3 DEF WithBadge, Shown
    <3>5. /\ row.badge = "success" => row.status = "Success"
          /\ row.badge = "failed" => row.status = "Failed"
          /\ row.badge = "expired_success" => row.total >= Goal
          /\ row.badge = "expired_failed" => row.total < Goal
      BY <3>3, <3>4 DEF Badge, Statuses
    <3>6. Past(row)
      BY <3>2, <3>4 DEF Past
    <3>7. x \in Load
      BY <3>4, <1>2 DEF Load
    <3>8. x.step = "done" /\ x.row = row /\ row # None /\ x.kind = load[l].kind /\ error' = error
      BY <2>4, <3>4 DEF AnswerTip
    <3> HIDE DEF row, x
    <3>9. Good(x)
      BY <3>4, <3>5, <3>6, <3>7, <3>8 DEF Badged
    <3> QED BY <3>1, <3>9
  <2> QED BY <2>1, <2>2, <2>3, <2>4 DEF Loading
<1>5. load' \in [Loads -> Load] /\ \A m \in Loads : load'[m] = IF m = l THEN x ELSE load[m]
  BY <1>2, <1>4
\* What becomes of the view and the error.
<1>6. /\ view' \in Shown \cup {None}
      /\ view' # None => Badged(view')
  <2>1. view \in Shown \cup {None} /\ (view # None => Badged(view))
    BY <1>0 DEF TypeOK, RowsArePast
  <2>2. view' = view \/ (load[l].step = "done" /\ load[l].row # None /\ view' = load[l].row)
    BY DEF StartRefresh, Loading, AnswerRow, AnswerTip, Complete, LoadFails, Answered
  <2> QED BY <2>1, <2>2, <1>3
<1>7. /\ error' \in {"none", "loading", "failed", "not found"}
      /\ error' = "not found" /\ url = 0 /\ readyAt = boot => chain.status = "Gone" \/ astray
  <2>1. /\ error \in {"none", "loading", "failed", "not found"}
        /\ error = "not found" /\ url = 0 /\ readyAt = boot => chain.status = "Gone" \/ astray
    BY <1>0 DEF TypeOK, NotFoundHonest
  <2>2. \/ error' = error \/ error' = "none" \/ error' = "failed"
        \/ error' = "not found" /\ UnderWay(l) /\ load[l].step = "done" /\ load[l].row = None
    BY DEF StartRefresh, Loading, AnswerRow, AnswerTip, Complete, LoadFails, Answered
  <2> QED BY <2>1, <2>2, <1>3
<1>8. faults' \in 0 .. MaxFaults
  <2>1. faults \in 0 .. MaxFaults
    BY <1>0 DEF TypeOK
  <2>2. faults' = faults \/ Fault(1)
    BY DEF StartRefresh, Loading, AnswerRow, AnswerTip, Complete, LoadFails
  <2> QED BY <2>1, <2>2, FaultType
<1>9. TypeOK'
  BY <1>0, <1>1, <1>5, <1>6, <1>7, <1>8 DEF TypeOK
<1>10. ChainDecides' /\ ReadyMeansIndexed'
  BY <1>0, <1>1 DEF ChainDecides, ReadyMeansIndexed
<1>11. RowsArePast'
  <2>1. \A m \in Loads : Good(load'[m]) \/ load'[m] = load[m]
    BY <1>4, <1>5
  <2>2. ASSUME NEW m \in Loads
        PROVE  /\ load'[m].step = "row" => load'[m].row = None
               /\ load'[m].step = "tip" => load'[m].row \in Row /\ Past(load'[m].row)
               /\ load'[m].step = "done" /\ load'[m].row # None =>
                     load'[m].row \in Shown /\ Badged(load'[m].row)
    BY <2>1, <1>0 DEF RowsArePast
  <2> HIDE DEF Good
  <2> QED BY <2>2, <1>0, <1>1, <1>6 DEF RowsArePast, Past, Badged
<1>12. LoadsWait'
  <2>1. phase = "Ready" => poll = "off"
    BY <1>0 DEF LoadsWait
  <2>2. ASSUME NEW m \in Loads,
               UnderWay(m)', load'[m].step = "done", load'[m].row = None, url = 0, readyAt = boot
        PROVE  chain.status = "Gone" \/ astray
    <3>1. CASE m = l
      BY <2>2, <3>1, <1>4, <1>5
    <3>2. CASE m # l
      BY <2>2, <3>2, <1>0, <1>5 DEF LoadsWait, UnderWay
    <3> QED BY <3>1, <3>2
  <2> HIDE DEF Good
  <2> QED BY <2>1, <2>2, <1>1, <1>3 DEF LoadsWait
<1>13. NotFoundHonest'
  BY <1>1, <1>7 DEF NotFoundHonest
\* Only the first load changes the error, and then it is over.
<1>14. error' = error \/ (load[l].kind = "first" /\ load'[l].kind = "none")
  <2>1. CASE Complete(l) \/ LoadFails(l)
    <3>1. load' = [load EXCEPT ![l] = [kind |-> "none", step |-> "row", row |-> None]]
      BY <2>1 DEF Complete, LoadFails, Unasked
    <3>2. load'[l].kind = "none"
      BY <3>1, <1>2
    <3> QED BY <2>1, <3>2 DEF Complete, LoadFails
  <2>2. CASE StartRefresh(l) \/ AnswerRow(l) \/ AnswerTip(l)
    BY <2>2 DEF StartRefresh, AnswerRow, AnswerTip
  <2> QED BY <2>1, <2>2 DEF Loading
<1>15. FirstIsOnce'
  <2>1. \A m \in Loads : load'[m].kind = "first" => load[m].kind = "first" /\ error' = error
    <3> SUFFICES ASSUME NEW m \in Loads, load'[m].kind = "first"
                 PROVE  load[m].kind = "first" /\ error' = error
      OBVIOUS
    <3>1. CASE m = l
      BY <3>1, <1>4, <1>5
    <3>2. CASE m # l
      <4>1. load[m].kind = "first"
        BY <3>2, <1>5
      <4>2. load[l].kind # "first"
        BY <3>2, <4>1, <1>0 DEF FirstIsOnce
      <4> QED BY <4>1, <4>2, <1>14
    <3> QED BY <3>1, <3>2
  <2> HIDE DEF Good
  <2> QED BY <2>1, <1>0 DEF FirstIsOnce
<1>16. view # None /\ error = "none" => view' # None /\ error' = "none"
  <2> SUFFICES ASSUME view # None, error = "none" PROVE view' # None /\ error' = "none"
    OBVIOUS
  <2>1. load[l].kind # "first"
    BY <1>0 DEF FirstIsOnce
  <2>2. view' = view \/ (load[l].row # None /\ view' = load[l].row)
    BY DEF StartRefresh, Loading, AnswerRow, AnswerTip, Complete, LoadFails
  <2> QED BY <2>1, <2>2, <1>14
<1> QED BY <1>1, <1>9, <1>10, <1>11, <1>12, <1>13, <1>15, <1>16 DEF PageInv

LEMMA NextStep ==
    ASSUME PageInv, [Next]_vars
    PROVE  /\ PageInv'
           /\ phase = "Ready" => phase' = "Ready"
           /\ view # None /\ error = "none" => view' # None /\ error' = "none"
<1>1. CASE Chain
  <2>1. UNCHANGED <<phase, view, error>>
    BY <1>1 DEF Chain, NewBlock, ChainPledge, ChainFinalize, ChainDestroy, OffChain, readyVars,
       pageVars
  <2> QED BY <1>1, <2>1, ChainStep
<1>2. CASE Indexer
  <2>1. UNCHANGED <<phase, view, error>>
    BY <1>2 DEF Indexer, ListCampaigns, ReplaceLiveCells, Sleep, Wake, readyVars, pageVars
  <2> QED BY <1>2, <2>1, IndexerStep
<1>3. CASE Readiness
  BY <1>3, ReadinessStep
<1>4. CASE \E l \in Loads : StartRefresh(l) \/ Loading(l)
  BY <1>4, LoadingStep
<1>5. CASE UNCHANGED vars
  <2>0. /\ UNCHANGED <<chain, block, boot, up, ready, listed, db, origin, astray, faults>>
        /\ UNCHANGED <<url, load, view, error>>
        /\ UNCHANGED <<phase, poll, remount, waited, readyAt>>
    BY <1>5 DEF vars, chainVars, serverVars, readyVars, pageVars
  <2> USE <2>0
  <2>1. TypeOK' /\ ChainDecides'
    <3>1. TypeOK'
      <4>1. /\ chain' \in Campaign /\ block' \in 0 .. Horizon
            /\ boot' \in 1 .. MaxBoots /\ readyAt' \in 0 .. MaxBoots
            /\ faults' \in 0 .. MaxFaults
        BY DEF PageInv, TypeOK
      <4>2. /\ up' \in BOOLEAN /\ ready' \in BOOLEAN /\ astray' \in BOOLEAN
            /\ listed' \in Row \cup {None, Unlisted} /\ db' \in Row \cup {None}
            /\ origin' \in Nat \cup {None}
        BY DEF PageInv, TypeOK
      <4>3. /\ url' \in Links /\ phase' \in Phases
            /\ poll' \in {"off", "asked"} \cup Answers
            /\ remount' \in {"no", "asked", "done"}
            /\ waited' \in BOOLEAN
        BY DEF PageInv, TypeOK
      <4>4. /\ load' \in [Loads -> Load] /\ view' \in Shown \cup {None}
            /\ error' \in {"none", "loading", "failed", "not found"}
        BY DEF PageInv, TypeOK
      <4> QED BY <4>1, <4>2, <4>3, <4>4 DEF TypeOK
    <3>2. ChainDecides'
      BY DEF PageInv, ChainDecides
    <3> QED BY <3>1, <3>2
  <2>2. RowsArePast' /\ FirstIsOnce'
    BY DEF PageInv, RowsArePast, Past, Badged, FirstIsOnce
  <2>3. ReadyMeansIndexed' /\ LoadsWait' /\ NotFoundHonest'
    BY DEF PageInv, ReadyMeansIndexed, LoadsWait, NotFoundHonest, UnderWay
  <2> QED BY <2>1, <2>2, <2>3 DEF PageInv
<1> QED BY <1>1, <1>2, <1>3, <1>4, <1>5 DEF Next

THEOREM PageInvHolds == Spec => []PageInv
<1>1. Init => PageInv
  BY InitInv
<1>2. PageInv /\ [Next]_vars => PageInv'
  BY NextStep
<1> QED BY <1>1, <1>2, PTL DEF Spec

\* "Campaign not found" is only said of a campaign that is gone, unless the indexer
\* has started over or has stored the campaign without its creation hash.
THEOREM NotFoundHonestHolds == Spec => []NotFoundHonest
<1>1. PageInv => NotFoundHonest
  BY DEF PageInv
<1> QED BY <1>1, PageInvHolds, PTL

\* The outcome a page shows is the one the campaign has or will have; only pledges
\* that the row did not count overturn an announced failure.
THEOREM ShownOutcomeHolds == Spec => []ShownOutcomeStands
<1>1. PageInv => ShownOutcomeStands
  <2> SUFFICES ASSUME PageInv, view # None
               PROVE  /\ view.badge = "success" => chain.status \in {"Success", "Gone"}
                      /\ view.badge = "failed" => chain.status \in {"Failed", "Gone"}
                      /\ view.badge \in {"success", "failed"} => view.total = chain.total
                      /\ view.badge = "expired_success" =>
                            chain.status # "Failed" /\ chain.total >= Goal
                      /\ view.badge = "expired_failed" /\ chain.status = "Success" =>
                            chain.total > view.total
    BY DEF ShownOutcomeStands
  <2>1. view \in Shown /\ Badged(view) /\ chain \in Campaign /\ ChainDecides
    BY DEF PageInv, TypeOK, RowsArePast
  <2>2. view.total \in Nat /\ chain.total \in Nat /\ Goal \in Nat
    BY <2>1, PageAssumption DEF Shown, Campaign
  <2> QED BY <2>1, <2>2 DEF Badged, Past, ChainDecides
<1> QED BY <1>1, PageInvHolds, PTL

\* A page that is open stays open.
THEOREM ReadyIsFinalHolds == Spec => ReadyIsFinal
<1>1. PageInv /\ [Next]_vars => [phase = "Ready" => phase' = "Ready"]_vars
  BY NextStep
<1> QED BY <1>1, PageInvHolds, PTL DEF Spec, ReadyIsFinal

\* A page that shows the campaign is never hidden again.
THEOREM StaysShownHolds == Spec => StaysShown
<1>1. PageInv /\ [Next]_vars =>
         [view # None /\ error = "none" => view' # None /\ error' = "none"]_vars
  BY NextStep
<1> QED BY <1>1, PageInvHolds, PTL DEF Spec, StaysShown

=============================================================================
