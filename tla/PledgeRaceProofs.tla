--------------------------- MODULE PledgeRaceProofs ---------------------------
(* Safety of PledgeRace, for any set of callers, any number of attempts, of   *)
(* rivals and of faults.                                                      *)
EXTENDS PledgeRace, TLAPS

\* A step of the chain, of others or of the pool touches no call, leaves what is
\* in the pool on the live cell, and lands only what was in the pool.
LEMMA ChainStep ==
    ASSUME RaceInv, Land \/ OtherSends \/ CampaignEnds \/ Drop
    PROVE  RaceInv'
<1> USE CallersAssumption, AttemptsAssumption, BoundsAssumption DEF Calls
<1>0. TypeOK /\ KnownIsPast /\ FreshAttempts /\ PoolOfOne /\ PledgedOnce
  BY DEF RaceInv
<1>1. cell.ver \in Nat /\ cell.total \in Nat /\ cell.status \in {"Active", "Decided", "Gone"}
  BY <1>0 DEF TypeOK, Cell
<1>2. /\ cell' \in Cell /\ cell'.ver \in Nat /\ cell'.ver >= cell.ver
      /\ pool' \subseteq PoolTx
      /\ landed' \subseteq [by : Calls \cup {Other}, ver : Nat]
      /\ others' \in 0 .. MaxOthers /\ faults' \in 0 .. MaxFaults
      /\ UNCHANGED callVars
  <2>1. CASE Land
    <3>1. PICK tx \in pool :
             /\ cell' = [ver |-> cell.ver + 1, total |-> tx.total, status |-> cell.status]
             /\ landed' = landed \cup {[by |-> tx.by, ver |-> tx.spends]}
             /\ pool' = {}
             /\ UNCHANGED <<others, callVars, faults>>
      BY <2>1 DEF Land
    <3>2. tx \in PoolTx
      BY <1>0 DEF TypeOK
    <3>3. cell' \in Cell /\ cell'.ver = cell.ver + 1
      BY <3>1, <3>2, <1>0 DEF TypeOK, Cell, PoolTx
    <3>4. [by |-> tx.by, ver |-> tx.spends] \in [by : Calls \cup {Other}, ver : Nat]
      BY <3>2 DEF PoolTx
    <3> QED BY <3>1, <3>3, <3>4, <1>0, <1>1 DEF TypeOK
  <2>2. CASE OtherSends
    BY <2>2, <1>0, <1>1 DEF OtherSends, TypeOK, Cell, PoolTx
  <2>3. CASE CampaignEnds
    <3>1. PICK status \in {"Decided", "Gone"} :
             cell' = [ver |-> cell.ver + 1, total |-> cell.total, status |-> status]
      BY <2>3 DEF CampaignEnds
    <3>2. cell' \in Cell /\ cell'.ver = cell.ver + 1
      BY <3>1, <1>1 DEF Cell
    <3> QED BY <2>3, <3>2, <1>0, <1>1 DEF CampaignEnds, TypeOK
  <2>4. CASE Drop
    BY <2>4, <1>0, <1>1 DEF Drop, TypeOK, Cell, PoolTx
  <2> QED BY <2>1, <2>2, <2>3, <2>4
<1>3. TypeOK'
  BY <1>0, <1>2 DEF TypeOK, callVars
<1>4. KnownIsPast'
  BY <1>0, <1>1, <1>2 DEF KnownIsPast, TypeOK, Cell, callVars
<1>5. FreshAttempts'
  BY <1>0, <1>1, <1>2 DEF FreshAttempts, TypeOK, Cell, callVars, Attempts
<1>6. PoolOfOne'
  <2>1. CASE Land \/ CampaignEnds \/ Drop
    BY <2>1 DEF PoolOfOne, AtMostOne, Land, CampaignEnds, Drop
  <2>2. CASE OtherSends
    BY <2>2 DEF PoolOfOne, AtMostOne, OtherSends
  <2> QED BY <2>1, <2>2
<1>7. PledgedOnce'
  <2>1. CASE Land
    <3>1. PICK tx \in pool :
             /\ landed' = landed \cup {[by |-> tx.by, ver |-> tx.spends]}
             /\ pool' = {}
             /\ UNCHANGED callVars
      BY <2>1 DEF Land
    <3> SUFFICES ASSUME NEW q \in Calls
                 PROVE  /\ AtMostOne(OnChain(q))'
                        /\ (OnChain(q) = {} \/ InPool(q) = {})'
                        /\ (pc[q] \in {"idle", "find", "send", "wait", "defeated"} =>
                               OnChain(q) = {} /\ InPool(q) = {})'
      BY DEF PledgedOnce
    <3>2. InPool(q)' = {} /\ pc' = pc
      BY <3>1 DEF InPool, callVars
    <3>3. CASE tx.by = q
      <4>1. tx \in InPool(q)
        BY <3>3 DEF InPool
      <4>2. OnChain(q) = {}
        BY <4>1, <1>0 DEF PledgedOnce
      <4>3. OnChain(q)' = {[by |-> tx.by, ver |-> tx.spends]}
        BY <4>2, <3>1, <3>3 DEF OnChain
      <4> QED BY <4>1, <4>3, <3>2, <1>0 DEF PledgedOnce, AtMostOne
    <3>4. CASE tx.by # q
      <4>1. OnChain(q)' = OnChain(q)
        BY <3>1, <3>4 DEF OnChain
      <4> QED BY <4>1, <3>2, <1>0 DEF PledgedOnce, AtMostOne
    <3> QED BY <3>3, <3>4
  <2>2. CASE OtherSends
    BY <2>2, <1>0 DEF OtherSends, PledgedOnce, OnChain, InPool, AtMostOne, callVars
  <2>3. CASE CampaignEnds
    BY <2>3, <1>0 DEF CampaignEnds, PledgedOnce, OnChain, InPool, AtMostOne, callVars
  <2>4. CASE Drop
    BY <2>4, <1>0 DEF Drop, PledgedOnce, OnChain, InPool, AtMostOne, callVars
  <2> QED BY <2>1, <2>2, <2>3, <2>4
<1> QED BY <1>3, <1>4, <1>5, <1>6, <1>7 DEF RaceInv

\* A call that does not send leaves chain and pool alone.
LEMMA QuietStep ==
    ASSUME RaceInv, NEW p \in Calls,
           Begin(p) \/ Find(p) \/ PollMoved(p) \/ GiveUp(p) \/ FindFails(p)
    PROVE  RaceInv'
<1> USE CallersAssumption, AttemptsAssumption, BoundsAssumption DEF Calls
<1>0. TypeOK /\ KnownIsPast /\ FreshAttempts /\ PoolOfOne /\ PledgedOnce
  BY DEF RaceInv
<1>1. UNCHANGED <<cell, pool, landed, others>>
  BY DEF Begin, Find, PollMoved, GiveUp, FindFails
<1>2. TypeOK'
  <2>1. /\ \E place \in Places : pc' = [pc EXCEPT ![p] = place]
        /\ attempt' = attempt \/ attempt' = [attempt EXCEPT ![p] = @ + 1]
        /\ known' = known \/ known' = [known EXCEPT ![p] = cell]
        /\ first' = first \/ first' = [first EXCEPT ![p] = cell.ver]
        /\ gaveUp' = gaveUp \/ gaveUp' = [gaveUp EXCEPT ![p] = TRUE]
        /\ faults' \in 0 .. MaxFaults
    <3>1. CASE Begin(p)
      BY <3>1, <1>0 DEF Begin, Goto, Places, TypeOK
    <3>2. CASE Find(p)
      BY <3>2, <1>0 DEF Find, Goto, Places, Ended, TypeOK
    <3>3. CASE PollMoved(p)
      BY <3>3, <1>0 DEF PollMoved, Goto, Places, Ended, TypeOK
    <3>4. CASE GiveUp(p)
      BY <3>4, <1>0 DEF GiveUp, Goto, Places, TypeOK
    <3>5. CASE FindFails(p)
      BY <3>5, <1>0 DEF FindFails, Goto, Places, Ended, TypeOK
    <3> QED BY <3>1, <3>2, <3>3, <3>4, <3>5
  <2>2. cell.ver \in Nat
    BY <1>0 DEF TypeOK, Cell
  <2>3. /\ pc' \in [Calls -> Places] /\ attempt' \in [Calls -> Nat \ {0}]
        /\ first' \in [Calls -> Nat] /\ faults' \in 0 .. MaxFaults
    BY <2>1, <2>2, <1>0 DEF TypeOK
  <2>4. known' \in [Calls -> Cell]
    BY <2>1, <1>0 DEF TypeOK
  <2>5. gaveUp' \in [Calls -> BOOLEAN]
    BY <2>1, <1>0 DEF TypeOK
  <2> QED BY <2>3, <2>4, <2>5, <1>0, <1>1 DEF TypeOK
<1>3. KnownIsPast'
  BY <1>0 DEF TypeOK, KnownIsPast, Begin, Find, PollMoved, GiveUp, FindFails, Cell
<1>4. FreshAttempts'
  <2>1. CASE Begin(p)
    BY <2>1, <1>0 DEF Begin, Goto, TypeOK, KnownIsPast, FreshAttempts, Attempts, Cell
  <2>2. CASE Find(p)
    BY <2>2, <1>0 DEF Find, Goto, TypeOK, KnownIsPast, FreshAttempts, Attempts, Cell
  <2>3. CASE PollMoved(p)
    <3> SUFFICES ASSUME NEW q \in Calls
                 PROVE  /\ (~gaveUp[q] /\ pc[q] \in {"send", "wait", "defeated"} =>
                               known[q].ver - first[q] >= attempt[q] - 1)'
                        /\ (~gaveUp[q] /\ pc[q] = "find" /\ attempt[q] > 1 =>
                               cell.ver - first[q] >= attempt[q] - 1)'
                        /\ (pc[q] = "idle" => attempt[q] = 1)'
                        /\ (pc[q] = "defeated" => attempt[q] >= Attempts(q))'
      BY DEF FreshAttempts
    <3>1. CASE q # p
      BY <2>3, <3>1, <1>0 DEF PollMoved, Goto, TypeOK, FreshAttempts, Attempts
    <3>2. CASE q = p
      <4>1. /\ known[p].ver \in Nat /\ cell.ver \in Nat /\ first[p] \in Nat
            /\ attempt[p] \in Nat
            /\ known[p].ver < cell.ver
        BY <2>3, <1>0 DEF PollMoved, Moved, TypeOK, Cell, KnownIsPast
      <4>2. ~gaveUp[p] => cell.ver - first[p] >= attempt[p]
        BY <4>1, <2>3, <1>0 DEF PollMoved, FreshAttempts
      <4>3. /\ \/ pc'[p] = "failed"
               \/ pc'[p] = "find" /\ attempt'[p] = attempt[p] + 1
            /\ UNCHANGED <<cell, first, gaveUp>>
        BY <2>3, <1>0 DEF PollMoved, Goto, TypeOK
      <4>4. CASE pc'[p] = "failed"
        BY <3>2, <4>4
      <4>5. CASE pc'[p] = "find" /\ attempt'[p] = attempt[p] + 1
        <5>1. ~gaveUp[p] => cell'.ver - first'[p] >= attempt'[p] - 1
          BY <4>1, <4>2, <4>3, <4>5
        <5> QED BY <3>2, <4>3, <4>5, <5>1
      <4> QED BY <4>3, <4>4, <4>5
    <3> QED BY <3>1, <3>2
  <2>4. CASE GiveUp(p)
    BY <2>4, <1>0 DEF GiveUp, Goto, TypeOK, KnownIsPast, FreshAttempts, Attempts, Cell
  <2>5. CASE FindFails(p)
    BY <2>5, <1>0 DEF FindFails, Goto, TypeOK, KnownIsPast, FreshAttempts, Attempts, Cell
  <2> QED BY <2>1, <2>2, <2>3, <2>4, <2>5
<1>5. PoolOfOne'
  BY <1>0, <1>1 DEF PoolOfOne
<1>6. PledgedOnce'
  BY <1>0, <1>1 DEF PledgedOnce, OnChain, InPool, TypeOK,
                    Begin, Find, PollMoved, GiveUp, FindFails, Goto
<1> QED BY <1>2, <1>3, <1>4, <1>5, <1>6 DEF RaceInv

\* A call that sends had nothing on chain or in the pool, and goes on to try
\* again only if the node has refused what it sent.
LEMMA SendStep ==
    ASSUME RaceInv, NEW p \in Calls, Send(p) \/ SendFails(p)
    PROVE  RaceInv'
<1> USE CallersAssumption, AttemptsAssumption, BoundsAssumption DEF Calls
<1> DEFINE tx == PledgeOn(p)
           accepted == NodeAnswer(tx) = "Accepted"
<1>0. TypeOK /\ KnownIsPast /\ FreshAttempts /\ PoolOfOne /\ PledgedOnce
  BY DEF RaceInv
<1>1. /\ UNCHANGED <<cell, landed, others, attempt, known, first, gaveUp>>
      /\ pc[p] = "send"
      /\ \E place \in Ended \cup {"wait"} :
            /\ pc' = [pc EXCEPT ![p] = place]
            /\ place = "defeated" => attempt[p] >= Attempts(p)
            /\ place \in {"wait", "defeated"} => pool' = pool
      /\ \/ accepted /\ pool' = {tx}
         \/ pool' = pool
      /\ faults' \in 0 .. MaxFaults
  <2>1. CASE Send(p)
    <3> DEFINE place == IF accepted THEN "sent" ELSE AfterError(p, NodeAnswer(tx))
    <3>1. /\ pc[p] = "send"
          /\ pc' = [pc EXCEPT ![p] = place]
          /\ pool' = IF accepted THEN {tx} ELSE pool
          /\ UNCHANGED <<cell, landed, others, attempt, known, first, gaveUp, faults>>
      BY <2>1 DEF Send, Goto
    <3>2. /\ place \in Ended \cup {"wait"}
          /\ place = "defeated" => attempt[p] >= Attempts(p)
          /\ place \in {"wait", "defeated"} => ~accepted
      BY DEF AfterError, Ended
    <3> HIDE DEF place
    <3> QED BY <3>1, <3>2, <1>0 DEF TypeOK
  <2>2. CASE SendFails(p)
    BY <2>2, <1>0 DEF SendFails, Goto, AfterError, StaleCell, Ended, TypeOK
  <2> QED BY <2>1, <2>2
<1>2. tx \in PoolTx /\ tx.by = p
  BY <1>0 DEF PledgeOn, PoolTx, TypeOK, Cell
<1>3. accepted => tx.spends = cell.ver /\ pool = {}
  BY DEF NodeAnswer
<1>4. TypeOK'
  BY <1>0, <1>1, <1>2 DEF TypeOK, Places
<1>5. KnownIsPast'
  BY <1>0, <1>1 DEF KnownIsPast
<1>6. FreshAttempts'
  BY <1>0, <1>1 DEF FreshAttempts, TypeOK, Attempts, Ended
<1>7. PoolOfOne'
  BY <1>0, <1>1, <1>3 DEF PoolOfOne, AtMostOne
<1>8. PledgedOnce'
  <2> SUFFICES ASSUME NEW q \in Calls
               PROVE  /\ AtMostOne(OnChain(q))'
                      /\ (OnChain(q) = {} \/ InPool(q) = {})'
                      /\ (pc[q] \in {"idle", "find", "send", "wait", "defeated"} =>
                             OnChain(q) = {} /\ InPool(q) = {})'
    BY DEF PledgedOnce
  <2>1. OnChain(q)' = OnChain(q) /\ AtMostOne(OnChain(q))
    BY <1>0, <1>1 DEF OnChain, PledgedOnce
  <2>2. CASE q = p
    BY <2>1, <2>2, <1>0, <1>1 DEF PledgedOnce, TypeOK, Ended, AtMostOne, InPool
  <2>3. CASE q # p
    <3>1. pc'[q] = pc[q]
      BY <2>3, <1>0, <1>1 DEF TypeOK
    <3>2. InPool(q)' = {} \/ InPool(q)' = InPool(q)
      BY <2>3, <1>1, <1>2 DEF InPool
    <3> QED BY <2>1, <3>1, <3>2, <1>0 DEF PledgedOnce, AtMostOne
  <2> QED BY <2>2, <2>3
<1> QED BY <1>4, <1>5, <1>6, <1>7, <1>8 DEF RaceInv

\* The invariant of the race holds for any number of callers, attempts, rivals
\* and faults: attempts are fresh, the pool holds one rival, no call pledges twice.
THEOREM RaceInvHolds == Spec => []RaceInv
<1>1. Init => RaceInv
  BY CallersAssumption, AttemptsAssumption, BoundsAssumption
     DEF Init, RaceInv, TypeOK, KnownIsPast, FreshAttempts, PoolOfOne, PledgedOnce,
         AtMostOne, OnChain, InPool, Cell, PoolTx, Places, Ended, Calls
<1>2. RaceInv /\ [Next]_vars => RaceInv'
  <2> SUFFICES ASSUME RaceInv, [Next]_vars PROVE RaceInv'
    OBVIOUS
  <2>1. CASE Land \/ OtherSends \/ CampaignEnds \/ Drop
    BY <2>1, ChainStep
  <2>2. ASSUME NEW p \in Calls,
               Begin(p) \/ Find(p) \/ PollMoved(p) \/ GiveUp(p) \/ FindFails(p)
        PROVE  RaceInv'
    BY <2>2, QuietStep
  <2>3. ASSUME NEW p \in Calls, Send(p) \/ SendFails(p)
        PROVE  RaceInv'
    BY <2>3, SendStep
  <2>4. CASE UNCHANGED vars
    BY <2>4 DEF vars, callVars, RaceInv, TypeOK, KnownIsPast, FreshAttempts, PoolOfOne,
                PledgedOnce, AtMostOne, OnChain, InPool
  <2> QED BY <2>1, <2>2, <2>3, <2>4 DEF Next, Step, Fault
<1> QED BY <1>1, <1>2, PTL DEF Spec

\* A call of createPledgeWithReceipt or handlePledge pledges at most once.
THEOREM PledgedOnceHolds == Spec => []PledgedOnce
<1>1. RaceInv => PledgedOnce
  BY DEF RaceInv
<1> QED BY <1>1, RaceInvHolds, PTL

\* A call that no timeout hurried is beaten only by others that moved the cell.
THEOREM BeatenByOthersHolds == Spec => []BeatenByOthers
<1>1. RaceInv => BeatenByOthers
  BY AttemptsAssumption
     DEF RaceInv, TypeOK, KnownIsPast, FreshAttempts, BeatenByOthers, Attempts, Cell
<1> QED BY <1>1, RaceInvHolds, PTL

=============================================================================
