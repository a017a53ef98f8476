------------------------------ MODULE PledgeRace ------------------------------
(***************************************************************************)
(* Pledges racing for the one campaign cell.  Each pledge consumes the     *)
(* cell and re-creates it, so of two built on the same cell one loses.     *)
(* The two clients that pledge, createPledgeWithReceipt of the transaction *)
(* builder and handlePledge of the campaign page, then wait until the cell *)
(* has moved and build the pledge again, a limited number of times.        *)
(*                                                                         *)
(* Around them: a chain whose cell moves from version to version, and the  *)
(* pool of a node, which holds one transaction that spends the live cell   *)
(* and takes a second one for a failed replacement.                        *)
(***************************************************************************)
EXTENDS Integers, FiniteSets

CONSTANTS
    Builders,                     \* calls of createPledgeWithReceipt
    Pages,                        \* calls of handlePledge
    Other,                        \* everybody else who pledges
    PLEDGE_CONTENTION_RETRIES,    \* attempts of a builder call
    PLEDGE_ATTEMPTS,              \* attempts of a page call
    MaxOthers,                    \* bound: pledges of others
    MaxFaults                     \* bound: lost answers, failed calls, drops

Calls == Builders \cup Pages

ASSUME CallersAssumption ==
    /\ Builders \cap Pages = {}
    /\ Other \notin Calls
ASSUME AttemptsAssumption ==
    /\ PLEDGE_CONTENTION_RETRIES \in Nat \ {0}
    /\ PLEDGE_ATTEMPTS \in Nat \ {0}
ASSUME BoundsAssumption == MaxOthers \in Nat /\ MaxFaults \in Nat

VARIABLES
    cell,       \* the live campaign cell: its version, total and status
    pool,       \* transactions of the node's pool that spend the live cell
    landed,     \* pledges on chain: who made them, spending which version
    others,     \* pledges others have sent so far
    pc,         \* where each call stands
    attempt,    \* the number of the attempt it is at
    known,      \* the campaign cell it read last
    first,      \* history: the version it found first
    gaveUp,     \* history: a wait of it ended by the timeout
    faults      \* faults so far

vars == <<cell, pool, landed, others, pc, attempt, known, first, gaveUp, faults>>

callVars == <<pc, attempt, known, first, gaveUp>>

Attempts(p) == IF p \in Builders THEN PLEDGE_CONTENTION_RETRIES ELSE PLEDGE_ATTEMPTS

\* Amounts are one: the total is a number of pledges.  A cell that is "Gone" is
\* a destroyed campaign.
Cell == [ver : Nat, total : Nat, status : {"Active", "Decided", "Gone"}]
PoolTx == [by : Calls \cup {Other}, spends : Nat, total : Nat]

\* A call ends "sent", "defeated" after its last attempt, or "failed" on any
\* other error.
Ended == {"sent", "defeated", "failed"}
Places == {"idle", "find", "send", "wait"} \cup Ended

TypeOK ==
    /\ cell \in Cell
    /\ pool \subseteq PoolTx
    /\ landed \subseteq [by : Calls \cup {Other}, ver : Nat]
    /\ others \in 0 .. MaxOthers
    /\ pc \in [Calls -> Places]
    /\ attempt \in [Calls -> Nat \ {0}]
    /\ known \in [Calls -> Cell]
    /\ first \in [Calls -> Nat]
    /\ gaveUp \in [Calls -> BOOLEAN]
    /\ faults \in 0 .. MaxFaults

Init ==
    /\ cell = [ver |-> 0, total |-> 0, status |-> "Active"]
    /\ pool = {}
    /\ landed = {}
    /\ others = 0
    /\ pc = [p \in Calls |-> "idle"]
    /\ attempt = [p \in Calls |-> 1]
    /\ known = [p \in Calls |-> cell]
    /\ first = [p \in Calls |-> 0]
    /\ gaveUp = [p \in Calls |-> FALSE]
    /\ faults = 0

-----------------------------------------------------------------------------
(* The chain and the pool                                                   *)

\* Mutant: the total is taken from the first cell that was read.
PledgeOnFirst(p) == [by |-> p, spends |-> known[p].ver, total |-> first[p] + 1]

\* The pledge transaction built on the cell that was found.
PledgeOn(p) == [by |-> p, spends |-> known[p].ver, total |-> known[p].total + 1]

\* validate_pledge_update: the cell is Active, the total advances by the pledge.
ScriptAccepts(tx) == cell.status = "Active" /\ tx.total = cell.total + 1

\* What the node answers: an input that is spent on chain does not resolve, one
\* that is spent in the pool makes the transaction a failed replacement.
NodeAnswer(tx) ==
    IF tx.spends # cell.ver THEN "Unknown"
    ELSE IF pool # {} THEN "PoolRejectedRBF"
    ELSE IF ScriptAccepts(tx) THEN "Accepted" ELSE "ScriptError"

\* A block takes the transaction of the pool.
Land ==
    \E tx \in pool :
        /\ cell' = [ver |-> cell.ver + 1, total |-> tx.total, status |-> cell.status]
        /\ landed' = landed \cup {[by |-> tx.by, ver |-> tx.spends]}
        /\ pool' = {}
        /\ UNCHANGED <<others, callVars, faults>>

OtherSends ==
    LET tx == [by |-> Other, spends |-> cell.ver, total |-> cell.total + 1]
    IN  /\ others < MaxOthers
        /\ NodeAnswer(tx) = "Accepted"
        /\ pool' = {tx}
        /\ others' = others + 1
        /\ UNCHANGED <<cell, landed, callVars, faults>>

\* Somebody finalizes or destroys the campaign; the pool loses what spent the cell.
CampaignEnds ==
    /\ cell.status # "Gone"
    /\ \E status \in {IF cell.status = "Active" THEN "Decided" ELSE "Gone"} :
          cell' = [ver |-> cell.ver + 1, total |-> cell.total, status |-> status]
    /\ pool' = {}
    /\ UNCHANGED <<landed, others, callVars, faults>>

\* Fault: the pool drops a transaction, or another pool's rival displaces it.
Drop ==
    /\ faults < MaxFaults
    /\ pool # {}
    /\ pool' = {}
    /\ faults' = faults + 1
    /\ UNCHANGED <<cell, landed, others, callVars>>

-----------------------------------------------------------------------------
(* A call                                                                   *)

Goto(p, place) == pc' = [pc EXCEPT ![p] = place]

\* The loop is entered: the form is filled in, the campaign's type script known.
Begin(p) ==
    /\ pc[p] = "idle"
    /\ Goto(p, "find")
    /\ UNCHANGED <<cell, pool, landed, others, attempt, known, first, gaveUp, faults>>

\* findLiveCampaignCell, resolveLiveCampaignCell: the cell on chain, not in the
\* pool; without one the call throws.
Find(p) ==
    /\ pc[p] = "find"
    /\ known' = [known EXCEPT ![p] = cell]
    /\ first' = IF attempt[p] = 1 THEN [first EXCEPT ![p] = cell.ver] ELSE first
    /\ Goto(p, IF cell.status = "Gone" THEN "failed" ELSE "send")
    /\ UNCHANGED <<cell, pool, landed, others, attempt, gaveUp, faults>>

\* Mutant: any error is worth another attempt.
StaleOrNot(answer) == answer # "Accepted"

\* isStaleCellError, isInputAlreadySpentError
StaleCell(answer) == answer \in {"Unknown", "PoolRejectedRBF"}

\* Mutant: one attempt too few.
AfterErrorEarly(p, answer) ==
    IF ~StaleCell(answer) THEN "failed"
    ELSE IF attempt[p] + 1 >= Attempts(p) THEN "defeated" ELSE "wait"

\* The catch clauses of both loops.
AfterError(p, answer) ==
    IF ~StaleCell(answer) THEN "failed"
    ELSE IF attempt[p] >= Attempts(p) THEN "defeated" ELSE "wait"

Send(p) ==
    LET tx     == PledgeOn(p)
        answer == NodeAnswer(tx)
    IN  /\ pc[p] = "send"
        /\ pool' = IF answer = "Accepted" THEN {tx} ELSE pool
        /\ Goto(p, IF answer = "Accepted" THEN "sent" ELSE AfterError(p, answer))
        /\ UNCHANGED <<cell, landed, others, attempt, known, first, gaveUp, faults>>

\* Fault: the connection fails after the node has decided, or before it is asked.
SendFails(p) ==
    /\ faults < MaxFaults
    /\ pc[p] = "send"
    /\ \/ NodeAnswer(PledgeOn(p)) = "Accepted" /\ pool' = {PledgeOn(p)}
       \/ UNCHANGED pool
    /\ Goto(p, AfterError(p, "NetworkError"))
    /\ faults' = faults + 1
    /\ UNCHANGED <<cell, landed, others, attempt, known, first, gaveUp>>

\* Fault: a look-up of the live cell fails, in the loop or in the wait.
FindFails(p) ==
    /\ faults < MaxFaults
    /\ pc[p] \in {"find", "wait"}
    /\ Goto(p, "failed")
    /\ faults' = faults + 1
    /\ UNCHANGED <<cell, pool, landed, others, attempt, known, first, gaveUp>>

\* Mutant: a fixed short delay.
MovedOrNot(p) == known[p].ver <= cell.ver

Moved(p) == known[p].ver # cell.ver

\* waitForCampaignCellToMove: a poll finds the cell elsewhere, or nowhere.
PollMoved(p) ==
    /\ pc[p] = "wait"
    /\ Moved(p)
    /\ IF cell.status = "Gone"
       THEN Goto(p, "failed") /\ UNCHANGED attempt
       ELSE Goto(p, "find") /\ attempt' = [attempt EXCEPT ![p] = @ + 1]
    /\ UNCHANGED <<cell, pool, landed, others, known, first, gaveUp, faults>>

\* Mutant: the wait has no end.
GiveUpNever(p) ==
    /\ pc[p] = "wait"
    /\ UNCHANGED vars

\* The wait times out: the caller tries again on whatever it finds.
GiveUp(p) ==
    /\ pc[p] = "wait"
    /\ Goto(p, "find")
    /\ attempt' = [attempt EXCEPT ![p] = @ + 1]
    /\ gaveUp' = [gaveUp EXCEPT ![p] = TRUE]
    /\ UNCHANGED <<cell, pool, landed, others, known, first, faults>>

Step(p) == Begin(p) \/ Find(p) \/ Send(p) \/ PollMoved(p) \/ GiveUp(p)

Fault == Drop \/ \E p \in Calls : SendFails(p) \/ FindFails(p)

Next ==
    \/ \E p \in Calls : Step(p)
    \/ Land
    \/ OtherSends
    \/ CampaignEnds
    \/ Fault

Spec == Init /\ [][Next]_vars

\* Promises settle and timers fire: a call that was begun goes on.  A poll of the
\* wait comes before its timeout if the cell has moved long enough; that is not
\* assumed.  Blocks take what is in the pool.
Fairness ==
    /\ WF_vars(Land)
    /\ \A p \in Calls :
          /\ WF_vars(Find(p))
          /\ WF_vars(Send(p))
          /\ WF_vars(PollMoved(p))
          /\ WF_vars(GiveUp(p))

FairSpec == Spec /\ Fairness

-----------------------------------------------------------------------------
(* Safety                                                                   *)

\* The pledges of call p, on chain or on their way there.
OnChain(p) == {l \in landed : l.by = p}
InPool(p) == {tx \in pool : tx.by = p}

AtMostOne(S) == \A x, y \in S : x = y

\* A call pledges once, however often it tries: not even a lost answer to an
\* attempt that was accepted makes it pledge again (the rethrow of every error
\* but a stale cell in createPledgeWithReceipt and handlePledge).
PledgedOnce ==
    \A p \in Calls :
        /\ AtMostOne(OnChain(p))
        /\ OnChain(p) = {} \/ InPool(p) = {}
        /\ pc[p] \in {"idle", "find", "send", "wait", "defeated"} =>
              OnChain(p) = {} /\ InPool(p) = {}

\* A call that gives up against the others was really beaten each time: unless a
\* wait ran out, every further attempt was made on a campaign cell that the
\* others had moved (waitForCampaignCellToMove, "so a retried pledge doesn't
\* rebuild on the same cell").
BeatenByOthers ==
    \A p \in Calls :
        pc[p] = "defeated" /\ ~gaveUp[p] => cell.ver - first[p] >= Attempts(p) - 1

-----------------------------------------------------------------------------
(* The inductive invariant of the proofs                                    *)

\* What a call has read is a cell of the past or the live one.
KnownIsPast ==
    \A p \in Calls :
        /\ first[p] <= known[p].ver
        /\ known[p].ver <= cell.ver

\* The attempts of a call that no timeout hurried are on different cells.
FreshAttempts ==
    \A p \in Calls :
        /\ ~gaveUp[p] /\ pc[p] \in {"send", "wait", "defeated"} =>
              known[p].ver - first[p] >= attempt[p] - 1
        /\ ~gaveUp[p] /\ pc[p] = "find" /\ attempt[p] > 1 =>
              cell.ver - first[p] >= attempt[p] - 1
        /\ pc[p] = "idle" => attempt[p] = 1
        /\ pc[p] = "defeated" => attempt[p] >= Attempts(p)

\* The pool holds one transaction at most, and it spends the live cell.
PoolOfOne ==
    /\ AtMostOne(pool)
    /\ \A tx \in pool : tx.spends = cell.ver

RaceInv ==
    /\ TypeOK
    /\ KnownIsPast
    /\ FreshAttempts
    /\ PoolOfOne
    /\ PledgedOnce

-----------------------------------------------------------------------------
(* Liveness under FairSpec                                                  *)

\* Every call ends, even if the transaction that beat it never lands and the cell
\* never moves (the timeouts of both waits, the bounds of both loops).
EveryCallEnds == \A p \in Calls : pc[p] = "find" ~> pc[p] \in Ended

\* With no more rivals than it has retries, a pledge lands: losing a race costs an
\* attempt and nothing else.  Except that a fault or a timeout may come between,
\* and that the campaign may end first.
EveryPledgeLands ==
    \A p \in Calls :
        pc[p] = "find" ~>
            \/ OnChain(p) # {}
            \/ faults > 0 \/ gaveUp[p] \/ cell.status # "Active"

=============================================================================
