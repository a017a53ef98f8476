-------------------------------- MODULE Escrow --------------------------------
(***************************************************************************)
(* What the protocol promises, without cells, scripts or accumulators: an  *)
(* escrow account per campaign.  Money comes in while the campaign is      *)
(* open; once its deadline has passed it is decided, by the money that     *)
(* really came in; then the account is paid out to the creator only, or    *)
(* returned to the backers only.  After a grace period backers may rescue  *)
(* what is still there.                                                    *)
(***************************************************************************)
EXTENDS Naturals

CONSTANTS
    Campaigns,
    Limit,       \* a natural: the most that any figure can be
    Grace,       \* a natural: how long after the deadline the rescue opens
    Minimum      \* a natural: the smallest contribution

VARIABLES
    now,
    phase,       \* of each campaign
    terms,       \* goal and deadline of each campaign
    held,        \* in escrow
    paid,        \* to the creator
    returned,    \* to the backers, for the campaign failed
    rescued      \* by the backers

vars == <<now, phase, terms, held, paid, returned, rescued>>

Phases == {"Unborn", "Active", "Success", "Failed", "Gone"}

NoTerms == [goal |-> 0, deadline |-> 0]

Init ==
    /\ now = 0
    /\ phase = [c \in Campaigns |-> "Unborn"]
    /\ terms = [c \in Campaigns |-> NoTerms]
    /\ held = [c \in Campaigns |-> 0]
    /\ paid = held
    /\ returned = held
    /\ rescued = held

\* Everything that ever came in.
Raised(c) == held[c] + paid[c] + returned[c] + rescued[c]

Expired(c) == phase[c] = "Gone" \/ now >= terms[c].deadline

RescueOpen(c) ==
    \/ phase[c] = "Gone"
    \/ now >= terms[c].deadline + Grace

Open(c) ==
    /\ phase[c] = "Unborn"
    /\ \E goal, deadline \in 1 .. Limit :
          terms' = [terms EXCEPT ![c] = [goal |-> goal, deadline |-> deadline]]
    /\ phase' = [phase EXCEPT ![c] = "Active"]
    /\ UNCHANGED <<now, held, paid, returned, rescued>>

Contribute(c) ==
    /\ phase[c] = "Active"
    /\ \E amount \in Minimum .. Limit :
          /\ Raised(c) + amount <= Limit
          /\ held' = [held EXCEPT ![c] = @ + amount]
    /\ UNCHANGED <<now, phase, terms, paid, returned, rescued>>

Decide(c) ==
    /\ phase[c] = "Active"
    /\ Expired(c)
    /\ phase' = [phase EXCEPT ![c] = IF Raised(c) >= terms[c].goal THEN "Success" ELSE "Failed"]
    /\ UNCHANGED <<now, terms, held, paid, returned, rescued>>

\* Move some of the money in escrow to `account`.
MoveTo(account, c) ==
    \E amount \in 1 .. held[c] :
        /\ held' = [held EXCEPT ![c] = @ - amount]
        /\ account' = [account EXCEPT ![c] = @ + amount]

PayOut(c) ==
    /\ phase[c] = "Success"
    /\ MoveTo(paid, c)
    /\ UNCHANGED <<now, phase, terms, returned, rescued>>

Return(c) ==
    /\ phase[c] = "Failed"
    /\ MoveTo(returned, c)
    /\ UNCHANGED <<now, phase, terms, paid, rescued>>

Rescue(c) ==
    /\ RescueOpen(c)
    /\ MoveTo(rescued, c)
    /\ UNCHANGED <<now, phase, terms, paid, returned>>

Close(c) ==
    /\ phase[c] \in {"Success", "Failed"}
    /\ RescueOpen(c)
    /\ phase' = [phase EXCEPT ![c] = "Gone"]
    /\ terms' = [terms EXCEPT ![c] = NoTerms]
    /\ UNCHANGED <<now, held, paid, returned, rescued>>

Wait ==
    /\ now < Limit
    /\ now' = now + 1
    /\ UNCHANGED <<phase, terms, held, paid, returned, rescued>>

Next ==
    \/ Wait
    \/ \E c \in Campaigns :
          \/ Open(c)
          \/ Contribute(c)
          \/ Decide(c)
          \/ PayOut(c)
          \/ Return(c)
          \/ Rescue(c)
          \/ Close(c)

Spec == Init /\ [][Next]_vars

=============================================================================
