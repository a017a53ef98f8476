----------------------------- MODULE MCPledgeRace -----------------------------
(* An instance of PledgeRace for TLC: no symmetry, for it checks liveness.    *)
EXTENDS PledgeRace

=============================================================================
