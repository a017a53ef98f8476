----------------------------- MODULE MCCrowdfund -----------------------------
(* Instances of Crowdfund for TLC.                                           *)
EXTENDS Crowdfund, TLC

\* Campaign ids, wallets and pledge ids are interchangeable.
Symmetry == Permutations(Campaigns) \cup Permutations(Wallets) \cup Permutations(PledgeIds)

=============================================================================
