----------------------------- MODULE MCIndexerBot -----------------------------
(* Instances of IndexerBot for TLC.                                           *)
EXTENDS IndexerBot, TLC

\* Campaigns, pledge ids and polling cycles are interchangeable.
Symmetry == Permutations(Campaigns) \cup Permutations(Pledges) \cup Permutations(Polls)

=============================================================================
