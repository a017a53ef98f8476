---------------------------- MODULE MCCampaignPage ----------------------------
(* An instance of CampaignPage for TLC: no symmetry, for it checks liveness.  *)
EXTENDS CampaignPage

=============================================================================
