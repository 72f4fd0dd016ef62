----------------------------- MODULE MCCampaigns -----------------------------
(* One recipient, two attempts allowed, two faults. *)
EXTENDS Campaigns
==============================================================================
