-------------------------- MODULE MCCampaignDelivery --------------------------
(* Small instances of CampaignDelivery. *)
EXTENDS CampaignDelivery

AllControls == {"start", "pause", "schedule", "cancel", "archive", "subscribe", "unsubscribe"}
=============================================================================
