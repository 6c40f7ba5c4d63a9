--------------------------- MODULE MCCampaignRun ---------------------------
(* Instances of CampaignRun for TLC. *)
EXTENDS CampaignRun, TLC

CONSTANTS liveA, dryA, a

\* One campaign: its launch alone, or with a dry run beside it.
JustLive == liveA :> a
LiveAndDry == (liveA :> a) @@ (dryA :> a)

\* The groups differ in nothing.
AnyGroup == Permutations(Groups)
=============================================================================
