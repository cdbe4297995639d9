----------------------------- MODULE MCScheduler -----------------------------
(***************************************************************************)
(* Three campaigns: one without a limit whose event the API refuses, one   *)
(* limited to two runs with a slot at every tick, and one unlimited with   *)
(* a single slot.                                                          *)
(***************************************************************************)
EXTENDS CampaignScheduler

CONSTANTS refused, limited, rare

MCCampaigns == <<refused, limited, rare>>
MCMaxRuns   == [c \in Ids |-> IF c = limited THEN 2 ELSE NoLimit]
MCSlots     == [c \in Ids |-> IF c = rare THEN {2} ELSE 1..MaxNow]

=============================================================================
