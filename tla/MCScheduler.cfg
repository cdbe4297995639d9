\* One scheduler that may crash twice, three campaigns, one edit.
SPECIFICATION FairSpec
CONSTANTS
  refused = refused
  limited = limited
  rare = rare
  Campaigns <- MCCampaigns
  MaxRuns <- MCMaxRuns
  Slots <- MCSlots
  Refused = {refused}
  MaxNow = 3
  MaxDisruptions = 2
  MaxEdits = 1
INVARIANTS
  TypeOK
  RunsWereAccepted
  TriggersWithinLimit
  OncePerSlot
PROPERTIES
  FirstRunHappens
