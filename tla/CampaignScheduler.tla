-------------------------- MODULE CampaignScheduler --------------------------
(***************************************************************************)
(* The campaign scheduler: a loop that loads the active campaigns, posts a *)
(* campaign_triggered event for each one that is due and records the run   *)
(* in the campaigns table.  One scheduler process runs; the container      *)
(* restarts it when it dies.  Operators change a campaign's status in the  *)
(* table while it runs.                                                    *)
(*                                                                         *)
(* A cron expression is the set of times it fires at; an expression that   *)
(* croniter rejects is the empty set.                                      *)
(***************************************************************************)
EXTENDS Integers, Sequences, FiniteSets, Ordering

CONSTANTS
  Campaigns,       \* the rows of the campaigns table, in order of created_at
  MaxRuns,         \* max_runs of each campaign, NoLimit for NULL
  Slots,           \* the times schedule_cron fires at
  Refused,         \* the campaigns whose event the API answers with 4xx/5xx
  MaxNow,          \* bound: last tick of the clock
  MaxDisruptions,  \* bound: crashes and failed calls
  MaxEdits         \* bound: status changes by operators

NoLimit == -1
Never   == -1
Ids     == {Campaigns[i] : i \in 1..Len(Campaigns)}
CampaignStatus == {"ACTIVE", "INACTIVE", "PAUSED"}

ASSUME SchedulerAssumption ==
  /\ Campaigns \in Seq(Ids)
  /\ \A i, j \in DOMAIN Campaigns :  \* the primary key
       Campaigns[i] = Campaigns[j] => i = j
  /\ MaxRuns \in [Ids -> Nat \cup {NoLimit}]
  /\ Slots \in [Ids -> SUBSET Nat]
  /\ Refused \subseteq Ids
  /\ {MaxNow, MaxDisruptions, MaxEdits} \subseteq Nat

VARIABLES
  table,        \* status, last_triggered_at and runs_count of each campaign
  triggers,     \* how many events of each campaign the API has accepted
  pc,           \* the await the scheduler stands at
  batch,        \* what is left of this tick's `campaigns`: snapshots of rows
  tickNow,      \* `now` of _process_tick
  now,          \* the clock, also the database's NOW()
  disruptions,  \* crashes and failed calls so far
  edits         \* status changes by operators so far

vars == <<table, triggers, pc, batch, tickNow, now, disruptions, edits>>

Init ==
  /\ table \in [Ids -> [status : CampaignStatus, last : {Never}, runs : {0}]]
  /\ triggers = [c \in Ids |-> 0]
  /\ pc = "down"
  /\ batch = <<>>
  /\ tickNow = 0
  /\ now = 0
  /\ disruptions = 0
  /\ edits = 0

-----------------------------------------------------------------------------
(* Mutant of IsCampaignDue: the schedule is not consulted again.           *)
IsCampaignDueAlways(snap, t) ==
  MaxRuns[snap.id] = NoLimit \/ snap.runs < MaxRuns[snap.id]

(* Mutant of IsCampaignDue: runs_count > max_runs instead of >=.           *)
IsCampaignDueOnceMore(snap, t) ==
  /\ MaxRuns[snap.id] = NoLimit \/ snap.runs <= MaxRuns[snap.id]
  /\ \/ snap.last = Never
     \/ \E s \in Slots[snap.id] : snap.last < s /\ s <= t

(* is_campaign_due: croniter.get_next gives the first slot after last.     *)
IsCampaignDue(snap, t) ==
  /\ MaxRuns[snap.id] = NoLimit \/ snap.runs < MaxRuns[snap.id]
  /\ \/ snap.last = Never
     \/ \E s \in Slots[snap.id] : snap.last < s /\ s <= t

(* The rows get_active_campaigns returns, in its order.                    *)
ActiveCampaigns ==
  LET active == {i \in DOMAIN Campaigns :
                   table[Campaigns[i]].status = "ACTIVE"}
      row == InOrder(active, [i \in DOMAIN Campaigns |-> i])
      Snapshot(c) == [id |-> c, last |-> table[c].last, runs |-> table[c].runs]
  IN [i \in DOMAIN row |-> Snapshot(Campaigns[row[i]])]

(* The row after mark_campaign_triggered: the status is set from max_runs  *)
(* alone, whatever it was.                                                 *)
TriggeredRow(c) ==
  [status |-> IF MaxRuns[c] # NoLimit /\ table[c].runs + 1 >= MaxRuns[c]
              THEN "INACTIVE" ELSE "ACTIVE",
   last   |-> now,
   runs   |-> table[c].runs + 1]

-----------------------------------------------------------------------------
Tick ==
  /\ now < MaxNow
  /\ now' = now + 1
  /\ UNCHANGED <<table, triggers, pc, batch, tickNow, disruptions, edits>>

(* An operator pauses, stops or resumes a campaign.                        *)
Edit(c, status) ==
  /\ edits < MaxEdits
  /\ table[c].status # status
  /\ table' = [table EXCEPT ![c].status = status]
  /\ edits' = edits + 1
  /\ UNCHANGED <<triggers, pc, batch, tickNow, now, disruptions>>

(* A tick begins: the time is taken before the campaigns are asked for.    *)
BeginTick ==
  /\ pc' = "load"
  /\ tickNow' = now

(* run_scheduler enters its loop.                                          *)
Start ==
  /\ pc = "down"
  /\ BeginTick
  /\ UNCHANGED <<table, triggers, batch, now, disruptions, edits>>

Disrupt ==
  /\ disruptions < MaxDisruptions
  /\ disruptions' = disruptions + 1

(* The process dies or is stopped: the tick it was in is lost.             *)
Crash ==
  /\ pc # "down"
  /\ Disrupt
  /\ pc' = "down"
  /\ batch' = <<>>
  /\ tickNow' = 0
  /\ UNCHANGED <<table, triggers, now, edits>>

(* The campaigns of this tick.                                             *)
Load ==
  /\ pc = "load"
  /\ batch' = ActiveCampaigns
  /\ pc' = IF batch' = <<>> THEN "sleep" ELSE "campaign"
  /\ UNCHANGED <<table, triggers, tickNow, now, disruptions, edits>>

LoadFails ==
  /\ pc = "load"
  /\ Disrupt
  /\ pc' = "sleep"
  /\ UNCHANGED <<table, triggers, batch, tickNow, now, edits>>

(* Mutant of Advance: the end of the list is not noticed.                  *)
AdvanceOnly ==
  /\ batch' = Tail(batch)
  /\ pc' = "campaign"
  /\ UNCHANGED tickNow

(* _process_campaign returns: the next campaign, or the end of the tick.   *)
Advance ==
  /\ batch' = Tail(batch)
  /\ pc' = IF Len(batch) = 1 THEN "sleep" ELSE "campaign"
  /\ UNCHANGED tickNow

NotDue ==
  /\ pc = "campaign"
  /\ ~IsCampaignDue(Head(batch), tickNow)
  /\ Advance
  /\ UNCHANGED <<table, triggers, now, disruptions, edits>>

Accept(c) == triggers' = [triggers EXCEPT ![c] = @ + 1]

(* Mutant of Trigger: an answer is taken for success before it is checked. *)
TriggerUnchecked ==
  /\ pc = "campaign"
  /\ IsCampaignDue(Head(batch), tickNow)
  /\ IF Head(batch).id \in Refused THEN UNCHANGED triggers
                                   ELSE Accept(Head(batch).id)
  /\ pc' = "mark"
  /\ UNCHANGED <<table, batch, tickNow, now, disruptions, edits>>

(* The POST succeeds.                                                      *)
Trigger ==
  /\ pc = "campaign"
  /\ IsCampaignDue(Head(batch), tickNow)
  /\ Head(batch).id \notin Refused
  /\ Accept(Head(batch).id)
  /\ pc' = "mark"
  /\ UNCHANGED <<table, batch, tickNow, now, disruptions, edits>>

(* Mutant of TriggerRefused: the error ends the tick.                      *)
TriggerRefusedEndsTick ==
  /\ pc = "campaign"
  /\ IsCampaignDue(Head(batch), tickNow)
  /\ Head(batch).id \in Refused
  /\ pc' = "sleep"
  /\ batch' = <<>>
  /\ UNCHANGED <<table, triggers, tickNow, now, disruptions, edits>>

(* raise_for_status raises: the campaign is left for the next tick.        *)
TriggerRefused ==
  /\ pc = "campaign"
  /\ IsCampaignDue(Head(batch), tickNow)
  /\ Head(batch).id \in Refused
  /\ Advance
  /\ UNCHANGED <<table, triggers, now, disruptions, edits>>

(* A timeout or a broken connection: the API has accepted the event or it  *)
(* has not, and the scheduler treats both as a failure.                    *)
TriggerLost ==
  /\ pc = "campaign"
  /\ IsCampaignDue(Head(batch), tickNow)
  /\ Disrupt
  /\ \/ Head(batch).id \notin Refused /\ Accept(Head(batch).id)
     \/ UNCHANGED triggers
  /\ Advance
  /\ UNCHANGED <<table, now, edits>>

MarkTriggered ==
  /\ pc = "mark"
  /\ table' = [table EXCEPT ![Head(batch).id] = TriggeredRow(Head(batch).id)]
  /\ Advance
  /\ UNCHANGED <<triggers, now, disruptions, edits>>

(* The UPDATE raises, applied or not; the error is only logged.            *)
MarkFails ==
  /\ pc = "mark"
  /\ Disrupt
  /\ \/ table' =
          [table EXCEPT ![Head(batch).id] = TriggeredRow(Head(batch).id)]
     \/ UNCHANGED table
  /\ Advance
  /\ UNCHANGED <<triggers, now, edits>>

(* asyncio.sleep(poll_interval) returns and the next tick begins.          *)
Wake ==
  /\ pc = "sleep"
  /\ BeginTick
  /\ UNCHANGED <<table, triggers, batch, now, disruptions, edits>>

SchedulerStep ==
  \/ Load \/ LoadFails \/ NotDue \/ Trigger \/ TriggerRefused \/ TriggerLost
  \/ MarkTriggered \/ MarkFails \/ Wake

Next ==
  \/ Tick
  \/ \E c \in Ids, s \in CampaignStatus : Edit(c, s)
  \/ Start \/ Crash
  \/ SchedulerStep

Spec == Init /\ [][Next]_vars

(* The container restarts the process and the event loop runs it.          *)
FairSpec == Spec /\ WF_vars(Start) /\ WF_vars(SchedulerStep)

-----------------------------------------------------------------------------
(* Every variable holds values of its type.                                *)
TypeOK ==
  /\ table \in [Ids -> [status : CampaignStatus, last : Nat \cup {Never},
                        runs : Nat]]
  /\ triggers \in [Ids -> Nat]
  /\ pc \in {"down", "load", "campaign", "mark", "sleep"}
  /\ batch \in Seq([id : Ids, last : Nat \cup {Never}, runs : Nat])
  /\ pc \in {"campaign", "mark"} => batch # <<>>
  /\ {tickNow, now, disruptions, edits} \subseteq Nat

(* runs_count never exceeds the number of events the API has accepted: a   *)
(* run is recorded only after its POST succeeded, across crashes and lost  *)
(* answers.                                                                *)
RunsWereAccepted == \A c \in Ids : table[c].runs <= triggers[c]

(* max_runs limits the events sent: each crash or failed call in the       *)
(* window between the POST and the UPDATE adds at most one.                *)
TriggersWithinLimit ==
  \A c \in Ids : MaxRuns[c] # NoLimit =>
    triggers[c] <= MaxRuns[c] + disruptions

(* Apart from its first run and from such failures, a campaign is          *)
(* triggered at most once for each cron slot that has passed, although the *)
(* tick compares with the time before the load and the UPDATE records the  *)
(* time after the POST.                                                    *)
OncePerSlot ==
  \A c \in Ids :
    triggers[c] <= 1 + Cardinality({s \in Slots[c] : s <= now}) + disruptions

(* A campaign that has never run and stays active is triggered, whatever   *)
(* happens to the campaigns before it in the tick.                         *)
FirstRunHappens ==
  \A c \in Ids \ Refused :
    table[c].status = "ACTIVE" /\ MaxRuns[c] # 0 ~>
      triggers[c] > 0 \/ table[c].status # "ACTIVE"

=============================================================================
