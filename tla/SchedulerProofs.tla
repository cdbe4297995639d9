--------------------------- MODULE SchedulerProofs ---------------------------
(***************************************************************************)
(* Proofs about the campaign scheduler, for any table of campaigns, any    *)
(* schedules and limits, and any number of crashes, failed calls, status   *)
(* changes and ticks of the clock.                                         *)
(***************************************************************************)
EXTENDS CampaignScheduler, OrderingProofs, SequenceTheorems, TLAPS

Row      == [status : CampaignStatus, last : Nat \cup {Never}, runs : Nat]
Snapshots == [id : Ids, last : Nat \cup {Never}, runs : Nat]

(* The slots of a campaign that have passed at time t.                     *)
SlotsBy(c, t) == {s \in Slots[c] : s <= t}

(* 1 between the POST for a campaign and the UPDATE of its row.            *)
Pending(c) == IF pc = "mark" /\ Head(batch).id = c THEN 1 ELSE 0

(* What is left of a tick's list: nothing outside the loop over it, each   *)
(* campaign once, and each snapshot still says what its row says, since    *)
(* only this scheduler writes last_triggered_at and runs_count.            *)
BatchFresh ==
  /\ pc \in {"down", "load", "sleep"} => batch = <<>>
  /\ \A i, j \in DOMAIN batch : batch[i].id = batch[j].id => i = j
  /\ \A i \in DOMAIN batch :
       /\ batch[i].last = table[batch[i].id].last
       /\ batch[i].runs = table[batch[i].id].runs

(* The UPDATE is only sent for a campaign that was due.                    *)
MarksDue == pc = "mark" => IsCampaignDue(Head(batch), tickNow)

(* No time lies ahead of the clock.                                        *)
TimesPassed ==
  /\ tickNow <= now
  /\ \A c \in Ids : table[c].last <= now

(* A recorded run was accepted, and so was the one about to be recorded.   *)
RunsBelow == \A c \in Ids : table[c].runs + Pending(c) <= triggers[c]

(* An accepted event that is never recorded costs a crash or failed call.  *)
RunsAbove ==
  \A c \in Ids : triggers[c] <= table[c].runs + Pending(c) + disruptions

RunsWithinLimit ==
  \A c \in Ids : MaxRuns[c] # NoLimit => table[c].runs <= MaxRuns[c]

(* Each recorded run but the first used up a slot of its own.              *)
RunsUseSlots ==
  \A c \in Ids :
    IF table[c].last = Never
    THEN table[c].runs = 0
    ELSE table[c].runs <= 1 + Cardinality(SlotsBy(c, table[c].last))

SchedInv ==
  /\ TypeOK
  /\ BatchFresh
  /\ MarksDue
  /\ TimesPassed
  /\ RunsBelow
  /\ RunsAbove
  /\ RunsWithinLimit
  /\ RunsUseSlots

-----------------------------------------------------------------------------
(* The list that get_active_campaigns returns: rows as they are, each      *)
(* campaign once.                                                          *)
LEMMA ActiveListing ==
  ASSUME TypeOK
  PROVE  /\ ActiveCampaigns \in Seq(Snapshots)
         /\ \A i, j \in DOMAIN ActiveCampaigns :
              ActiveCampaigns[i].id = ActiveCampaigns[j].id => i = j
         /\ \A i \in DOMAIN ActiveCampaigns :
              LET snap == ActiveCampaigns[i] IN
                /\ snap.last = table[snap.id].last
                /\ snap.runs = table[snap.id].runs
<1> DEFINE active == {i \in DOMAIN Campaigns :
                        table[Campaigns[i]].status = "ACTIVE"}
           rank == [i \in DOMAIN Campaigns |-> i]
           n == Cardinality(active)
           row == InOrder(active, rank)
           Snapshot(c) == [id |-> c, last |-> table[c].last,
                           runs |-> table[c].runs]
           b == ActiveCampaigns
<1>1. DOMAIN Campaigns = 1..Len(Campaigns) /\ Len(Campaigns) \in Nat
  BY SchedulerAssumption, LenProperties
<1>2. IsFiniteSet(active)
  <2>1. IsFiniteSet(1..Len(Campaigns))
    BY <1>1, FS_Interval
  <2>2. active \in SUBSET (1..Len(Campaigns))
    BY <1>1
  <2>. QED
    BY <2>1, <2>2, FS_Subset
<1>3. Ranks(active, rank)
  BY <1>1 DEF Ranks
<1>4. /\ n \in Nat
      /\ row \in [1..n -> active]
      /\ \A k, m \in 1..n : row[k] = row[m] => k = m
  BY <1>2, <1>3, InOrderLists
<1>5. b = [i \in 1..n |-> Snapshot(Campaigns[row[i]])]
  BY <1>4 DEF ActiveCampaigns
<1>. HIDE DEF row, n, b, rank
<1>6. \A k \in active : k \in DOMAIN Campaigns /\ Campaigns[k] \in Ids
  BY <1>1 DEF Ids
<1>. HIDE DEF active
<1>7. b \in [1..n -> Snapshots]
  <2>1. \A c \in Ids : Snapshot(c) \in Snapshots
    BY DEF TypeOK, Snapshots
  <2>. HIDE DEF Snapshot
  <2>. QED
    BY <1>4, <1>5, <1>6, <2>1
<1>8. \A i \in 1..n : /\ b[i].id = Campaigns[row[i]]
                      /\ b[i].last = table[Campaigns[row[i]]].last
                      /\ b[i].runs = table[Campaigns[row[i]]].runs
  BY <1>5
<1>9. \A i, j \in 1..n : b[i].id = b[j].id => i = j
  BY <1>4, <1>6, <1>8, SchedulerAssumption
<1>. QED
  <2>1. b \in Seq(Snapshots) /\ DOMAIN b = 1..n
    BY <1>4, <1>7, SeqDef
  <2>. QED
    BY <2>1, <1>8, <1>9 DEF b

(* _process_campaign returns: what is left is what followed in the list.   *)
LEMMA AdvanceDrops ==
  ASSUME batch \in Seq(Snapshots), batch # <<>>, BatchFresh, Advance
  PROVE  /\ batch' \in Seq(Snapshots)
         /\ pc' = IF batch' = <<>> THEN "sleep" ELSE "campaign"
         /\ tickNow' = tickNow
         /\ \A i, j \in DOMAIN batch' : batch'[i].id = batch'[j].id => i = j
         /\ \A i \in DOMAIN batch' :
              /\ i + 1 \in DOMAIN batch
              /\ batch'[i] = batch[i + 1]
              /\ batch'[i].id # Head(batch).id
<1>1. /\ Len(batch) \in Nat \ {0}
      /\ DOMAIN batch = 1..Len(batch)
      /\ Head(batch) = batch[1]
  BY EmptySeq, LenProperties
<1>2. /\ batch' \in Seq(Snapshots)
      /\ Len(batch') = Len(batch) - 1
      /\ \A i \in 1..Len(batch') : batch'[i] = batch[i + 1]
  BY HeadTailProperties DEF Advance
<1>3. DOMAIN batch' = 1..Len(batch')
  BY <1>2, LenProperties
<1>4. Len(batch) = 1 <=> batch' = <<>>
  BY <1>1, <1>2, EmptySeq
<1>5. \A i \in DOMAIN batch' : i + 1 \in DOMAIN batch /\ i + 1 # 1
  BY <1>1, <1>2, <1>3
<1>6. ASSUME NEW i \in DOMAIN batch', NEW j \in DOMAIN batch',
             batch'[i].id = batch'[j].id
      PROVE  i = j
  <2>1. batch[i + 1].id = batch[j + 1].id
    BY <1>2, <1>3, <1>6
  <2>2. i + 1 = j + 1
    BY <1>5, <2>1 DEF BatchFresh
  <2>. QED
    BY <1>2, <1>3, <2>2, LenProperties
<1>7. ASSUME NEW i \in DOMAIN batch'
      PROVE  batch'[i] = batch[i + 1] /\ batch'[i].id # Head(batch).id
  <2>1. batch'[i] = batch[i + 1]
    BY <1>2, <1>3
  <2>2. batch[i + 1].id # batch[1].id
    BY <1>1, <1>5 DEF BatchFresh
  <2>. QED
    BY <1>1, <2>1, <2>2
<1>8. /\ pc' = IF batch' = <<>> THEN "sleep" ELSE "campaign"
      /\ tickNow' = tickNow
  BY <1>4 DEF Advance
<1>. QED
  BY <1>2, <1>5, <1>6, <1>7, <1>8

(* More slots have passed at a later time, and one more when a slot lies   *)
(* between the two.                                                        *)
LEMMA SlotsGrow ==
  ASSUME NEW c \in Ids, NEW t \in Nat, NEW u \in Nat, t <= u
  PROVE  /\ Cardinality(SlotsBy(c, t)) \in Nat
         /\ Cardinality(SlotsBy(c, t)) <= Cardinality(SlotsBy(c, u))
         /\ (\E s \in Slots[c] : t < s /\ s <= u) =>
              Cardinality(SlotsBy(c, t)) + 1 <= Cardinality(SlotsBy(c, u))
<1>1. Slots[c] \subseteq Nat
  BY SchedulerAssumption
<1>2. \A v \in Nat : IsFiniteSet(SlotsBy(c, v))
  <2> TAKE v \in Nat
  <2>1. SlotsBy(c, v) \in SUBSET Nat /\ \A s \in SlotsBy(c, v) : s <= v
    BY <1>1 DEF SlotsBy
  <2>. QED
    BY <2>1, FS_BoundedSetOfNaturals
<1>3. \A v \in Nat : Cardinality(SlotsBy(c, v)) \in Nat
  BY <1>2, FS_CardinalityType
<1>4. SlotsBy(c, t) \in SUBSET SlotsBy(c, u)
  BY <1>1 DEF SlotsBy
<1>5. /\ Cardinality(SlotsBy(c, t)) <= Cardinality(SlotsBy(c, u))
      /\ Cardinality(SlotsBy(c, u)) = Cardinality(SlotsBy(c, t)) =>
           SlotsBy(c, u) = SlotsBy(c, t)
  BY <1>2, <1>4, FS_Subset
<1>6. ASSUME NEW s \in Slots[c], t < s, s <= u
      PROVE  SlotsBy(c, u) # SlotsBy(c, t)
  BY <1>1, <1>6 DEF SlotsBy
<1>. QED
  BY <1>3, <1>5, <1>6

-----------------------------------------------------------------------------
(* The head of the list is a snapshot of its campaign's row.               *)
LEMMA HeadFresh ==
  ASSUME batch \in Seq(Snapshots), batch # <<>>, BatchFresh
  PROVE  /\ Head(batch) \in Snapshots
         /\ Head(batch).id \in Ids
         /\ Head(batch).last = table[Head(batch).id].last
         /\ Head(batch).runs = table[Head(batch).id].runs
<1>1. Head(batch) \in Snapshots
  BY HeadTailProperties
<1>2. 1 \in DOMAIN batch /\ Head(batch) = batch[1]
  BY EmptySeq, LenProperties
<1>. QED
  BY <1>1, <1>2 DEF BatchFresh, Snapshots

(* TypeOK, one conjunct for each variable.                                 *)
Types ==
  /\ table \in [Ids -> Row]
  /\ triggers \in [Ids -> Nat]
  /\ pc \in {"down", "load", "campaign", "mark", "sleep"}
  /\ batch \in Seq(Snapshots)
  /\ pc \in {"campaign", "mark"} => batch # <<>>
  /\ tickNow \in Nat
  /\ now \in Nat
  /\ disruptions \in Nat
  /\ edits \in Nat

(* Every step keeps the types.                                             *)
LEMMA TypeStep ==
  ASSUME TypeOK, BatchFresh, [Next]_vars
  PROVE  TypeOK'
<1>1. Types
  BY DEF TypeOK, Types, Row, Snapshots
<1>2. batch # <<>> => Head(batch).id \in Ids
  BY <1>1, HeadFresh DEF Types
<1>3. ASSUME batch # <<>>, Advance
      PROVE  /\ batch' \in Seq(Snapshots)
             /\ pc' \in {"sleep", "campaign"}
             /\ pc' = "campaign" => batch' # <<>>
             /\ tickNow' = tickNow
  BY <1>1, <1>3, AdvanceDrops DEF Types
<1>4. ASSUME NEW c \in Ids
      PROVE  TriggeredRow(c) \in Row
  <2>1. table[c].runs \in Nat /\ now \in Nat
    BY <1>1 DEF Types, Row
  <2>2. TriggeredRow(c).status \in CampaignStatus
    BY DEF TriggeredRow, CampaignStatus
  <2>. QED
    BY <2>1, <2>2 DEF TriggeredRow, Row
<1>5. ASSUME NEW c \in Ids, Accept(c)
      PROVE  triggers' \in [Ids -> Nat]
  <2>1. triggers \in [Ids -> Nat] /\ triggers[c] \in Nat
    BY <1>1 DEF Types
  <2>. QED
    BY <1>5, <2>1 DEF Accept
<1>6. Disrupt => disruptions' \in Nat
  BY <1>1 DEF Types, Disrupt
<1>7. ASSUME Tick
      PROVE  Types'
  BY <1>1, <1>7 DEF Tick, Types
<1>8. ASSUME NEW c \in Ids, NEW s \in CampaignStatus, Edit(c, s)
      PROVE  Types'
  <2>1. table \in [Ids -> Row] /\ [table[c] EXCEPT !.status = s] \in Row
    BY <1>1 DEF Types, Row
  <2>2. table' \in [Ids -> Row]
    BY <1>8, <2>1 DEF Edit
  <2>3. /\ UNCHANGED <<triggers, pc, batch, tickNow, now, disruptions>>
        /\ edits' \in Nat
    BY <1>1, <1>8 DEF Edit, Types
  <2>. QED
    BY <1>1, <2>2, <2>3 DEF Types
<1>9. ASSUME Start \/ Wake
      PROVE  Types'
  BY <1>1, <1>9 DEF Start, Wake, BeginTick, Types
<1>10. ASSUME Crash
       PROVE  Types'
  <2>1. batch' \in Seq(Snapshots)
    BY <1>10, EmptySeq DEF Crash
  <2>. QED
    BY <1>1, <1>6, <1>10, <2>1 DEF Crash, Types
<1>11. ASSUME Load
       PROVE  Types'
  <2>1. batch' \in Seq(Snapshots)
    BY <1>11, ActiveListing DEF Load
  <2>. QED
    BY <1>1, <1>11, <2>1 DEF Load, Types
<1>12. ASSUME LoadFails
       PROVE  Types'
  BY <1>1, <1>6, <1>12 DEF LoadFails, Types
<1>13. ASSUME NotDue \/ TriggerRefused
       PROVE  Types'
  <2>1. batch # <<>> /\ Advance
    BY <1>1, <1>13 DEF NotDue, TriggerRefused, Types
  <2>. QED
    BY <1>1, <1>3, <1>13, <2>1 DEF NotDue, TriggerRefused, Types
<1>14. ASSUME Trigger
       PROVE  Types'
  <2>1. batch # <<>>
    BY <1>1, <1>14 DEF Trigger, Types
  <2>2. triggers' \in [Ids -> Nat]
    BY <1>2, <1>5, <1>14, <2>1 DEF Trigger
  <2>. QED
    BY <1>1, <1>14, <2>1, <2>2 DEF Trigger, Types
<1>15. ASSUME TriggerLost
       PROVE  Types'
  <2>1. batch # <<>> /\ Advance
    BY <1>1, <1>15 DEF TriggerLost, Types
  <2>2. triggers' \in [Ids -> Nat]
    BY <1>1, <1>2, <1>5, <1>15, <2>1 DEF TriggerLost, Types
  <2>3. disruptions' \in Nat /\ UNCHANGED <<table, now, edits>>
    BY <1>6, <1>15 DEF TriggerLost
  <2>. QED
    BY <1>1, <1>3, <2>1, <2>2, <2>3 DEF Types
<1>16. ASSUME MarkTriggered \/ MarkFails
       PROVE  Types'
  <2>1. batch # <<>> /\ Advance
    BY <1>1, <1>16 DEF MarkTriggered, MarkFails, Types
  <2>2. TriggeredRow(Head(batch).id) \in Row /\ table \in [Ids -> Row]
    BY <1>1, <1>2, <1>4, <2>1 DEF Types
  <2>3. table' \in [Ids -> Row]
    BY <1>16, <2>2 DEF MarkTriggered, MarkFails
  <2>4. disruptions' \in Nat /\ UNCHANGED <<triggers, now, edits>>
    BY <1>1, <1>6, <1>16 DEF MarkTriggered, MarkFails, Types
  <2>. QED
    BY <1>1, <1>3, <2>1, <2>3, <2>4 DEF Types
<1>17. ASSUME UNCHANGED vars
       PROVE  Types'
  BY <1>1, <1>17 DEF vars, Types
<1>18. Types'
  BY <1>7, <1>8, <1>9, <1>10, <1>11, <1>12, <1>13, <1>14, <1>15, <1>16, <1>17
     DEF Next, SchedulerStep
<1>. QED
  BY <1>18 DEF TypeOK, Types, Row, Snapshots

(* What a step can do to the counts of one campaign: nothing; lose the     *)
(* UPDATE that was due; have an event accepted, with the UPDATE next or    *)
(* the answer lost; record the run.                                        *)
RowKept(c) ==
  /\ table'[c].runs = table[c].runs
  /\ table'[c].last = table[c].last

CountsKept(c) ==
  /\ RowKept(c)
  /\ triggers'[c] = triggers[c]
  /\ Pending(c)' = Pending(c)
  /\ disruptions' >= disruptions

UpdateLost(c) ==
  /\ RowKept(c)
  /\ triggers'[c] = triggers[c]
  /\ Pending(c)' = 0
  /\ disruptions' = disruptions + 1

Accepted(c) ==
  /\ RowKept(c)
  /\ triggers'[c] = triggers[c] + 1
  /\ IsCampaignDue(Head(batch), tickNow) /\ Head(batch).id = c
  /\ Pending(c) = 0
  /\ \/ Pending(c)' = 1 /\ disruptions' = disruptions
     \/ Pending(c)' = 0 /\ disruptions' = disruptions + 1

Recorded(c) ==
  /\ table'[c] = TriggeredRow(c)
  /\ triggers'[c] = triggers[c]
  /\ IsCampaignDue(Head(batch), tickNow) /\ Head(batch).id = c
  /\ Pending(c) = 1
  /\ Pending(c)' = 0
  /\ disruptions' >= disruptions

(* Every step keeps a campaign's counts, loses its update, or is one of    *)
(* the two halves of a recorded run.                                       *)
LEMMA CountsMove ==
  ASSUME TypeOK, BatchFresh, MarksDue, [Next]_vars, NEW c \in Ids
  PROVE  CountsKept(c) \/ UpdateLost(c) \/ Accepted(c) \/ Recorded(c)
<1>1. /\ disruptions \in Nat
      /\ table \in [Ids -> Row]
      /\ triggers \in [Ids -> Nat]
      /\ pc \in {"campaign", "mark"} => batch # <<>>
  BY DEF TypeOK, Row
<1>2. batch \in Seq(Snapshots)
  BY DEF TypeOK, Snapshots
<1>3. Advance /\ batch # <<>> => pc' # "mark"
  BY DEF Advance
<1>4. batch # <<>> => Head(batch).id \in Ids
  BY <1>2, HeadFresh
<1>5. CASE Tick \/ Start \/ Wake \/ Load \/ LoadFails \/ UNCHANGED vars
  BY <1>1, <1>5 DEF Tick, Start, Wake, BeginTick, Load, LoadFails, Disrupt,
                    vars, CountsKept, RowKept, Pending
<1>6. ASSUME NEW d \in Ids, NEW s \in CampaignStatus, Edit(d, s)
      PROVE  CountsKept(c)
  <2>1. table'[c].runs = table[c].runs /\ table'[c].last = table[c].last
    BY <1>1, <1>6 DEF Edit, Row
  <2>. QED
    BY <1>1, <1>6, <2>1 DEF Edit, CountsKept, RowKept, Pending
<1>7. CASE Crash
  BY <1>7 DEF Crash, Disrupt, UpdateLost, RowKept, Pending
<1>8. CASE NotDue \/ TriggerRefused
  BY <1>1, <1>3, <1>8
     DEF NotDue, TriggerRefused, CountsKept, RowKept, Pending
<1>9. CASE Trigger
  BY <1>1, <1>4, <1>9 DEF Trigger, Accept, Accepted, CountsKept, RowKept,
                          Pending
<1>10. CASE TriggerLost
  BY <1>1, <1>3, <1>4, <1>10
     DEF TriggerLost, Disrupt, Accept, Accepted, CountsKept, RowKept, Pending
<1>11. CASE MarkTriggered \/ MarkFails
  <2>1. /\ Pending(c)' = 0
        /\ triggers' = triggers
        /\ disruptions' \in {disruptions, disruptions + 1}
        /\ pc = "mark" /\ IsCampaignDue(Head(batch), tickNow)
    BY <1>1, <1>3, <1>11
       DEF MarkTriggered, MarkFails, Disrupt, MarksDue, Pending
  <2>2. CASE MarkFails /\ UNCHANGED table
    BY <2>1, <2>2 DEF MarkFails, Disrupt, UpdateLost, RowKept
  <2>3. CASE table' = [table EXCEPT ![Head(batch).id] =
                                      TriggeredRow(Head(batch).id)]
    BY <1>1, <2>1, <2>3 DEF Recorded, CountsKept, RowKept, Pending
  <2>. QED
    BY <1>11, <2>2, <2>3 DEF MarkTriggered, MarkFails
<1>. QED
  BY <1>5, <1>6, <1>7, <1>8, <1>9, <1>10, <1>11 DEF Next, SchedulerStep

(* Every step keeps the list fresh: a row's run is recorded as its         *)
(* snapshot leaves the list, and no other snapshot is of that campaign.    *)
LEMMA BatchStep ==
  ASSUME TypeOK, BatchFresh, [Next]_vars
  PROVE  BatchFresh'
<1>1. /\ table \in [Ids -> Row]
      /\ pc \in {"campaign", "mark"} => batch # <<>>
      /\ batch \in Seq(Snapshots)
  BY DEF TypeOK, Row, Snapshots
<1>2. \A i \in DOMAIN batch : batch[i].id \in Ids
  <2>1. \A i \in DOMAIN batch : batch[i] \in Snapshots
    BY <1>1, ElementOfSeq, LenProperties
  <2>. QED
    BY <2>1 DEF Snapshots
<1>3. DOMAIN <<>> = {}
  OBVIOUS
<1>4. ASSUME batch # <<>>, Advance,
             \A c \in Ids \ {Head(batch).id} : table'[c] = table[c]
      PROVE  BatchFresh'
  <2>1. /\ pc' = IF batch' = <<>> THEN "sleep" ELSE "campaign"
        /\ \A i, j \in DOMAIN batch' : batch'[i].id = batch'[j].id => i = j
        /\ \A i \in DOMAIN batch' : /\ i + 1 \in DOMAIN batch
                                    /\ batch'[i] = batch[i + 1]
                                    /\ batch'[i].id # Head(batch).id
    BY <1>1, <1>4, AdvanceDrops
  <2>2. ASSUME NEW i \in DOMAIN batch'
        PROVE  /\ batch'[i].last = table'[batch'[i].id].last
               /\ batch'[i].runs = table'[batch'[i].id].runs
    <3>1. /\ batch'[i] = batch[i + 1]
          /\ i + 1 \in DOMAIN batch
          /\ batch'[i].id \in Ids \ {Head(batch).id}
      BY <1>2, <2>1
    <3>2. table'[batch'[i].id] = table[batch'[i].id]
      BY <1>4, <3>1
    <3>. QED
      BY <3>1, <3>2 DEF BatchFresh
  <2>. QED
    BY <2>1, <2>2 DEF BatchFresh
<1>5. CASE Tick \/ Start \/ Wake \/ LoadFails \/ Trigger \/ UNCHANGED vars
  BY <1>5 DEF Tick, Start, Wake, BeginTick, LoadFails, Trigger, vars,
              BatchFresh
<1>6. ASSUME NEW d \in Ids, NEW s \in CampaignStatus, Edit(d, s)
      PROVE  BatchFresh'
  <2>1. \A c \in Ids : /\ table'[c].runs = table[c].runs
                       /\ table'[c].last = table[c].last
    BY <1>1, <1>6 DEF Edit, Row
  <2>. QED
    BY <1>2, <1>6, <2>1 DEF Edit, BatchFresh
<1>7. CASE Crash
  BY <1>3, <1>7 DEF Crash, BatchFresh
<1>8. CASE Load
  BY <1>8, ActiveListing DEF Load, BatchFresh
<1>9. CASE NotDue \/ TriggerRefused \/ TriggerLost
  BY <1>1, <1>4, <1>9 DEF NotDue, TriggerRefused, TriggerLost
<1>10. CASE MarkTriggered \/ MarkFails
  BY <1>1, <1>4, <1>10 DEF MarkTriggered, MarkFails
<1>. QED
  BY <1>5, <1>6, <1>7, <1>8, <1>9, <1>10 DEF Next, SchedulerStep

(* Every step but a POST leaves "mark" or keeps the list and the tick.     *)
LEMMA MarksDueStep ==
  ASSUME TypeOK, MarksDue, [Next]_vars
  PROVE  MarksDue'
<1>1. Advance /\ batch # <<>> => pc' # "mark"
  BY DEF Advance
<1>2. pc \in {"campaign", "mark"} => batch # <<>>
  BY DEF TypeOK
<1>3. (pc' = "mark" /\ pc = "mark") \/ Trigger =>
        /\ IsCampaignDue(Head(batch), tickNow)
        /\ UNCHANGED <<batch, tickNow>>
  BY <1>1, <1>2
     DEF Next, SchedulerStep, vars, Tick, Edit, Start, BeginTick, Crash, Load,
         LoadFails, NotDue, Trigger, TriggerRefused, TriggerLost,
         MarkTriggered, MarkFails, Wake, MarksDue
<1>4. pc' = "mark" => pc = "mark" \/ Trigger
  BY <1>1, <1>2
     DEF Next, SchedulerStep, vars, Tick, Edit, Start, BeginTick, Crash, Load,
         LoadFails, NotDue, TriggerRefused, TriggerLost, MarkTriggered,
         MarkFails, Wake
<1>. QED
  BY <1>3, <1>4 DEF MarksDue, IsCampaignDue

(* The clock only moves forward, and every time is taken from it.          *)
LEMMA TimesStep ==
  ASSUME TypeOK, BatchFresh, MarksDue, TimesPassed, [Next]_vars
  PROVE  TimesPassed' /\ now <= now'
<1>1. /\ now \in Nat /\ tickNow \in Nat
      /\ table \in [Ids -> Row]
  BY DEF TypeOK, Row
<1>2. /\ now' \in Nat /\ now <= now'
      /\ tickNow' \in {tickNow, now, 0}
  BY <1>1
     DEF Next, SchedulerStep, vars, Tick, Edit, Start, BeginTick, Crash, Load,
         LoadFails, NotDue, Trigger, TriggerRefused, TriggerLost,
         MarkTriggered, MarkFails, Wake, Advance
<1>3. ASSUME NEW c \in Ids
      PROVE  table'[c].last <= now'
  <2>1. table[c].last \in Nat \cup {Never} /\ table[c].last <= now
    BY <1>1 DEF TimesPassed, Row
  <2>2. table'[c].last \in {table[c].last, now}
    <3>1. CountsKept(c) \/ UpdateLost(c) \/ Accepted(c) \/ Recorded(c)
      BY CountsMove
    <3>2. TriggeredRow(c).last = now
      BY DEF TriggeredRow
    <3>. QED
      BY <3>1, <3>2 DEF CountsKept, UpdateLost, Accepted, Recorded, RowKept
  <2>. QED
    BY <1>1, <1>2, <2>1, <2>2 DEF Never
<1>. QED
  BY <1>1, <1>2, <1>3 DEF TimesPassed

(* What the snapshot of a due campaign says of its row, by the time the    *)
(* event is accepted or the run recorded: another run is allowed, and it   *)
(* is the first or a slot has passed since the last.                       *)
LEMMA DueNow ==
  ASSUME TypeOK, BatchFresh, TimesPassed, NEW c \in Ids, batch # <<>>,
         IsCampaignDue(Head(batch), tickNow), Head(batch).id = c
  PROVE  /\ MaxRuns[c] # NoLimit => table[c].runs + 1 <= MaxRuns[c]
         /\ \/ table[c].last = Never
            \/ /\ table[c].last \in Nat
               /\ table[c].last <= now
               /\ \E s \in Slots[c] : table[c].last < s /\ s <= now
<1>1. /\ now \in Nat /\ tickNow \in Nat /\ tickNow <= now
      /\ table[c].runs \in Nat
      /\ table[c].last \in Nat \cup {Never}
      /\ table[c].last <= now
  BY DEF TypeOK, TimesPassed
<1>2. /\ Head(batch).runs = table[c].runs
      /\ Head(batch).last = table[c].last
  BY HeadFresh DEF TypeOK, Snapshots
<1>3. /\ MaxRuns[c] \in Nat \cup {NoLimit}
      /\ Slots[c] \subseteq Nat
  BY SchedulerAssumption
<1>4. \/ table[c].last = Never
      \/ \E s \in Slots[c] : table[c].last < s /\ s <= tickNow
  BY <1>2 DEF IsCampaignDue
<1>5. MaxRuns[c] # NoLimit => table[c].runs < MaxRuns[c]
  BY <1>2 DEF IsCampaignDue
<1>. QED
  BY <1>1, <1>3, <1>4, <1>5 DEF NoLimit

(* Every step keeps the relations between runs_count, last_triggered_at    *)
(* and the events accepted.                                                *)
LEMMA CountsStep ==
  ASSUME SchedInv, [Next]_vars
  PROVE  /\ RunsBelow'
         /\ RunsAbove'
         /\ RunsWithinLimit'
         /\ RunsUseSlots'
<1>. SUFFICES
       ASSUME NEW c \in Ids
       PROVE  /\ table'[c].runs + Pending(c)' <= triggers'[c]
              /\ triggers'[c] <= table'[c].runs + Pending(c)' + disruptions'
              /\ MaxRuns[c] # NoLimit => table'[c].runs <= MaxRuns[c]
              /\ IF table'[c].last = Never
                 THEN table'[c].runs = 0
                 ELSE table'[c].runs
                        <= 1 + Cardinality(SlotsBy(c, table'[c].last))
  BY DEF RunsBelow, RunsAbove, RunsWithinLimit, RunsUseSlots, SlotsBy
<1>1. /\ table[c].runs \in Nat /\ triggers[c] \in Nat /\ disruptions \in Nat
      /\ table[c].last \in Nat \cup {Never}
      /\ now \in Nat
      /\ MaxRuns[c] \in Nat \cup {NoLimit}
      /\ disruptions' \in Nat
  BY TypeStep, SchedulerAssumption DEF SchedInv, TypeOK
<1>2. /\ table[c].runs + Pending(c) <= triggers[c]
      /\ triggers[c] <= table[c].runs + Pending(c) + disruptions
      /\ MaxRuns[c] # NoLimit => table[c].runs <= MaxRuns[c]
      /\ IF table[c].last = Never
         THEN table[c].runs = 0
         ELSE table[c].runs <= 1 + Cardinality(SlotsBy(c, table[c].last))
  BY DEF SchedInv, RunsBelow, RunsAbove, RunsWithinLimit, RunsUseSlots
<1>3. Pending(c) \in {0, 1} /\ Pending(c)' \in {0, 1}
  BY DEF Pending
<1>4. CountsKept(c) \/ UpdateLost(c) \/ Accepted(c) \/ Recorded(c)
  BY CountsMove DEF SchedInv
<1>5. CASE CountsKept(c) \/ UpdateLost(c) \/ Accepted(c)
  <2>1. RowKept(c)
    BY <1>5 DEF CountsKept, UpdateLost, Accepted
  <2>2. /\ table[c].runs + Pending(c)' <= triggers'[c]
        /\ triggers'[c] <= table[c].runs + Pending(c)' + disruptions'
    BY <1>1, <1>2, <1>3, <1>5 DEF CountsKept, UpdateLost, Accepted
  <2>. QED
    BY <1>2, <2>1, <2>2 DEF RowKept
<1>6. CASE Recorded(c)
  <2>1. table'[c].runs = table[c].runs + 1 /\ table'[c].last = now
    BY <1>6 DEF Recorded, TriggeredRow
  <2>2. batch # <<>>
    BY <1>6 DEF Recorded, Pending, SchedInv, TypeOK
  <2>3. /\ MaxRuns[c] # NoLimit => table[c].runs + 1 <= MaxRuns[c]
        /\ \/ table[c].last = Never
           \/ /\ table[c].last \in Nat
              /\ table[c].last <= now
              /\ \E s \in Slots[c] : table[c].last < s /\ s <= now
    BY <1>6, <2>2, DueNow DEF SchedInv, Recorded
  <2>4. /\ table'[c].runs + Pending(c)' <= triggers'[c]
        /\ triggers'[c] <= table'[c].runs + Pending(c)' + disruptions'
    BY <1>1, <1>2, <1>6, <2>1 DEF Recorded
  <2>5. table[c].runs <= Cardinality(SlotsBy(c, now))
    <3>1. CASE table[c].last = Never
      BY <1>1, <1>2, <3>1, SlotsGrow
    <3>2. CASE table[c].last # Never
      <4>1. /\ Cardinality(SlotsBy(c, table[c].last)) \in Nat
            /\ Cardinality(SlotsBy(c, now)) \in Nat
            /\ Cardinality(SlotsBy(c, table[c].last)) + 1
                 <= Cardinality(SlotsBy(c, now))
        BY <1>1, <2>3, <3>2, SlotsGrow
      <4>. QED
        BY <1>1, <1>2, <3>2, <4>1
    <3>. QED
      BY <3>1, <3>2
  <2>6. Cardinality(SlotsBy(c, now)) \in Nat
    BY <1>1, SlotsGrow
  <2>. QED
    BY <1>1, <2>1, <2>3, <2>4, <2>5, <2>6 DEF Never
<1>. QED
  BY <1>4, <1>5, <1>6

-----------------------------------------------------------------------------
(* The inductive invariant: initially, at every step, hence always.        *)
LEMMA SchedInvInit == Init => SchedInv
<1>. SUFFICES ASSUME Init
              PROVE  SchedInv
  OBVIOUS
<1>1. \A c \in Ids : table[c].last = Never /\ table[c].runs = 0
  BY DEF Init
<1>2. TypeOK
  <2>1. table \in [Ids -> Row]
    BY DEF Init, Row
  <2>. QED
    BY <2>1, EmptySeq DEF Init, TypeOK, Row
<1>3. BatchFresh /\ MarksDue
  BY DEF Init, BatchFresh, MarksDue
<1>4. TimesPassed /\ RunsUseSlots
  BY <1>1 DEF Init, TimesPassed, RunsUseSlots, Never
<1>5. RunsBelow /\ RunsAbove /\ RunsWithinLimit
  BY <1>1, SchedulerAssumption
     DEF Init, RunsBelow, RunsAbove, RunsWithinLimit, Pending, NoLimit
<1>. QED
  BY <1>2, <1>3, <1>4, <1>5 DEF SchedInv

(* Every step keeps the invariant, hence it always holds.                  *)
LEMMA SchedInvStep == SchedInv /\ [Next]_vars => SchedInv'
BY TypeStep, BatchStep, MarksDueStep, TimesStep, CountsStep DEF SchedInv

(* The invariant of the scheduler always holds.                            *)
LEMMA SchedInvHolds == Spec => []SchedInv
BY SchedInvInit, SchedInvStep, PTL DEF Spec

(* The scheduler's variables hold values of their types, and a tick never  *)
(* stands at a campaign past the end of its list.                          *)
THEOREM SchedulerTypes == Spec => []TypeOK
<1>1. SchedInv => TypeOK
  BY DEF SchedInv
<1>. QED
  BY <1>1, SchedInvHolds, PTL

(* runs_count never exceeds the number of accepted events, whatever crashes*)
(* and calls fail: mark_campaign_triggered follows an accepted POST.       *)
THEOREM RunsAccepted == Spec => []RunsWereAccepted
<1>1. SchedInv => RunsWereAccepted
  <2>. SUFFICES ASSUME SchedInv, NEW c \in Ids
                PROVE  table[c].runs <= triggers[c]
    BY DEF RunsWereAccepted
  <2>1. table[c].runs \in Nat /\ triggers[c] \in Nat
    BY DEF SchedInv, TypeOK
  <2>2. Pending(c) \in {0, 1} /\ table[c].runs + Pending(c) <= triggers[c]
    BY DEF SchedInv, RunsBelow, Pending
  <2>. QED
    BY <2>1, <2>2
<1>. QED
  BY <1>1, SchedInvHolds, PTL

(* A limited campaign sends max_runs events and one more at most for each  *)
(* crash or failed call: is_campaign_due reads a snapshot, but one that no *)
(* other writer can have made stale.                                       *)
THEOREM TriggersLimited == Spec => []TriggersWithinLimit
<1>1. SchedInv => TriggersWithinLimit
  <2>. SUFFICES ASSUME SchedInv, NEW c \in Ids, MaxRuns[c] # NoLimit
                PROVE  triggers[c] <= MaxRuns[c] + disruptions
    BY DEF TriggersWithinLimit
  <2>1. /\ table[c].runs \in Nat /\ triggers[c] \in Nat /\ disruptions \in Nat
        /\ MaxRuns[c] \in Nat
    BY SchedulerAssumption DEF SchedInv, TypeOK
  <2>2. /\ table[c].runs <= MaxRuns[c]
        /\ triggers[c] <= table[c].runs + Pending(c) + disruptions
    BY DEF SchedInv, RunsWithinLimit, RunsAbove
  <2>3. CASE pc = "mark" /\ Head(batch).id = c
    <3>1. batch # <<>> /\ IsCampaignDue(Head(batch), tickNow)
      BY <2>3 DEF SchedInv, TypeOK, MarksDue
    <3>2. table[c].runs + 1 <= MaxRuns[c]
      BY <2>3, <3>1, DueNow DEF SchedInv
    <3>3. Pending(c) = 1
      BY <2>3 DEF Pending
    <3>. QED
      BY <2>1, <2>2, <3>2, <3>3
  <2>4. CASE ~(pc = "mark" /\ Head(batch).id = c)
    <3>1. Pending(c) = 0
      BY <2>4 DEF Pending
    <3>. QED
      BY <2>1, <2>2, <3>1
  <2>. QED
    BY <2>3, <2>4
<1>. QED
  BY <1>1, SchedInvHolds, PTL

(* Apart from its first run and one for each crash or failed call, a       *)
(* campaign has had at most one event for each slot of its cron schedule   *)
(* that has passed: recording NOW() after the POST never lets one slot     *)
(* count twice.                                                            *)
THEOREM SlotsTriggerOnce == Spec => []OncePerSlot
<1>1. SchedInv => OncePerSlot
  <2>. SUFFICES
         ASSUME SchedInv, NEW c \in Ids
         PROVE  triggers[c] <= 1 + Cardinality(SlotsBy(c, now)) + disruptions
    BY DEF OncePerSlot, SlotsBy
  <2>1. /\ table[c].runs \in Nat /\ triggers[c] \in Nat /\ disruptions \in Nat
        /\ table[c].last \in Nat \cup {Never} /\ table[c].last <= now
        /\ now \in Nat
    BY DEF SchedInv, TypeOK, TimesPassed
  <2>2. /\ IF table[c].last = Never
           THEN table[c].runs = 0
           ELSE table[c].runs <= 1 + Cardinality(SlotsBy(c, table[c].last))
        /\ triggers[c] <= table[c].runs + Pending(c) + disruptions
    BY DEF SchedInv, RunsUseSlots, RunsAbove
  <2>3. Cardinality(SlotsBy(c, now)) \in Nat
    BY <2>1, SlotsGrow
  <2>4. CASE pc = "mark" /\ Head(batch).id = c
    <3>1. batch # <<>> /\ IsCampaignDue(Head(batch), tickNow)
      BY <2>4 DEF SchedInv, TypeOK, MarksDue
    <3>2. \/ table[c].last = Never
          \/ /\ table[c].last \in Nat
             /\ table[c].last <= now
             /\ \E s \in Slots[c] : table[c].last < s /\ s <= now
      BY <2>4, <3>1, DueNow DEF SchedInv
    <3>3. CASE table[c].last = Never
      BY <2>1, <2>2, <2>3, <3>3 DEF Pending
    <3>4. CASE table[c].last # Never
      <4>1. /\ Cardinality(SlotsBy(c, table[c].last)) \in Nat
            /\ Cardinality(SlotsBy(c, table[c].last)) + 1
                 <= Cardinality(SlotsBy(c, now))
        BY <2>1, <3>2, <3>4, SlotsGrow
      <4>2. Pending(c) = 1
        BY <2>4 DEF Pending
      <4>. QED
        BY <2>1, <2>2, <2>3, <3>4, <4>1, <4>2
    <3>. QED
      BY <3>3, <3>4
  <2>5. CASE ~(pc = "mark" /\ Head(batch).id = c)
    <3>1. Pending(c) = 0
      BY <2>5 DEF Pending
    <3>2. table[c].runs <= 1 + Cardinality(SlotsBy(c, now))
      <4>1. CASE table[c].last = Never
        BY <2>2, <2>3, <4>1
      <4>2. CASE table[c].last # Never
        <5>1. /\ Cardinality(SlotsBy(c, table[c].last)) \in Nat
              /\ Cardinality(SlotsBy(c, table[c].last))
                   <= Cardinality(SlotsBy(c, now))
          BY <2>1, <4>2, SlotsGrow
        <5>. QED
          BY <2>1, <2>2, <2>3, <4>2, <5>1
      <4>. QED
        BY <4>1, <4>2
    <3>. QED
      BY <2>1, <2>2, <2>3, <3>1, <3>2
  <2>. QED
    BY <2>4, <2>5
<1>. QED
  BY <1>1, SchedInvHolds, PTL

=============================================================================
