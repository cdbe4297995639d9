---------------------------- MODULE WorkerProofs ----------------------------
(***************************************************************************)
(* Proofs about the worker, for every value of the constants.  First the   *)
(* types, then one invariant after the other with the lemma that every     *)
(* step keeps it, then the theorems.  Working backwards from the result:   *)
(* a commit covers the position (NoLossStep); what lies below the position *)
(* is handled but for the message in hand (PositionStep); a worker commits *)
(* only when its job is handled (CommitHandledStep); a job with a row is   *)
(* handled (RowsHandledStep) and stays so (HandledStep).                   *)
(***************************************************************************)
EXTENDS WorkerProperties, TLAPS

(* The points where the consumer task has a message in hand.               *)
Handling == PC \ {"down", "poll", "stopped"}

(* Between poll and commit a worker always has a message.                  *)
JobInHand == \A w \in Workers : pc[w] \in Handling => job[w] \in Jobs

(* The inductive form of TypeOK: writing a row needs to know that the      *)
(* message in hand is one of the jobs.                                     *)
Typed == TypeOK /\ JobInHand

(* Each SQL statement of the repository (the two of try_claim_job and the  *)
(* upsert of save_status) turns a row into a row.                          *)
LEMMA RowTypes ==
  /\ \A s \in Status, n \in Nat : SavedRow(s, n) \in Row
  /\ \A t \in Nat \cup {NoTime} : ClaimInsertedRow(t) \in Row
  /\ \A r \in Row, t \in Nat \cup {NoTime} : ClaimUpdatedRow(r, t) \in Row
BY DEF Row, Status, Terminal, Open, SavedRow, ClaimInsertedRow, ClaimUpdatedRow

(* A worker that runs one of these statements on the job in its hand, or   *)
(* none, leaves a well-formed notification_delivery table.                 *)
LEMMA WriteTypes ==
  ASSUME Typed, NEW w \in Workers, job[w] \in Jobs, NEW s \in Status,
         Save(w, s) \/ InsertClaim(w) \/ UpdateClaim(w) \/ UNCHANGED rows
  PROVE  rows' \in [Jobs -> Row]
<1> USE DEF Typed, TypeOK
<1>1. CASE Save(w, s)
  <2>1. SavedRow(s, attempts[w]) \in Row
    BY RowTypes
  <2>2. QED
    BY <1>1, <2>1 DEF Save
<1>2. CASE InsertClaim(w)
  BY <1>2, RowTypes DEF InsertClaim
<1>3. CASE UpdateClaim(w)
  BY <1>3, RowTypes DEF UpdateClaim
<1>4. CASE UNCHANGED rows
  BY <1>4
<1>5. QED
  BY <1>1, <1>2, <1>3, <1>4

(* The empty system is well typed.                                         *)
LEMMA TypeInit == Init => Typed
BY WorkerAssumption, RepositoryAssumption
   DEF Init, Typed, JobInHand, Handling, TypeOK, NoOffset, NoTime, NoRow, Row,
       Status, Terminal, Open, PC

(* Every step of the worker keeps the types: one case per action.          *)
LEMMA TypeStep ==
  Typed /\ [Next]_vars => Typed'
<1> SUFFICES ASSUME Typed, [Next]_vars PROVE Typed'
  OBVIOUS
<1> USE WorkerAssumption, RepositoryAssumption DEF Typed, JobInHand, Handling,
       TypeOK, broker, store, local, env
<1>1. CASE UNCHANGED vars
  BY <1>1 DEF vars, PC
<1>2. ASSUME NEW j \in Jobs, Publish(j) PROVE Typed'
  BY <1>2 DEF Publish, PC
<1>3. CASE Tick
  BY <1>3 DEF Tick, PC
<1>4. ASSUME NEW w \in Workers, Start(w) PROVE Typed'
  BY <1>4 DEF Start, At, Goto, PC, NoTime
<1>5. ASSUME NEW w \in Workers, Crash(w) PROVE Typed'
  BY <1>5 DEF Crash, Leave, At, Goto, PC, NoTime
<1>6. ASSUME NEW w \in Workers, Assign(w) PROVE Typed'
  BY <1>6 DEF Assign, StartPosition, At, Goto, PC, NoOffset
<1>7. ASSUME NEW w \in Workers, Rebalance(w) PROVE Typed'
  BY <1>7 DEF Rebalance, StartPosition, At, Goto, PC, NoOffset
<1>8. ASSUME NEW w \in Workers, Poll(w) PROVE Typed'
  <2>1. log[position + 1] \in Jobs /\ position' \in Nat
    BY <1>8 DEF Poll
  <2>2. /\ pc' \in [Workers -> PC]
        /\ job' = [job EXCEPT ![w] = log[position + 1]]
    BY <1>8 DEF Poll, Goto, PC
  <2>3. \A v \in Workers \ {w} : pc'[v] = pc[v] /\ job'[v] = job[v]
    BY <1>8, <2>2 DEF Poll, Goto
  <2>4. \A v \in Workers : pc'[v] \in Handling => job'[v] \in Jobs
    BY <2>1, <2>2, <2>3
  <2>. QED
    BY <1>8, <2>1, <2>2, <2>4 DEF Poll
<1>9. ASSUME NEW w \in Workers, PollFails(w) PROVE Typed'
  BY <1>9 DEF PollFails, Leave, At, Goto, PC, NoTime
<1>10. ASSUME NEW w \in Workers, PublishRaw(w) PROVE Typed'
  BY <1>10 DEF PublishRaw, Done, At, Goto, PC, NoTime
<1>11. ASSUME NEW w \in Workers, PublishRawNull(w) PROVE Typed'
  BY <1>11 DEF PublishRawNull, Leave, At, Goto, PC, NoTime
<1>12. ASSUME NEW w \in Workers, PublishRawFails(w) PROVE Typed'
  BY <1>12 DEF PublishRawFails, DlqSendFails, Leave, At, Goto, PC, NoTime
<1>13. ASSUME NEW w \in Workers, DlqUnhandled(w) PROVE Typed'
  BY <1>13 DEF DlqUnhandled, Done, At, Goto, PC, NoTime
<1>14. ASSUME NEW w \in Workers, DlqUnhandledFails(w) PROVE Typed'
  BY <1>14 DEF DlqUnhandledFails, DlqSendFails, Leave, At, Goto, PC, NoTime
<1>15. ASSUME NEW w \in Workers, Commit(w) PROVE Typed'
  BY <1>15 DEF Commit, At, Goto, PC, NoTime
<1>16. ASSUME NEW w \in Workers, CommitNothing(w) PROVE Typed'
  BY <1>16 DEF CommitNothing, At, Goto, PC, NoTime
<1>17. ASSUME NEW w \in Workers, CommitFails(w) PROVE Typed'
  BY <1>17 DEF CommitFails, Leave, At, Goto, PC, NoTime
<1>18. ASSUME NEW w \in Workers, GetExistingFails(w) PROVE Typed'
  BY <1>18 DEF GetExistingFails, Raise, At, Goto, PC, NoTime
<1>19. ASSUME NEW w \in Workers, SkipFinal(w) PROVE Typed'
  BY <1>19 DEF SkipFinal, Done, At, Goto, PC, NoTime
<1>20. ASSUME NEW w \in Workers, FindExpired(w) PROVE Typed'
  BY <1>20 DEF FindExpired, At, Goto, PC, NoTime, Row
<1>21. ASSUME NEW w \in Workers, DeferSend(w) PROVE Typed'
  <2>1. job[w] \in Jobs
    BY <1>21 DEF DeferSend, At, PC
  <2>2. now + Earlier(SendAfter[job[w]] - now, MaxSendDelay) \in Nat
    <3>1. SendAfter[job[w]] \in Int /\ SendAfter[job[w]] > now
      BY <1>21, <2>1 DEF DeferSend, Defers, NoTime
    <3>2. QED
      BY <3>1 DEF Earlier
  <2>3. QED
    BY <1>21, <2>1, <2>2 DEF DeferSend, At, Goto, PC, Row
<1>22. ASSUME NEW w \in Workers, GoClaim(w) PROVE Typed'
  BY <1>22 DEF GoClaim, At, Goto, PC, NoTime, Row
<1>23. ASSUME NEW w \in Workers, MarkExpired(w) PROVE Typed'
  <2>1. job[w] \in Jobs
    BY <1>23 DEF MarkExpired, At, PC
  <2>2. rows' \in [Jobs -> Row]
    BY <1>23, <2>1, WriteTypes DEF MarkExpired, Status, Terminal, Open
  <2>3. QED
    BY <1>23, <2>1, <2>2 DEF MarkExpired, Done, At, Goto, PC, NoTime
<1>24. ASSUME NEW w \in Workers, MarkExpiredFails(w) PROVE Typed'
  <2>1. job[w] \in Jobs
    BY <1>24 DEF MarkExpiredFails, At, PC
  <2>2. rows' \in [Jobs -> Row]
    BY <1>24, <2>1, WriteTypes DEF MarkExpiredFails, SaveFails, Status,
       Terminal, Open
  <2>3. QED
    BY <1>24, <2>1, <2>2 DEF MarkExpiredFails, Raise, At, Goto, PC, NoTime
<1>25. ASSUME NEW w \in Workers, WakeAtSendAfter(w) PROVE Typed'
  BY <1>25 DEF WakeAtSendAfter, At, Goto, PC, NoTime
<1>26. ASSUME NEW w \in Workers, ClaimInsert(w) PROVE Typed'
  <2>1. job[w] \in Jobs
    BY <1>26 DEF ClaimInsert, At, PC
  <2>2. rows' \in [Jobs -> Row]
    BY <1>26, <2>1, WriteTypes DEF ClaimInsert, Status, Terminal, Open
  <2>3. QED
    BY <1>26, <2>1, <2>2 DEF ClaimInsert, Claimed, At, Goto, PC, NoTime
<1>27. ASSUME NEW w \in Workers, ClaimConflict(w) PROVE Typed'
  BY <1>27 DEF ClaimConflict, At, Goto, PC, NoTime
<1>28. ASSUME NEW w \in Workers, ClaimInsertFails(w) PROVE Typed'
  <2>1. job[w] \in Jobs
    BY <1>28 DEF ClaimInsertFails, At, PC
  <2>2. rows' \in [Jobs -> Row]
    BY <1>28, <2>1, WriteTypes DEF ClaimInsertFails, Status, Terminal, Open
  <2>3. QED
    BY <1>28, <2>1, <2>2 DEF ClaimInsertFails, Raise, At, Goto, PC, NoTime
<1>29. ASSUME NEW w \in Workers, ClaimUpdate(w) PROVE Typed'
  <2>1. job[w] \in Jobs
    BY <1>29 DEF ClaimUpdate, At, PC
  <2>2. rows' \in [Jobs -> Row]
    BY <1>29, <2>1, WriteTypes DEF ClaimUpdate, Status, Terminal, Open
  <2>3. QED
    BY <1>29, <2>1, <2>2 DEF ClaimUpdate, Claimed, At, Goto, PC, NoTime
<1>30. ASSUME NEW w \in Workers, ClaimRefused(w) PROVE Typed'
  BY <1>30 DEF ClaimRefused, Done, At, Goto, PC, NoTime
<1>31. ASSUME NEW w \in Workers, ClaimUpdateFails(w) PROVE Typed'
  <2>1. job[w] \in Jobs
    BY <1>31 DEF ClaimUpdateFails, At, PC
  <2>2. rows' \in [Jobs -> Row]
    BY <1>31, <2>1, WriteTypes DEF ClaimUpdateFails, Status, Terminal, Open
  <2>3. QED
    BY <1>31, <2>1, <2>2 DEF ClaimUpdateFails, Raise, At, Goto, PC, NoTime
<1>32. ASSUME NEW w \in Workers, BudgetSpent(w) PROVE Typed'
  BY <1>32 DEF BudgetSpent, Done, At, Goto, PC, NoTime
<1>33. ASSUME NEW w \in Workers, AttemptOk(w) PROVE Typed'
  <2>1. job[w] \in Jobs
    BY <1>33 DEF AttemptOk, At, PC
  <2>2. sends' \in [Jobs -> Nat]
    BY <1>33, <2>1 DEF AttemptOk
  <2>3. pc' \in [Workers -> PC] /\ attempts' \in [Workers -> Nat]
    BY <1>33 DEF AttemptOk, Goto, PC
  <2>4. \A v \in Workers : pc'[v] \in Handling => job'[v] \in Jobs
    BY <1>33, <2>1 DEF AttemptOk, Goto, PC
  <2>. QED
    BY <1>33, <2>2, <2>3, <2>4 DEF AttemptOk
<1>34. ASSUME NEW w \in Workers, AttemptFails(w) PROVE Typed'
  BY <1>34 DEF AttemptFails, At, Goto, PC, NoTime
<1>35. ASSUME NEW w \in Workers, AttemptAckLost(w) PROVE Typed'
  <2>1. job[w] \in Jobs
    BY <1>35 DEF AttemptAckLost, At, PC
  <2>2. sends' \in [Jobs -> Nat]
    BY <1>35, <2>1 DEF AttemptAckLost
  <2>3. QED
    BY <1>35, <2>1, <2>2 DEF AttemptAckLost, At, Goto, PC
<1>36. ASSUME NEW w \in Workers, MarkSent(w) PROVE Typed'
  <2>1. job[w] \in Jobs
    BY <1>36 DEF MarkSent, At, PC
  <2>2. rows' \in [Jobs -> Row]
    BY <1>36, <2>1, WriteTypes DEF MarkSent, Status, Terminal, Open
  <2>3. QED
    BY <1>36, <2>1, <2>2 DEF MarkSent, Done, At, Goto, PC, NoTime
<1>37. ASSUME NEW w \in Workers, MarkSentFails(w) PROVE Typed'
  <2>1. job[w] \in Jobs
    BY <1>37 DEF MarkSentFails, At, PC
  <2>2. rows' \in [Jobs -> Row]
    BY <1>37, <2>1, WriteTypes DEF MarkSentFails, SaveFails, Status, Terminal,
       Open
  <2>3. QED
    BY <1>37, <2>1, <2>2 DEF MarkSentFails, At, Goto, PC, NoTime
<1>38. ASSUME NEW w \in Workers, MarkFailure(w) PROVE Typed'
  <2>1. job[w] \in Jobs
    BY <1>38 DEF MarkFailure, At, PC
  <2>2. rows' \in [Jobs -> Row]
    BY <1>38, <2>1, WriteTypes DEF MarkFailure, FailureStatus, Status, Terminal,
       Open
  <2>3. QED
    BY <1>38, <2>1, <2>2 DEF MarkFailure, At, Goto, PC, NoTime
<1>39. ASSUME NEW w \in Workers, MarkFailureFails(w) PROVE Typed'
  <2>1. job[w] \in Jobs
    BY <1>39 DEF MarkFailureFails, At, PC
  <2>2. rows' \in [Jobs -> Row]
    BY <1>39, <2>1, WriteTypes DEF MarkFailureFails, SaveFails, FailureStatus,
       Status, Terminal, Open
  <2>3. QED
    BY <1>39, <2>1, <2>2 DEF MarkFailureFails, Raise, At, Goto, PC, NoTime
<1>40. ASSUME NEW w \in Workers, RetryWake(w) PROVE Typed'
  BY <1>40 DEF RetryWake, At, Goto, PC, NoTime
<1>41. ASSUME NEW w \in Workers, DlqFinal(w) PROVE Typed'
  BY <1>41 DEF DlqFinal, Done, At, Goto, PC, NoTime
<1>42. ASSUME NEW w \in Workers, DlqFinalFails(w) PROVE Typed'
  BY <1>42 DEF DlqFinalFails, DlqSendFails, Raise, At, Goto, PC, NoTime
<1>43. QED
  BY <1>1, <1>2, <1>3, <1>4, <1>5, <1>6, <1>7, <1>8, <1>9, <1>10, <1>11, <1>12,
     <1>13, <1>14, <1>15, <1>16, <1>17, <1>18, <1>19, <1>20, <1>21, <1>22,
     <1>23, <1>24, <1>25, <1>26, <1>27, <1>28, <1>29, <1>30, <1>31, <1>32,
     <1>33, <1>34, <1>35, <1>36, <1>37, <1>38, <1>39, <1>40, <1>41, <1>42 DEF
     Next, WorkerStep, ConsumerStep, ClaimStep, RetryStep

-----------------------------------------------------------------------------
(* The offsets of the group: nothing is committed or handed out that was   *)
(* not published, and while the partition is assigned the commit never     *)
(* runs ahead of the position (_commit_message commits the position).      *)
OffsetsOrdered ==
  /\ committed <= Len(log)
  /\ position <= Len(log)
  /\ owner # NoWorker => committed <= position

(* SENT rows were accepted by the provider, and so was the job of a worker *)
(* that is about to write SENT (attempt_send before mark_sent).            *)
Accepted ==
  /\ \A w \in Workers : At(w, "mark_sent") => sends[job[w]] > 0
  /\ SentWasAccepted

(* The points where the snapshot existing.attempts, or the loop counter,   *)
(* must still be below max_attempts.                                       *)
Budgeted ==
  {"mark_expired", "send_after", "claim_insert", "claim_update", "attempt",
   "retry_sleep"}

(* The inductive form of ClaimLeavesBudget: the snapshot, and every row    *)
(* that a redelivery does not skip, is below max_attempts; FAILED rows are *)
(* at it, so that _should_skip recognises them.                            *)
WithinBudget ==
  /\ \A w \in Workers : pc[w] \in Budgeted => attempts[w] < MaxAttempts
  /\ \A j \in Jobs :
       /\ rows[j].status \in {"ABSENT", "PROCESSING", "RETRYING", "EXPIRED"}
            => rows[j].attempts < MaxAttempts
       /\ rows[j].status = "FAILED" => rows[j].attempts >= MaxAttempts

(* The points where the job in hand has a row.                             *)
Rowed == {"claim_update", "attempt", "mark_sent", "mark_failure",
          "retry_sleep", "dlq_final"}

(* From the conflict of the INSERT or a successful claim on, the job in    *)
(* hand has a row in the table; rows are never deleted.                    *)
HasRow == \A w \in Workers :
            pc[w] \in Rowed => rows[job[w]].status # "ABSENT"

(* What a step may do to the broker: publish, assign, poll, commit, or     *)
(* give the partition up.                                                  *)
LEMMA BrokerSteps ==
  ASSUME [Next]_vars
  PROVE  \/ UNCHANGED broker
         \/ \E j \in Jobs : Publish(j)
         \/ \E w \in Workers :
              \/ Assign(w) \/ Rebalance(w) \/ Poll(w) \/ Commit(w)
              \/ CommitFails(w)
              \/ /\ owner' = IF owner = w THEN NoWorker ELSE owner
                 /\ UNCHANGED <<log, position, committed>>
BY DEF Next, WorkerStep, ConsumerStep, ClaimStep, RetryStep, vars, broker,
   Tick, Start, Crash, PollFails, PublishRaw, PublishRawNull,
   PublishRawFails, DlqUnhandled, DlqUnhandledFails, CommitNothing,
   GetExistingFails, SkipFinal, FindExpired, DeferSend, GoClaim, MarkExpired,
   MarkExpiredFails, WakeAtSendAfter, ClaimInsert, ClaimConflict,
   ClaimInsertFails, ClaimUpdate, ClaimRefused, ClaimUpdateFails,
   BudgetSpent, AttemptOk, AttemptFails, AttemptAckLost, MarkSent,
   MarkSentFails, MarkFailure, MarkFailureFails, RetryWake, DlqFinal,
   DlqFinalFails, Leave

(* How long the log is, and grows to be.                                   *)
LEMMA LogLength ==
  ASSUME log \in Seq(Jobs)
  PROVE  /\ Len(log) \in Nat
         /\ \A j \in Jobs : Len(Append(log, j)) = Len(log) + 1
OBVIOUS

(* No step breaks the order of the offsets, in particular not a commit()   *)
(* after the partition went away and came back.                            *)
LEMMA OffsetsStep == Typed /\ OffsetsOrdered /\ [Next]_vars => OffsetsOrdered'
<1> SUFFICES ASSUME Typed, OffsetsOrdered, [Next]_vars PROVE OffsetsOrdered'
  OBVIOUS
<1> Typed'
  BY TypeStep
<1> USE WorkerAssumption DEF OffsetsOrdered, Typed, TypeOK
<1>1. CASE UNCHANGED broker
  BY <1>1 DEF broker
<1>2. ASSUME NEW j \in Jobs, Publish(j) PROVE OffsetsOrdered'
  <2>1. Len(log) \in Nat /\ Len(log') = Len(log) + 1
    BY <1>2, LogLength DEF Publish
  <2>2. /\ committed \in Int /\ position \in Nat
        /\ committed <= Len(log) /\ position <= Len(log)
    BY DEF NoOffset
  <2>3. committed <= Len(log) + 1 /\ position <= Len(log) + 1
    <3>. HIDE DEF Typed, TypeOK, OffsetsOrdered
    <3>. QED
      BY <2>1, <2>2
  <2>4. UNCHANGED <<committed, position, owner>>
    BY <1>2 DEF Publish
  <2>. QED
    BY <2>1, <2>3, <2>4
<1>3. ASSUME NEW w \in Workers, Assign(w) \/ Rebalance(w)
      PROVE  OffsetsOrdered'
  BY <1>3 DEF Assign, Rebalance, StartPosition, NoOffset
<1>4. ASSUME NEW w \in Workers, Poll(w) PROVE OffsetsOrdered'
  <2>1. /\ position < Len(log) /\ position' = position + 1
        /\ UNCHANGED <<log, committed, owner>>
    BY <1>4 DEF Poll
  <2>2. committed \in Int /\ position \in Nat /\ Len(log) \in Nat
    BY LogLength DEF NoOffset
  <2>3. position + 1 <= Len(log)
    BY <2>1, <2>2
  <2>4. committed <= position => committed <= position + 1
    BY <2>2
  <2>. QED
    BY <2>1, <2>3, <2>4
<1>5. ASSUME NEW w \in Workers, Commit(w) PROVE OffsetsOrdered'
  BY <1>5 DEF Commit
<1>6. ASSUME NEW w \in Workers, CommitFails(w) PROVE OffsetsOrdered'
  BY <1>6 DEF CommitFails, Leave
<1>7. ASSUME NEW w \in Workers,
             owner' = IF owner = w THEN NoWorker ELSE owner,
             UNCHANGED <<log, position, committed>>
      PROVE  OffsetsOrdered'
  BY <1>7
<1>8. QED
  BY <1>1, <1>2, <1>3, <1>4, <1>5, <1>6, <1>7, BrokerSteps

(* No step writes SENT, or goes to write it, before the provider accepted  *)
(* the job; send counts never fall.                                        *)
LEMMA AcceptedStep ==
  Typed /\ Accepted /\ [Next]_vars => Accepted'
<1> SUFFICES ASSUME Typed, Accepted, [Next]_vars PROVE Accepted'
  OBVIOUS
<1> Typed'
  BY TypeStep
<1> USE DEF Typed, TypeOK, JobInHand, Handling, PC, Accepted, SentWasAccepted,
       broker, store, local, env
<1>1. CASE UNCHANGED vars
  BY <1>1 DEF vars, At
<1>2. ASSUME NEW j \in Jobs, Publish(j) PROVE Accepted'
  BY <1>2 DEF Publish, At
<1>3. CASE Tick
  BY <1>3 DEF Tick, At
<1>4. ASSUME NEW w \in Workers, Start(w) PROVE Accepted'
  BY <1>4 DEF Start, At, Goto
<1>5. ASSUME NEW w \in Workers, Crash(w) PROVE Accepted'
  BY <1>5 DEF Crash, Leave, At, Goto
<1>6. ASSUME NEW w \in Workers, Assign(w) PROVE Accepted'
  BY <1>6 DEF Assign, StartPosition, At, Goto
<1>7. ASSUME NEW w \in Workers, Rebalance(w) PROVE Accepted'
  BY <1>7 DEF Rebalance, StartPosition, At, Goto
<1>8. ASSUME NEW w \in Workers, Poll(w) PROVE Accepted'
  BY <1>8 DEF Poll, At, Goto
<1>9. ASSUME NEW w \in Workers, PollFails(w) PROVE Accepted'
  BY <1>9 DEF PollFails, Leave, At, Goto
<1>10. ASSUME NEW w \in Workers, PublishRaw(w) PROVE Accepted'
  BY <1>10 DEF PublishRaw, Done, At, Goto
<1>11. ASSUME NEW w \in Workers, PublishRawNull(w) PROVE Accepted'
  BY <1>11 DEF PublishRawNull, Leave, At, Goto
<1>12. ASSUME NEW w \in Workers, PublishRawFails(w) PROVE Accepted'
  BY <1>12 DEF PublishRawFails, DlqSendFails, Leave, At, Goto
<1>13. ASSUME NEW w \in Workers, DlqUnhandled(w) PROVE Accepted'
  BY <1>13 DEF DlqUnhandled, Done, At, Goto
<1>14. ASSUME NEW w \in Workers, DlqUnhandledFails(w) PROVE Accepted'
  BY <1>14 DEF DlqUnhandledFails, DlqSendFails, Leave, At, Goto
<1>15. ASSUME NEW w \in Workers, Commit(w) PROVE Accepted'
  BY <1>15 DEF Commit, At, Goto
<1>16. ASSUME NEW w \in Workers, CommitNothing(w) PROVE Accepted'
  BY <1>16 DEF CommitNothing, At, Goto
<1>17. ASSUME NEW w \in Workers, CommitFails(w) PROVE Accepted'
  BY <1>17 DEF CommitFails, Leave, At, Goto
<1>18. ASSUME NEW w \in Workers, GetExistingFails(w) PROVE Accepted'
  BY <1>18 DEF GetExistingFails, Raise, At, Goto
<1>19. ASSUME NEW w \in Workers, SkipFinal(w) PROVE Accepted'
  BY <1>19 DEF SkipFinal, Done, At, Goto
<1>20. ASSUME NEW w \in Workers, FindExpired(w) PROVE Accepted'
  BY <1>20 DEF FindExpired, At, Goto
<1>21. ASSUME NEW w \in Workers, DeferSend(w) PROVE Accepted'
  BY <1>21 DEF DeferSend, At, Goto
<1>22. ASSUME NEW w \in Workers, GoClaim(w) PROVE Accepted'
  BY <1>22 DEF GoClaim, At, Goto
<1>23. ASSUME NEW w \in Workers, MarkExpired(w) PROVE Accepted'
  BY <1>23 DEF MarkExpired, Done, At, Goto, Save, SavedRow
<1>24. ASSUME NEW w \in Workers, MarkExpiredFails(w) PROVE Accepted'
  <2>1. CASE Save(w, "EXPIRED")
    BY <1>24, <2>1 DEF MarkExpiredFails, Raise, At, Goto, Save, SavedRow
  <2>2. CASE UNCHANGED rows
    BY <1>24, <2>2 DEF MarkExpiredFails, Raise, At, Goto
  <2>3. QED
    BY <1>24, <2>1, <2>2 DEF MarkExpiredFails, SaveFails
<1>25. ASSUME NEW w \in Workers, WakeAtSendAfter(w) PROVE Accepted'
  BY <1>25 DEF WakeAtSendAfter, At, Goto
<1>26. ASSUME NEW w \in Workers, ClaimInsert(w) PROVE Accepted'
  BY <1>26 DEF ClaimInsert, Claimed, At, Goto, InsertClaim, ClaimInsertedRow
<1>27. ASSUME NEW w \in Workers, ClaimConflict(w) PROVE Accepted'
  BY <1>27 DEF ClaimConflict, At, Goto
<1>28. ASSUME NEW w \in Workers, ClaimInsertFails(w) PROVE Accepted'
  <2>1. CASE InsertClaim(w)
    BY <1>28, <2>1 DEF ClaimInsertFails, Raise, At, Goto, InsertClaim,
       ClaimInsertedRow
  <2>2. CASE UNCHANGED rows
    BY <1>28, <2>2 DEF ClaimInsertFails, Raise, At, Goto
  <2>3. QED
    BY <1>28, <2>1, <2>2 DEF ClaimInsertFails
<1>29. ASSUME NEW w \in Workers, ClaimUpdate(w) PROVE Accepted'
  BY <1>29 DEF ClaimUpdate, Claimed, At, Goto, UpdateClaim, ClaimUpdatedRow
<1>30. ASSUME NEW w \in Workers, ClaimRefused(w) PROVE Accepted'
  BY <1>30 DEF ClaimRefused, Done, At, Goto
<1>31. ASSUME NEW w \in Workers, ClaimUpdateFails(w) PROVE Accepted'
  <2>1. CASE UpdateClaim(w)
    BY <1>31, <2>1 DEF ClaimUpdateFails, Raise, At, Goto, UpdateClaim,
       ClaimUpdatedRow
  <2>2. CASE UNCHANGED rows
    BY <1>31, <2>2 DEF ClaimUpdateFails, Raise, At, Goto
  <2>3. QED
    BY <1>31, <2>1, <2>2 DEF ClaimUpdateFails
<1>32. ASSUME NEW w \in Workers, BudgetSpent(w) PROVE Accepted'
  BY <1>32 DEF BudgetSpent, Done, At, Goto
<1>33. ASSUME NEW w \in Workers, AttemptOk(w) PROVE Accepted'
  BY <1>33 DEF AttemptOk, At, Goto
<1>34. ASSUME NEW w \in Workers, AttemptFails(w) PROVE Accepted'
  BY <1>34 DEF AttemptFails, At, Goto
<1>35. ASSUME NEW w \in Workers, AttemptAckLost(w) PROVE Accepted'
  BY <1>35 DEF AttemptAckLost, At, Goto
<1>36. ASSUME NEW w \in Workers, MarkSent(w) PROVE Accepted'
  BY <1>36 DEF MarkSent, Done, At, Goto, Save, SavedRow
<1>37. ASSUME NEW w \in Workers, MarkSentFails(w) PROVE Accepted'
  <2>1. CASE Save(w, "SENT")
    BY <1>37, <2>1 DEF MarkSentFails, At, Goto, Save, SavedRow
  <2>2. CASE UNCHANGED rows
    BY <1>37, <2>2 DEF MarkSentFails, At, Goto
  <2>3. QED
    BY <1>37, <2>1, <2>2 DEF MarkSentFails, SaveFails
<1>38. ASSUME NEW w \in Workers, MarkFailure(w) PROVE Accepted'
  BY <1>38 DEF MarkFailure, At, Goto, Save, SavedRow, FailureStatus
<1>39. ASSUME NEW w \in Workers, MarkFailureFails(w) PROVE Accepted'
  <2>1. CASE Save(w, FailureStatus(attempts[w]))
    BY <1>39, <2>1 DEF MarkFailureFails, Raise, At, Goto, Save, SavedRow,
       FailureStatus
  <2>2. CASE UNCHANGED rows
    BY <1>39, <2>2 DEF MarkFailureFails, Raise, At, Goto, FailureStatus
  <2>3. QED
    BY <1>39, <2>1, <2>2 DEF MarkFailureFails, SaveFails
<1>40. ASSUME NEW w \in Workers, RetryWake(w) PROVE Accepted'
  BY <1>40 DEF RetryWake, At, Goto
<1>41. ASSUME NEW w \in Workers, DlqFinal(w) PROVE Accepted'
  BY <1>41 DEF DlqFinal, Done, At, Goto
<1>42. ASSUME NEW w \in Workers, DlqFinalFails(w) PROVE Accepted'
  BY <1>42 DEF DlqFinalFails, DlqSendFails, Raise, At, Goto
<1>43. QED
  BY <1>1, <1>2, <1>3, <1>4, <1>5, <1>6, <1>7, <1>8, <1>9, <1>10, <1>11, <1>12,
     <1>13, <1>14, <1>15, <1>16, <1>17, <1>18, <1>19, <1>20, <1>21, <1>22,
     <1>23, <1>24, <1>25, <1>26, <1>27, <1>28, <1>29, <1>30, <1>31, <1>32,
     <1>33, <1>34, <1>35, <1>36, <1>37, <1>38, <1>39, <1>40, <1>41, <1>42 DEF
     Next, WorkerStep, ConsumerStep, ClaimStep, RetryStep

(* No step lets a snapshot, the counter of attempt_with_retries or a       *)
(* claimable row reach max_attempts, and FAILED is written only at it.     *)
LEMMA BudgetStep ==
  MaxAttempts > 0 /\ Typed /\ WithinBudget /\ [Next]_vars => WithinBudget'
<1> SUFFICES ASSUME MaxAttempts > 0, Typed, WithinBudget, [Next]_vars PROVE
      WithinBudget'
  OBVIOUS
<1> Typed'
  BY TypeStep
<1> USE RepositoryAssumption DEF Typed, TypeOK, JobInHand, Handling, PC, Row,
       WithinBudget, Budgeted, broker, store, local, env
<1>1. CASE UNCHANGED vars
  BY <1>1 DEF vars
<1>2. ASSUME NEW j \in Jobs, Publish(j) PROVE WithinBudget'
  BY <1>2 DEF Publish
<1>3. CASE Tick
  BY <1>3 DEF Tick
<1>4. ASSUME NEW w \in Workers, Start(w) PROVE WithinBudget'
  BY <1>4 DEF Start, At, Goto
<1>5. ASSUME NEW w \in Workers, Crash(w) PROVE WithinBudget'
  BY <1>5 DEF Crash, Leave, At, Goto
<1>6. ASSUME NEW w \in Workers, Assign(w) PROVE WithinBudget'
  BY <1>6 DEF Assign, StartPosition, At, Goto
<1>7. ASSUME NEW w \in Workers, Rebalance(w) PROVE WithinBudget'
  BY <1>7 DEF Rebalance, StartPosition, At, Goto
<1>8. ASSUME NEW w \in Workers, Poll(w) PROVE WithinBudget'
  BY <1>8 DEF Poll, At, Goto
<1>9. ASSUME NEW w \in Workers, PollFails(w) PROVE WithinBudget'
  BY <1>9 DEF PollFails, Leave, At, Goto
<1>10. ASSUME NEW w \in Workers, PublishRaw(w) PROVE WithinBudget'
  BY <1>10 DEF PublishRaw, Done, At, Goto
<1>11. ASSUME NEW w \in Workers, PublishRawNull(w) PROVE WithinBudget'
  BY <1>11 DEF PublishRawNull, Leave, At, Goto
<1>12. ASSUME NEW w \in Workers, PublishRawFails(w) PROVE WithinBudget'
  BY <1>12 DEF PublishRawFails, DlqSendFails, Leave, At, Goto
<1>13. ASSUME NEW w \in Workers, DlqUnhandled(w) PROVE WithinBudget'
  BY <1>13 DEF DlqUnhandled, Done, At, Goto
<1>14. ASSUME NEW w \in Workers, DlqUnhandledFails(w) PROVE WithinBudget'
  BY <1>14 DEF DlqUnhandledFails, DlqSendFails, Leave, At, Goto
<1>15. ASSUME NEW w \in Workers, Commit(w) PROVE WithinBudget'
  BY <1>15 DEF Commit, At, Goto
<1>16. ASSUME NEW w \in Workers, CommitNothing(w) PROVE WithinBudget'
  BY <1>16 DEF CommitNothing, At, Goto
<1>17. ASSUME NEW w \in Workers, CommitFails(w) PROVE WithinBudget'
  BY <1>17 DEF CommitFails, Leave, At, Goto
<1>18. ASSUME NEW w \in Workers, GetExistingFails(w) PROVE WithinBudget'
  BY <1>18 DEF GetExistingFails, Raise, At, Goto
<1>19. ASSUME NEW w \in Workers, SkipFinal(w) PROVE WithinBudget'
  BY <1>19 DEF SkipFinal, Done, At, Goto
<1>20. ASSUME NEW w \in Workers, FindExpired(w) PROVE WithinBudget'
  BY <1>20 DEF FindExpired, At, Goto, ShouldSkip, Status, Terminal, Open
<1>21. ASSUME NEW w \in Workers, DeferSend(w) PROVE WithinBudget'
  BY <1>21 DEF DeferSend, At, Goto, ShouldSkip, Status, Terminal, Open
<1>22. ASSUME NEW w \in Workers, GoClaim(w) PROVE WithinBudget'
  BY <1>22 DEF GoClaim, At, Goto, ShouldSkip, Status, Terminal, Open
<1>23. ASSUME NEW w \in Workers, MarkExpired(w) PROVE WithinBudget'
  BY <1>23 DEF MarkExpired, Done, At, Goto, Save, SavedRow
<1>24. ASSUME NEW w \in Workers, MarkExpiredFails(w) PROVE WithinBudget'
  <2>1. CASE Save(w, "EXPIRED")
    BY <1>24, <2>1 DEF MarkExpiredFails, Raise, At, Goto, Save, SavedRow
  <2>2. CASE UNCHANGED rows
    BY <1>24, <2>2 DEF MarkExpiredFails, Raise, At, Goto
  <2>3. QED
    BY <1>24, <2>1, <2>2 DEF MarkExpiredFails, SaveFails
<1>25. ASSUME NEW w \in Workers, WakeAtSendAfter(w) PROVE WithinBudget'
  BY <1>25 DEF WakeAtSendAfter, At, Goto
<1>26. ASSUME NEW w \in Workers, ClaimInsert(w) PROVE WithinBudget'
  BY <1>26 DEF ClaimInsert, Claimed, At, Goto, InsertClaim, ClaimInsertedRow
<1>27. ASSUME NEW w \in Workers, ClaimConflict(w) PROVE WithinBudget'
  BY <1>27 DEF ClaimConflict, At, Goto
<1>28. ASSUME NEW w \in Workers, ClaimInsertFails(w) PROVE WithinBudget'
  <2>1. CASE InsertClaim(w)
    BY <1>28, <2>1 DEF ClaimInsertFails, Raise, At, Goto, InsertClaim,
       ClaimInsertedRow
  <2>2. CASE UNCHANGED rows
    BY <1>28, <2>2 DEF ClaimInsertFails, Raise, At, Goto
  <2>3. QED
    BY <1>28, <2>1, <2>2 DEF ClaimInsertFails
<1>29. ASSUME NEW w \in Workers, ClaimUpdate(w) PROVE WithinBudget'
  BY <1>29 DEF ClaimUpdate, Claimed, At, Goto, UpdateClaim, ClaimUpdatedRow,
     Claimable, Status, Terminal, Open
<1>30. ASSUME NEW w \in Workers, ClaimRefused(w) PROVE WithinBudget'
  BY <1>30 DEF ClaimRefused, Done, At, Goto
<1>31. ASSUME NEW w \in Workers, ClaimUpdateFails(w) PROVE WithinBudget'
  <2>1. CASE UpdateClaim(w)
    BY <1>31, <2>1 DEF ClaimUpdateFails, Raise, At, Goto, UpdateClaim,
       ClaimUpdatedRow, Claimable, Status, Terminal, Open
  <2>2. CASE UNCHANGED rows
    BY <1>31, <2>2 DEF ClaimUpdateFails, Raise, At, Goto, Claimable, Status,
       Terminal, Open
  <2>3. QED
    BY <1>31, <2>1, <2>2 DEF ClaimUpdateFails
<1>32. ASSUME NEW w \in Workers, BudgetSpent(w) PROVE WithinBudget'
  BY <1>32 DEF BudgetSpent, Done, At, Goto
<1>33. ASSUME NEW w \in Workers, AttemptOk(w) PROVE WithinBudget'
  BY <1>33 DEF AttemptOk, At, Goto
<1>34. ASSUME NEW w \in Workers, AttemptFails(w) PROVE WithinBudget'
  BY <1>34 DEF AttemptFails, At, Goto
<1>35. ASSUME NEW w \in Workers, AttemptAckLost(w) PROVE WithinBudget'
  BY <1>35 DEF AttemptAckLost, At, Goto
<1>36. ASSUME NEW w \in Workers, MarkSent(w) PROVE WithinBudget'
  BY <1>36 DEF MarkSent, Done, At, Goto, Save, SavedRow
<1>37. ASSUME NEW w \in Workers, MarkSentFails(w) PROVE WithinBudget'
  <2>1. CASE Save(w, "SENT")
    BY <1>37, <2>1 DEF MarkSentFails, At, Goto, Save, SavedRow
  <2>2. CASE UNCHANGED rows
    BY <1>37, <2>2 DEF MarkSentFails, At, Goto
  <2>3. QED
    BY <1>37, <2>1, <2>2 DEF MarkSentFails, SaveFails
<1>38. ASSUME NEW w \in Workers, MarkFailure(w) PROVE WithinBudget'
  BY <1>38 DEF MarkFailure, At, Goto, Save, SavedRow, FailureStatus
<1>39. ASSUME NEW w \in Workers, MarkFailureFails(w) PROVE WithinBudget'
  <2>1. CASE Save(w, FailureStatus(attempts[w]))
    BY <1>39, <2>1 DEF MarkFailureFails, Raise, At, Goto, Save, SavedRow,
       FailureStatus
  <2>2. CASE UNCHANGED rows
    BY <1>39, <2>2 DEF MarkFailureFails, Raise, At, Goto, FailureStatus
  <2>3. QED
    BY <1>39, <2>1, <2>2 DEF MarkFailureFails, SaveFails
<1>40. ASSUME NEW w \in Workers, RetryWake(w) PROVE WithinBudget'
  BY <1>40 DEF RetryWake, At, Goto
<1>41. ASSUME NEW w \in Workers, DlqFinal(w) PROVE WithinBudget'
  BY <1>41 DEF DlqFinal, Done, At, Goto
<1>42. ASSUME NEW w \in Workers, DlqFinalFails(w) PROVE WithinBudget'
  BY <1>42 DEF DlqFinalFails, DlqSendFails, Raise, At, Goto
<1>43. QED
  BY <1>1, <1>2, <1>3, <1>4, <1>5, <1>6, <1>7, <1>8, <1>9, <1>10, <1>11, <1>12,
     <1>13, <1>14, <1>15, <1>16, <1>17, <1>18, <1>19, <1>20, <1>21, <1>22,
     <1>23, <1>24, <1>25, <1>26, <1>27, <1>28, <1>29, <1>30, <1>31, <1>32,
     <1>33, <1>34, <1>35, <1>36, <1>37, <1>38, <1>39, <1>40, <1>41, <1>42 DEF
     Next, WorkerStep, ConsumerStep, ClaimStep, RetryStep

(* No step takes away the row that a claimed job rests on.                 *)
LEMMA RowStep ==
  Typed /\ HasRow /\ [Next]_vars => HasRow'
<1> SUFFICES ASSUME Typed, HasRow, [Next]_vars PROVE HasRow'
  OBVIOUS
<1> Typed'
  BY TypeStep
<1> USE DEF Typed, TypeOK, JobInHand, Handling, PC, HasRow, Rowed, broker,
       store, local, env
<1>1. CASE UNCHANGED vars
  BY <1>1 DEF vars
<1>2. ASSUME NEW j \in Jobs, Publish(j) PROVE HasRow'
  BY <1>2 DEF Publish
<1>3. CASE Tick
  BY <1>3 DEF Tick
<1>4. ASSUME NEW w \in Workers, Start(w) PROVE HasRow'
  BY <1>4 DEF Start, At, Goto
<1>5. ASSUME NEW w \in Workers, Crash(w) PROVE HasRow'
  BY <1>5 DEF Crash, Leave, At, Goto
<1>6. ASSUME NEW w \in Workers, Assign(w) PROVE HasRow'
  BY <1>6 DEF Assign, StartPosition, At, Goto
<1>7. ASSUME NEW w \in Workers, Rebalance(w) PROVE HasRow'
  BY <1>7 DEF Rebalance, StartPosition, At, Goto
<1>8. ASSUME NEW w \in Workers, Poll(w) PROVE HasRow'
  BY <1>8 DEF Poll, At, Goto
<1>9. ASSUME NEW w \in Workers, PollFails(w) PROVE HasRow'
  BY <1>9 DEF PollFails, Leave, At, Goto
<1>10. ASSUME NEW w \in Workers, PublishRaw(w) PROVE HasRow'
  BY <1>10 DEF PublishRaw, Done, At, Goto
<1>11. ASSUME NEW w \in Workers, PublishRawNull(w) PROVE HasRow'
  BY <1>11 DEF PublishRawNull, Leave, At, Goto
<1>12. ASSUME NEW w \in Workers, PublishRawFails(w) PROVE HasRow'
  BY <1>12 DEF PublishRawFails, DlqSendFails, Leave, At, Goto
<1>13. ASSUME NEW w \in Workers, DlqUnhandled(w) PROVE HasRow'
  BY <1>13 DEF DlqUnhandled, Done, At, Goto
<1>14. ASSUME NEW w \in Workers, DlqUnhandledFails(w) PROVE HasRow'
  BY <1>14 DEF DlqUnhandledFails, DlqSendFails, Leave, At, Goto
<1>15. ASSUME NEW w \in Workers, Commit(w) PROVE HasRow'
  BY <1>15 DEF Commit, At, Goto
<1>16. ASSUME NEW w \in Workers, CommitNothing(w) PROVE HasRow'
  BY <1>16 DEF CommitNothing, At, Goto
<1>17. ASSUME NEW w \in Workers, CommitFails(w) PROVE HasRow'
  BY <1>17 DEF CommitFails, Leave, At, Goto
<1>18. ASSUME NEW w \in Workers, GetExistingFails(w) PROVE HasRow'
  BY <1>18 DEF GetExistingFails, Raise, At, Goto
<1>19. ASSUME NEW w \in Workers, SkipFinal(w) PROVE HasRow'
  BY <1>19 DEF SkipFinal, Done, At, Goto
<1>20. ASSUME NEW w \in Workers, FindExpired(w) PROVE HasRow'
  BY <1>20 DEF FindExpired, At, Goto
<1>21. ASSUME NEW w \in Workers, DeferSend(w) PROVE HasRow'
  BY <1>21 DEF DeferSend, At, Goto
<1>22. ASSUME NEW w \in Workers, GoClaim(w) PROVE HasRow'
  BY <1>22 DEF GoClaim, At, Goto
<1>23. ASSUME NEW w \in Workers, MarkExpired(w) PROVE HasRow'
  BY <1>23 DEF MarkExpired, Done, At, Goto, Save, SavedRow
<1>24. ASSUME NEW w \in Workers, MarkExpiredFails(w) PROVE HasRow'
  <2>1. CASE Save(w, "EXPIRED")
    BY <1>24, <2>1 DEF MarkExpiredFails, Raise, At, Goto, Save, SavedRow
  <2>2. CASE UNCHANGED rows
    BY <1>24, <2>2 DEF MarkExpiredFails, Raise, At, Goto
  <2>3. QED
    BY <1>24, <2>1, <2>2 DEF MarkExpiredFails, SaveFails
<1>25. ASSUME NEW w \in Workers, WakeAtSendAfter(w) PROVE HasRow'
  BY <1>25 DEF WakeAtSendAfter, At, Goto
<1>26. ASSUME NEW w \in Workers, ClaimInsert(w) PROVE HasRow'
  BY <1>26 DEF ClaimInsert, Claimed, At, Goto, InsertClaim, ClaimInsertedRow
<1>27. ASSUME NEW w \in Workers, ClaimConflict(w) PROVE HasRow'
  BY <1>27 DEF ClaimConflict, At, Goto
<1>28. ASSUME NEW w \in Workers, ClaimInsertFails(w) PROVE HasRow'
  <2>1. CASE InsertClaim(w)
    BY <1>28, <2>1 DEF ClaimInsertFails, Raise, At, Goto, InsertClaim,
       ClaimInsertedRow
  <2>2. CASE UNCHANGED rows
    BY <1>28, <2>2 DEF ClaimInsertFails, Raise, At, Goto
  <2>3. QED
    BY <1>28, <2>1, <2>2 DEF ClaimInsertFails
<1>29. ASSUME NEW w \in Workers, ClaimUpdate(w) PROVE HasRow'
  BY <1>29 DEF ClaimUpdate, Claimed, At, Goto, UpdateClaim, ClaimUpdatedRow
<1>30. ASSUME NEW w \in Workers, ClaimRefused(w) PROVE HasRow'
  BY <1>30 DEF ClaimRefused, Done, At, Goto
<1>31. ASSUME NEW w \in Workers, ClaimUpdateFails(w) PROVE HasRow'
  <2>1. CASE UpdateClaim(w)
    BY <1>31, <2>1 DEF ClaimUpdateFails, Raise, At, Goto, UpdateClaim,
       ClaimUpdatedRow
  <2>2. CASE UNCHANGED rows
    BY <1>31, <2>2 DEF ClaimUpdateFails, Raise, At, Goto
  <2>3. QED
    BY <1>31, <2>1, <2>2 DEF ClaimUpdateFails
<1>32. ASSUME NEW w \in Workers, BudgetSpent(w) PROVE HasRow'
  BY <1>32 DEF BudgetSpent, Done, At, Goto
<1>33. ASSUME NEW w \in Workers, AttemptOk(w) PROVE HasRow'
  BY <1>33 DEF AttemptOk, At, Goto
<1>34. ASSUME NEW w \in Workers, AttemptFails(w) PROVE HasRow'
  BY <1>34 DEF AttemptFails, At, Goto
<1>35. ASSUME NEW w \in Workers, AttemptAckLost(w) PROVE HasRow'
  BY <1>35 DEF AttemptAckLost, At, Goto
<1>36. ASSUME NEW w \in Workers, MarkSent(w) PROVE HasRow'
  BY <1>36 DEF MarkSent, Done, At, Goto, Save, SavedRow
<1>37. ASSUME NEW w \in Workers, MarkSentFails(w) PROVE HasRow'
  <2>1. CASE Save(w, "SENT")
    BY <1>37, <2>1 DEF MarkSentFails, At, Goto, Save, SavedRow
  <2>2. CASE UNCHANGED rows
    BY <1>37, <2>2 DEF MarkSentFails, At, Goto
  <2>3. QED
    BY <1>37, <2>1, <2>2 DEF MarkSentFails, SaveFails
<1>38. ASSUME NEW w \in Workers, MarkFailure(w) PROVE HasRow'
  BY <1>38 DEF MarkFailure, At, Goto, Save, SavedRow, FailureStatus
<1>39. ASSUME NEW w \in Workers, MarkFailureFails(w) PROVE HasRow'
  <2>1. CASE Save(w, FailureStatus(attempts[w]))
    BY <1>39, <2>1 DEF MarkFailureFails, Raise, At, Goto, Save, SavedRow,
       FailureStatus
  <2>2. CASE UNCHANGED rows
    BY <1>39, <2>2 DEF MarkFailureFails, Raise, At, Goto, FailureStatus
  <2>3. QED
    BY <1>39, <2>1, <2>2 DEF MarkFailureFails, SaveFails
<1>40. ASSUME NEW w \in Workers, RetryWake(w) PROVE HasRow'
  BY <1>40 DEF RetryWake, At, Goto
<1>41. ASSUME NEW w \in Workers, DlqFinal(w) PROVE HasRow'
  BY <1>41 DEF DlqFinal, Done, At, Goto
<1>42. ASSUME NEW w \in Workers, DlqFinalFails(w) PROVE HasRow'
  BY <1>42 DEF DlqFinalFails, DlqSendFails, Raise, At, Goto
<1>43. QED
  BY <1>1, <1>2, <1>3, <1>4, <1>5, <1>6, <1>7, <1>8, <1>9, <1>10, <1>11, <1>12,
     <1>13, <1>14, <1>15, <1>16, <1>17, <1>18, <1>19, <1>20, <1>21, <1>22,
     <1>23, <1>24, <1>25, <1>26, <1>27, <1>28, <1>29, <1>30, <1>31, <1>32,
     <1>33, <1>34, <1>35, <1>36, <1>37, <1>38, <1>39, <1>40, <1>41, <1>42 DEF
     Next, WorkerStep, ConsumerStep, ClaimStep, RetryStep

-----------------------------------------------------------------------------
(* A job with a row is handled: settled, in the hands of a worker, or      *)
(* orphaned by the death of one.                                           *)
RowsHandled == \A j \in Jobs : rows[j].status # "ABSENT" => Handled(j)

(* When handle_job has returned, its job is handled: every early return of *)
(* the handler rests on somebody having dealt with the job.                *)
CommitHandled == \A w \in Workers : At(w, "commit") => Handled(job[w])

(* Everything handed out by the iterator is handled, except perhaps the    *)
(* last message, which the owner still has in hand: commit() commits the   *)
(* position, so this is what a commit covers.                              *)
PositionHandled ==
  owner # NoWorker =>
    \A o \in 1..position :
      \/ Handled(log[o])
      \/ o = position /\ pc[owner] \in Handling /\ job[owner] = log[o]

(* The inductive invariant behind NoLossWithoutOrphan, for a group that    *)
(* has a committed offset.                                                 *)
IInv ==
  /\ Typed
  /\ OffsetsOrdered
  /\ Accepted
  /\ WithinBudget
  /\ HasRow
  /\ RowsHandled
  /\ CommitHandled
  /\ PositionHandled
  /\ NoLossWithoutOrphan
  /\ committed \in Nat

(* Once handled, a job stays handled: DLQ records and accepted sends stay, *)
(* an EXPIRED row is overwritten only by a worker that has the job in      *)
(* hand, and a worker leaves a job only settled or as an orphan.           *)
LEMMA HandledStep ==
  ASSUME Typed,
         Accepted,
         WithinBudget,
         HasRow,
         [Next]_vars,
         NEW j \in Jobs,
         Handled(j)
  PROVE  Handled(j)'
<1> Typed'
  BY TypeStep
<1> USE RepositoryAssumption DEF Typed, TypeOK, JobInHand, Handling, PC, Row,
       Handled, Resolved, Working, Engaged, broker, store, local, env
<1>1. CASE UNCHANGED vars
  BY <1>1 DEF vars
<1>2. ASSUME NEW k \in Jobs, Publish(k) PROVE Handled(j)'
  BY <1>2 DEF Publish
<1>3. CASE Tick
  BY <1>3 DEF Tick
<1>4. ASSUME NEW w \in Workers, Start(w) PROVE Handled(j)'
  BY <1>4 DEF Start, At, Goto
<1>5. ASSUME NEW w \in Workers, Crash(w) PROVE Handled(j)'
  BY <1>5 DEF Crash, Leave, At, Goto
<1>6. ASSUME NEW w \in Workers, Assign(w) PROVE Handled(j)'
  BY <1>6 DEF Assign, StartPosition, At, Goto
<1>7. ASSUME NEW w \in Workers, Rebalance(w) PROVE Handled(j)'
  BY <1>7 DEF Rebalance, StartPosition, At, Goto
<1>8. ASSUME NEW w \in Workers, Poll(w) PROVE Handled(j)'
  BY <1>8 DEF Poll, At, Goto
<1>9. ASSUME NEW w \in Workers, PollFails(w) PROVE Handled(j)'
  BY <1>9 DEF PollFails, Leave, At, Goto
<1>10. ASSUME NEW w \in Workers, PublishRaw(w) PROVE Handled(j)'
  BY <1>10 DEF PublishRaw, Done, At, Goto
<1>11. ASSUME NEW w \in Workers, PublishRawNull(w) PROVE Handled(j)'
  BY <1>11 DEF PublishRawNull, Leave, At, Goto
<1>12. ASSUME NEW w \in Workers, PublishRawFails(w) PROVE Handled(j)'
  BY <1>12 DEF PublishRawFails, DlqSendFails, Leave, At, Goto
<1>13. ASSUME NEW w \in Workers, DlqUnhandled(w) PROVE Handled(j)'
  BY <1>13 DEF DlqUnhandled, Done, At, Goto
<1>14. ASSUME NEW w \in Workers, DlqUnhandledFails(w) PROVE Handled(j)'
  BY <1>14 DEF DlqUnhandledFails, DlqSendFails, Leave, At, Goto
<1>15. ASSUME NEW w \in Workers, Commit(w) PROVE Handled(j)'
  BY <1>15 DEF Commit, At, Goto
<1>16. ASSUME NEW w \in Workers, CommitNothing(w) PROVE Handled(j)'
  BY <1>16 DEF CommitNothing, At, Goto
<1>17. ASSUME NEW w \in Workers, CommitFails(w) PROVE Handled(j)'
  BY <1>17 DEF CommitFails, Leave, At, Goto
<1>18. ASSUME NEW w \in Workers, GetExistingFails(w) PROVE Handled(j)'
  BY <1>18 DEF GetExistingFails, Raise, At, Goto
<1>19. ASSUME NEW w \in Workers, SkipFinal(w) PROVE Handled(j)'
  BY <1>19 DEF SkipFinal, Done, At, Goto
<1>20. ASSUME NEW w \in Workers, FindExpired(w) PROVE Handled(j)'
  BY <1>20 DEF FindExpired, At, Goto
<1>21. ASSUME NEW w \in Workers, DeferSend(w) PROVE Handled(j)'
  BY <1>21 DEF DeferSend, At, Goto
<1>22. ASSUME NEW w \in Workers, GoClaim(w) PROVE Handled(j)'
  BY <1>22 DEF GoClaim, At, Goto
<1>23. ASSUME NEW w \in Workers, MarkExpired(w) PROVE Handled(j)'
  BY <1>23 DEF MarkExpired, Done, At, Goto, Save, SavedRow
<1>24. ASSUME NEW w \in Workers, MarkExpiredFails(w) PROVE Handled(j)'
  <2>1. CASE Save(w, "EXPIRED")
    BY <1>24, <2>1 DEF MarkExpiredFails, Raise, At, Goto, Save, SavedRow
  <2>2. CASE UNCHANGED rows
    BY <1>24, <2>2 DEF MarkExpiredFails, Raise, At, Goto
  <2>3. QED
    BY <1>24, <2>1, <2>2 DEF MarkExpiredFails, SaveFails
<1>25. ASSUME NEW w \in Workers, WakeAtSendAfter(w) PROVE Handled(j)'
  BY <1>25 DEF WakeAtSendAfter, At, Goto
<1>26. ASSUME NEW w \in Workers, ClaimInsert(w) PROVE Handled(j)'
  BY <1>26 DEF ClaimInsert, Claimed, At, Goto, InsertClaim, ClaimInsertedRow
<1>27. ASSUME NEW w \in Workers, ClaimConflict(w) PROVE Handled(j)'
  BY <1>27 DEF ClaimConflict, At, Goto
<1>28. ASSUME NEW w \in Workers, ClaimInsertFails(w) PROVE Handled(j)'
  <2>1. CASE InsertClaim(w)
    BY <1>28, <2>1 DEF ClaimInsertFails, Raise, At, Goto, InsertClaim,
       ClaimInsertedRow
  <2>2. CASE UNCHANGED rows
    BY <1>28, <2>2 DEF ClaimInsertFails, Raise, At, Goto
  <2>3. QED
    BY <1>28, <2>1, <2>2 DEF ClaimInsertFails
<1>29. ASSUME NEW w \in Workers, ClaimUpdate(w) PROVE Handled(j)'
  BY <1>29 DEF ClaimUpdate, Claimed, At, Goto, UpdateClaim, ClaimUpdatedRow,
     Claimable
<1>30. ASSUME NEW w \in Workers, ClaimRefused(w) PROVE Handled(j)'
  BY <1>30 DEF ClaimRefused, Done, At, Goto
<1>31. ASSUME NEW w \in Workers, ClaimUpdateFails(w) PROVE Handled(j)'
  <2>1. CASE UpdateClaim(w)
    BY <1>31, <2>1 DEF ClaimUpdateFails, Raise, At, Goto, UpdateClaim,
       ClaimUpdatedRow, Claimable
  <2>2. CASE UNCHANGED rows
    BY <1>31, <2>2 DEF ClaimUpdateFails, Raise, At, Goto, Claimable
  <2>3. QED
    BY <1>31, <2>1, <2>2 DEF ClaimUpdateFails
<1>32. ASSUME NEW w \in Workers, BudgetSpent(w) PROVE Handled(j)'
  BY <1>32 DEF BudgetSpent, Done, At, Goto, WithinBudget, Budgeted
<1>33. ASSUME NEW w \in Workers, AttemptOk(w) PROVE Handled(j)'
  BY <1>33 DEF AttemptOk, At, Goto
<1>34. ASSUME NEW w \in Workers, AttemptFails(w) PROVE Handled(j)'
  BY <1>34 DEF AttemptFails, At, Goto
<1>35. ASSUME NEW w \in Workers, AttemptAckLost(w) PROVE Handled(j)'
  BY <1>35 DEF AttemptAckLost, At, Goto
<1>36. ASSUME NEW w \in Workers, MarkSent(w) PROVE Handled(j)'
  BY <1>36 DEF MarkSent, Done, At, Goto, Save, SavedRow, Accepted
<1>37. ASSUME NEW w \in Workers, MarkSentFails(w) PROVE Handled(j)'
  <2>1. CASE Save(w, "SENT")
    BY <1>37, <2>1 DEF MarkSentFails, At, Goto, Save, SavedRow
  <2>2. CASE UNCHANGED rows
    BY <1>37, <2>2 DEF MarkSentFails, At, Goto
  <2>3. QED
    BY <1>37, <2>1, <2>2 DEF MarkSentFails, SaveFails
<1>38. ASSUME NEW w \in Workers, MarkFailure(w) PROVE Handled(j)'
  BY <1>38 DEF MarkFailure, At, Goto, Save, SavedRow, FailureStatus
<1>39. ASSUME NEW w \in Workers, MarkFailureFails(w) PROVE Handled(j)'
  <2>1. CASE Save(w, FailureStatus(attempts[w]))
    BY <1>39, <2>1 DEF MarkFailureFails, Raise, At, Goto, Save, SavedRow,
       FailureStatus
  <2>2. CASE UNCHANGED rows
    BY <1>39, <2>2 DEF MarkFailureFails, Raise, At, Goto, FailureStatus
  <2>3. QED
    BY <1>39, <2>1, <2>2 DEF MarkFailureFails, SaveFails
<1>40. ASSUME NEW w \in Workers, RetryWake(w) PROVE Handled(j)'
  BY <1>40 DEF RetryWake, At, Goto
<1>41. ASSUME NEW w \in Workers, DlqFinal(w) PROVE Handled(j)'
  BY <1>41 DEF DlqFinal, Done, At, Goto
<1>42. ASSUME NEW w \in Workers, DlqFinalFails(w) PROVE Handled(j)'
  BY <1>42 DEF DlqFinalFails, DlqSendFails, Raise, At, Goto
<1>43. QED
  BY <1>1, <1>2, <1>3, <1>4, <1>5, <1>6, <1>7, <1>8, <1>9, <1>10, <1>11, <1>12,
     <1>13, <1>14, <1>15, <1>16, <1>17, <1>18, <1>19, <1>20, <1>21, <1>22,
     <1>23, <1>24, <1>25, <1>26, <1>27, <1>28, <1>29, <1>30, <1>31, <1>32,
     <1>33, <1>34, <1>35, <1>36, <1>37, <1>38, <1>39, <1>40, <1>41, <1>42 DEF
     Next, WorkerStep, ConsumerStep, ClaimStep, RetryStep

(* Only the claim and the three mark_* functions write rows.               *)
LEMMA RowSteps ==
  ASSUME [Next]_vars
  PROVE  \/ UNCHANGED rows
         \/ \E w \in Workers :
              \/ MarkExpired(w) \/ MarkExpiredFails(w) \/ ClaimInsert(w)
              \/ ClaimInsertFails(w) \/ ClaimUpdate(w) \/ ClaimUpdateFails(w)
              \/ MarkSent(w) \/ MarkSentFails(w) \/ MarkFailure(w)
              \/ MarkFailureFails(w)
BY DEF Next, WorkerStep, ConsumerStep, ClaimStep, RetryStep, vars, store,
   Publish, Tick, Start, Crash, Assign, Rebalance, Poll, PollFails, PublishRaw,
   PublishRawNull, PublishRawFails, DlqUnhandled, DlqUnhandledFails, Commit,
   CommitNothing, CommitFails, GetExistingFails, SkipFinal, FindExpired,
   DeferSend, GoClaim, WakeAtSendAfter, ClaimConflict, ClaimRefused,
   BudgetSpent, AttemptOk, AttemptFails, AttemptAckLost, RetryWake, DlqFinal,
   DlqFinalFails

(* A row is first written by a worker that then has the job in hand, or as *)
(* EXPIRED; afterwards HandledStep applies.                                *)
LEMMA RowsHandledStep ==
  ASSUME Typed, Accepted, WithinBudget, HasRow, RowsHandled, [Next]_vars
  PROVE  RowsHandled'
<1> SUFFICES ASSUME NEW j \in Jobs, rows'[j].status # "ABSENT"
             PROVE  Handled(j)'
  BY DEF RowsHandled
<1>1. CASE rows[j].status # "ABSENT"
  BY <1>1, HandledStep DEF RowsHandled
<1>2. CASE rows[j].status = "ABSENT"
  <2> Typed'
    BY TypeStep
  <2> USE <1>2 DEF Typed, TypeOK, JobInHand, Handling, PC, Row, Handled,
         Resolved, Working, Engaged, HasRow, Rowed, broker, store, local, env
  <2>1. ASSUME NEW w \in Workers, MarkExpired(w) PROVE Handled(j)'
    BY <2>1 DEF MarkExpired, Done, At, Goto, Save, SavedRow
  <2>2. ASSUME NEW w \in Workers, MarkExpiredFails(w) PROVE Handled(j)'
    <3>1. CASE Save(w, "EXPIRED")
      BY <2>2, <3>1 DEF MarkExpiredFails, Raise, At, Goto, Save, SavedRow
    <3>2. CASE UNCHANGED rows
      BY <2>2, <3>2 DEF MarkExpiredFails, Raise, At, Goto
    <3>3. QED
      BY <2>2, <3>1, <3>2 DEF MarkExpiredFails, SaveFails
  <2>3. ASSUME NEW w \in Workers, ClaimInsert(w) PROVE Handled(j)'
    BY <2>3 DEF ClaimInsert, Claimed, At, Goto, InsertClaim, ClaimInsertedRow
  <2>4. ASSUME NEW w \in Workers, ClaimInsertFails(w) PROVE Handled(j)'
    <3>1. CASE InsertClaim(w)
      BY <2>4, <3>1 DEF ClaimInsertFails, Raise, At, Goto, InsertClaim,
         ClaimInsertedRow
    <3>2. CASE UNCHANGED rows
      BY <2>4, <3>2 DEF ClaimInsertFails, Raise, At, Goto
    <3>3. QED
      BY <2>4, <3>1, <3>2 DEF ClaimInsertFails
  <2>5. ASSUME NEW w \in Workers, ClaimUpdate(w) PROVE Handled(j)'
    BY <2>5 DEF ClaimUpdate, Claimed, At, Goto, UpdateClaim, ClaimUpdatedRow
  <2>6. ASSUME NEW w \in Workers, ClaimUpdateFails(w) PROVE Handled(j)'
    <3>1. CASE UpdateClaim(w)
      BY <2>6, <3>1 DEF ClaimUpdateFails, Raise, At, Goto, UpdateClaim,
         ClaimUpdatedRow
    <3>2. CASE UNCHANGED rows
      BY <2>6, <3>2 DEF ClaimUpdateFails, Raise, At, Goto
    <3>3. QED
      BY <2>6, <3>1, <3>2 DEF ClaimUpdateFails
  <2>7. ASSUME NEW w \in Workers, MarkSent(w) PROVE Handled(j)'
    BY <2>7 DEF MarkSent, Done, At, Goto, Save, SavedRow
  <2>8. ASSUME NEW w \in Workers, MarkSentFails(w) PROVE Handled(j)'
    <3>1. CASE Save(w, "SENT")
      BY <2>8, <3>1 DEF MarkSentFails, At, Goto, Save, SavedRow
    <3>2. CASE UNCHANGED rows
      BY <2>8, <3>2 DEF MarkSentFails, At, Goto
    <3>3. QED
      BY <2>8, <3>1, <3>2 DEF MarkSentFails, SaveFails
  <2>9. ASSUME NEW w \in Workers, MarkFailure(w) PROVE Handled(j)'
    BY <2>9 DEF MarkFailure, At, Goto, Save, SavedRow, FailureStatus
  <2>10. ASSUME NEW w \in Workers, MarkFailureFails(w) PROVE Handled(j)'
    <3>1. CASE Save(w, FailureStatus(attempts[w]))
      BY <2>10, <3>1 DEF MarkFailureFails, Raise, At, Goto, Save, SavedRow,
         FailureStatus
    <3>2. CASE UNCHANGED rows
      BY <2>10, <3>2 DEF MarkFailureFails, Raise, At, Goto, FailureStatus
    <3>3. QED
      BY <2>10, <3>1, <3>2 DEF MarkFailureFails, SaveFails
  <2>11. CASE UNCHANGED rows
    BY <2>11
  <2>12. QED
    BY <2>1, <2>2, <2>3, <2>4, <2>5, <2>6, <2>7, <2>8, <2>9, <2>10, <2>11,
       RowSteps DEF broker
<1>3. QED
  BY <1>1, <1>2

(* How a worker comes to commit: the returns of handle_job and the three   *)
(* places that dead-letter a message.                                      *)
LEMMA DoneSteps ==
  ASSUME Typed, [Next]_vars, NEW w \in Workers, At(w, "commit")'
  PROVE  \/ At(w, "commit") /\ UNCHANGED job[w]
         \/ PublishRaw(w) \/ DlqUnhandled(w) \/ SkipFinal(w) \/ MarkExpired(w)
         \/ ClaimRefused(w) \/ BudgetSpent(w) \/ MarkSent(w) \/ DlqFinal(w)
<1> USE DEF Typed, TypeOK, At, PC, broker, store, local, env
<1>1. CASE UNCHANGED vars
  BY <1>1 DEF vars
<1>2. CASE Tick
  BY <1>2 DEF Tick
<1>3. ASSUME NEW j \in Jobs, Publish(j)
      PROVE  At(w, "commit") /\ UNCHANGED job[w]
  BY <1>3 DEF Publish
<1>4. ASSUME NEW v \in Workers,
             \/ Start(v) \/ Crash(v) \/ Assign(v) \/ Rebalance(v) \/ Poll(v)
             \/ PollFails(v) \/ PublishRawNull(v) \/ PublishRawFails(v)
             \/ DlqUnhandledFails(v) \/ Commit(v) \/ CommitNothing(v)
             \/ CommitFails(v) \/ GetExistingFails(v) \/ FindExpired(v)
             \/ DeferSend(v) \/ GoClaim(v) \/ MarkExpiredFails(v)
             \/ WakeAtSendAfter(v) \/ ClaimInsert(v) \/ ClaimConflict(v)
             \/ ClaimInsertFails(v) \/ ClaimUpdate(v) \/ ClaimUpdateFails(v)
             \/ AttemptOk(v) \/ AttemptFails(v) \/ AttemptAckLost(v)
             \/ MarkSentFails(v) \/ MarkFailure(v) \/ MarkFailureFails(v)
             \/ RetryWake(v) \/ DlqFinalFails(v)
      PROVE  At(w, "commit") /\ UNCHANGED job[w]
  BY <1>4 DEF Start, Crash, Assign, Rebalance, Poll, PollFails, PublishRawNull,
     PublishRawFails, DlqUnhandledFails, Commit, CommitNothing, CommitFails,
     GetExistingFails, FindExpired, DeferSend, GoClaim, MarkExpiredFails,
     WakeAtSendAfter, ClaimInsert, ClaimConflict, ClaimInsertFails,
     ClaimUpdate, ClaimUpdateFails, AttemptOk, AttemptFails, AttemptAckLost,
     MarkSentFails, MarkFailure, MarkFailureFails, RetryWake, DlqFinalFails,
     Leave, Raise, Claimed, Goto
<1>5. ASSUME NEW v \in Workers, v # w,
             \/ PublishRaw(v) \/ DlqUnhandled(v) \/ SkipFinal(v)
             \/ MarkExpired(v) \/ ClaimRefused(v) \/ BudgetSpent(v)
             \/ MarkSent(v) \/ DlqFinal(v)
      PROVE  At(w, "commit") /\ UNCHANGED job[w]
  BY <1>5 DEF PublishRaw, DlqUnhandled, SkipFinal, MarkExpired, ClaimRefused,
     BudgetSpent, MarkSent, DlqFinal, Done, Goto
<1>6. QED
  BY <1>1, <1>2, <1>3, <1>4, <1>5 DEF Next, WorkerStep, ConsumerStep,
     ClaimStep, RetryStep

(* Each of these returns leaves a handled job: the skip and the refused    *)
(* claim found a row, the others settled the job themselves.               *)
LEMMA CommitHandledStep ==
  ASSUME Typed, Accepted, WithinBudget, HasRow, RowsHandled, CommitHandled,
         [Next]_vars
  PROVE  CommitHandled'
<1> SUFFICES ASSUME NEW w \in Workers, At(w, "commit")'
             PROVE  Handled(job[w])'
  BY DEF CommitHandled
<1> USE DEF Typed, TypeOK, JobInHand, Handling, PC, Row, broker, store, local,
       env
<1>1. CASE At(w, "commit") /\ UNCHANGED job[w]
  BY <1>1, HandledStep DEF CommitHandled, At
<1>2. CASE PublishRaw(w)
  BY <1>2 DEF PublishRaw, Done, At, Goto, Handled, Resolved
<1>3. CASE DlqUnhandled(w)
  BY <1>3 DEF DlqUnhandled, Done, At, Goto, Handled, Resolved
<1>4. CASE SkipFinal(w)
  <2>1. job[w] \in Jobs /\ rows[job[w]].status # "ABSENT"
    BY <1>4 DEF SkipFinal, At, ShouldSkip
  <2>2. Handled(job[w])
    BY <2>1 DEF RowsHandled
  <2>3. QED
    BY <1>4, <2>1, <2>2, HandledStep DEF SkipFinal, Done
<1>5. CASE MarkExpired(w)
  BY <1>5 DEF MarkExpired, Save, SavedRow, Done, At, Handled, Resolved
<1>6. CASE ClaimRefused(w)
  <2>1. job[w] \in Jobs /\ rows[job[w]].status # "ABSENT"
    BY <1>6 DEF ClaimRefused, At, HasRow, Rowed
  <2>2. Handled(job[w])
    BY <2>1 DEF RowsHandled
  <2>3. QED
    BY <1>6, <2>1, <2>2, HandledStep DEF ClaimRefused, Done
<1>7. CASE BudgetSpent(w)
  BY <1>7, RepositoryAssumption DEF BudgetSpent, At, WithinBudget, Budgeted
<1>8. CASE MarkSent(w)
  BY <1>8 DEF MarkSent, Done, At, Accepted, Handled, Resolved
<1>9. CASE DlqFinal(w)
  BY <1>9 DEF DlqFinal, Done, At, Handled, Resolved
<1>10. QED
  BY <1>1, <1>2, <1>3, <1>4, <1>5, <1>6, <1>7, <1>8, <1>9, DoneSteps

(* A worker that has a message in hand keeps it until it commits or loses  *)
(* the partition.                                                          *)
LEMMA InHandStep ==
  ASSUME Typed, [Next]_vars, NEW w \in Workers, pc[w] \in Handling
  PROVE  \/ pc'[w] \in Handling /\ job'[w] = job[w]
         \/ At(w, "commit")
         \/ owner' # w
<1> DEFINE Kept == \/ pc'[w] \in Handling /\ job'[w] = job[w]
                  \/ At(w, "commit")
                  \/ owner' # w
<1> USE WorkerAssumption
    DEF Typed, TypeOK, At, PC, Handling, broker, store, local, env
<1>1. CASE UNCHANGED vars
  BY <1>1 DEF vars
<1>2. CASE Tick
  BY <1>2 DEF Tick
<1>3. ASSUME NEW j \in Jobs, Publish(j) PROVE Kept
  BY <1>3 DEF Publish
<1>4. ASSUME NEW v \in Workers,
             \/ Start(v) \/ Crash(v) \/ Assign(v) \/ Rebalance(v)
      PROVE  Kept
  BY <1>4 DEF Start, Crash, Assign, Rebalance, Leave, Done, Raise, Claimed,
     Goto
<1>5. ASSUME NEW v \in Workers,
             ConsumerStep(v)
      PROVE  Kept
  BY <1>5 DEF ConsumerStep, Poll, PollFails, PublishRaw, PublishRawNull,
     PublishRawFails, DlqUnhandled, DlqUnhandledFails, Commit, CommitNothing,
     CommitFails, Leave, Done, Raise, Claimed, Goto
<1>6. ASSUME NEW v \in Workers,
             ClaimStep(v)
      PROVE  Kept
  BY <1>6 DEF ClaimStep, GetExistingFails, SkipFinal, FindExpired, DeferSend,
     GoClaim, MarkExpired, MarkExpiredFails, WakeAtSendAfter, ClaimInsert,
     ClaimConflict, ClaimInsertFails, ClaimUpdate, ClaimRefused,
     ClaimUpdateFails, Leave, Done, Raise, Claimed, Goto
<1>7. ASSUME NEW v \in Workers,
             RetryStep(v)
      PROVE  Kept
  BY <1>7 DEF RetryStep, BudgetSpent, AttemptOk, AttemptFails, AttemptAckLost,
     MarkSent, MarkSentFails, MarkFailure, MarkFailureFails, RetryWake,
     DlqFinal, DlqFinalFails, Leave, Done, Raise, Claimed, Goto
<1>8. QED
  BY <1>1, <1>2, <1>3, <1>4, <1>5, <1>6, <1>7 DEF Next, WorkerStep

(* A published message stays at its offset.                                *)
LEMMA LogKept ==
  ASSUME Typed, [Next]_vars, NEW o \in 1..Len(log)
  PROVE  log[o] \in Jobs /\ log'[o] = log[o]
<1> USE DEF Typed, TypeOK
<1>1. CASE UNCHANGED log
  BY <1>1
<1>2. ASSUME NEW j \in Jobs, Publish(j)
      PROVE  log[o] \in Jobs /\ log'[o] = log[o]
  BY <1>2 DEF Publish
<1>3. QED
  BY <1>1, <1>2, BrokerSteps
     DEF broker, Assign, Rebalance, Poll, Commit, CommitFails, Leave

(* Assignments start from the committed offset and a poll takes one        *)
(* message more while the owner has none in hand, so that what was handed  *)
(* out before is handled.                                                  *)
LEMMA PositionStep ==
  ASSUME Typed, OffsetsOrdered, Accepted, WithinBudget, HasRow, CommitHandled,
         PositionHandled, NoLossWithoutOrphan, committed \in Nat, [Next]_vars
  PROVE  PositionHandled'
<1> Typed'
  BY TypeStep
<1> SUFFICES ASSUME owner' # NoWorker, NEW o \in 1..position'
             PROVE  \/ Handled(log[o])'
                    \/ /\ o = position'
                       /\ (pc[owner])' \in Handling
                       /\ (job[owner] = log[o])'
  BY DEF PositionHandled
<1>1. CASE owner' = owner /\ position' = position
  <2>1. o \in 1..position /\ o \in 1..Len(log)
    BY <1>1 DEF OffsetsOrdered, Typed, TypeOK
  <2>2. log[o] \in Jobs /\ log'[o] = log[o]
    BY <2>1, LogKept
  <2>3. CASE Handled(log[o])
    <3>1. \A j \in Jobs : Handled(j) => Handled(j)'
      BY HandledStep
    <3>2. QED
      BY <2>2, <2>3, <3>1 DEF Handled, Resolved, Working
  <2>4. CASE o = position /\ pc[owner] \in Handling /\ job[owner] = log[o]
    <3>1. owner \in Workers
      BY <1>1 DEF Typed, TypeOK
    <3>2. CASE pc'[owner] \in Handling /\ job'[owner] = job[owner]
      BY <1>1, <2>2, <2>4, <3>2
    <3>3. CASE At(owner, "commit")
      <4>1. Handled(log[o])
        BY <2>4, <3>1, <3>3 DEF CommitHandled
      <4>2. QED
        BY <2>3, <4>1
    <3>4. QED
      BY <1>1, <2>4, <3>1, <3>2, <3>3, InHandStep
  <2>5. QED
    BY <1>1, <2>1, <2>3, <2>4 DEF PositionHandled
<1>2. ASSUME NEW w \in Workers, Assign(w) \/ Rebalance(w)
      PROVE  Handled(log[o])'
  <2>1. o \in 1..committed /\ o \in 1..Len(log)
    BY <1>2 DEF Assign, Rebalance, StartPosition, NoOffset, OffsetsOrdered,
       Typed, TypeOK
  <2>2. log[o] \in Jobs /\ log'[o] = log[o]
    BY <2>1, LogKept
  <2>3. Handled(log[o])
    BY <2>1 DEF NoLossWithoutOrphan
  <2>4. \A j \in Jobs : Handled(j) => Handled(j)'
    BY HandledStep
  <2>5. QED
    BY <2>2, <2>3, <2>4 DEF Handled, Resolved, Working
<1>3. ASSUME NEW w \in Workers, Poll(w)
      PROVE  \/ Handled(log[o])'
             \/ /\ o = position'
                /\ (pc[owner])' \in Handling
                /\ (job[owner] = log[o])'
  <2>1. CASE o = position + 1
    BY <1>3, <2>1 DEF Poll, Goto, Handling, PC, Typed, TypeOK
  <2>2. CASE o # position + 1
    <3>1. o \in 1..position /\ o \in 1..Len(log)
      BY <1>3, <2>2 DEF Poll, OffsetsOrdered, Typed, TypeOK
    <3>2. log[o] \in Jobs /\ log'[o] = log[o]
      BY <3>1, LogKept
    <3>3. Handled(log[o])
      BY <1>3, <3>1, WorkerAssumption DEF Poll, At, Handling, PositionHandled
    <3>4. \A j \in Jobs : Handled(j) => Handled(j)'
      BY HandledStep
    <3>5. QED
      BY <3>2, <3>3, <3>4 DEF Handled, Resolved, Working
  <2>3. QED
    BY <2>1, <2>2
<1>4. QED
  BY <1>1, <1>2, <1>3, BrokerSteps DEF broker, Publish, Commit, CommitFails,
     Leave

(* A commit covers only handled messages.                                  *)
LEMMA NoLossStep ==
  ASSUME Typed, OffsetsOrdered, Accepted, WithinBudget, HasRow, CommitHandled,
         PositionHandled, NoLossWithoutOrphan, committed \in Nat, [Next]_vars
  PROVE  NoLossWithoutOrphan' /\ committed' \in Nat
<1> SUFFICES ASSUME NEW o \in 1..committed'
             PROVE  Handled(log[o])' /\ committed' \in Nat
  <2>1. committed' \in Nat
    BY BrokerSteps DEF broker, Publish, Assign, Rebalance, Poll, Commit,
       CommitFails, Typed, TypeOK
  <2>2. QED
    BY <2>1 DEF NoLossWithoutOrphan
<1>1. \/ committed' = committed
      \/ \E w \in Workers : /\ At(w, "commit")
                            /\ owner = w
                            /\ committed' = position
  BY BrokerSteps DEF broker, Publish, Assign, Rebalance, Poll, Commit,
     CommitFails
<1>2. o \in 1..Len(log) /\ committed' \in Nat
  BY <1>1 DEF OffsetsOrdered, Typed, TypeOK
<1>3. log[o] \in Jobs /\ log'[o] = log[o]
  BY <1>2, LogKept
<1>4. Handled(log[o])
  <2>1. CASE committed' = committed
    BY <2>1 DEF NoLossWithoutOrphan
  <2>2. ASSUME NEW w \in Workers, At(w, "commit"), owner = w,
               committed' = position
        PROVE  Handled(log[o])
    BY <2>2, WorkerAssumption DEF PositionHandled, CommitHandled
  <2>3. QED
    BY <1>1, <2>1, <2>2
<1>5. \A j \in Jobs : Handled(j) => Handled(j)'
  BY HandledStep
<1>6. QED
  BY <1>2, <1>3, <1>4, <1>5 DEF Handled, Resolved, Working

(* A row becomes FAILED in the step that sends its worker to publish to    *)
(* the DLQ; the worker leaves that path only through a publication, with   *)
(* an error into the second publication of _handle_message, or dying over  *)
(* it.                                                                     *)
LEMMA FailedStep ==
  Typed /\ WithinBudget /\ FailedReachesDlq /\ [Next]_vars => FailedReachesDlq'
<1> SUFFICES ASSUME Typed, WithinBudget, FailedReachesDlq, [Next]_vars PROVE
      FailedReachesDlq'
  OBVIOUS
<1> Typed'
  BY TypeStep
<1> USE RepositoryAssumption DEF Typed, TypeOK, JobInHand, Handling, PC, Row,
       Working, Engaged, FailedReachesDlq, broker, store, local, env
<1>1. CASE UNCHANGED vars
  BY <1>1 DEF vars
<1>2. ASSUME NEW j \in Jobs, Publish(j) PROVE FailedReachesDlq'
  BY <1>2 DEF Publish
<1>3. CASE Tick
  BY <1>3 DEF Tick
<1>4. ASSUME NEW w \in Workers, Start(w) PROVE FailedReachesDlq'
  BY <1>4 DEF Start, At, Goto
<1>5. ASSUME NEW w \in Workers, Crash(w) PROVE FailedReachesDlq'
  BY <1>5 DEF Crash, Leave, At, Goto
<1>6. ASSUME NEW w \in Workers, Assign(w) PROVE FailedReachesDlq'
  BY <1>6 DEF Assign, StartPosition, At, Goto
<1>7. ASSUME NEW w \in Workers, Rebalance(w) PROVE FailedReachesDlq'
  BY <1>7 DEF Rebalance, StartPosition, At, Goto
<1>8. ASSUME NEW w \in Workers, Poll(w) PROVE FailedReachesDlq'
  BY <1>8 DEF Poll, At, Goto
<1>9. ASSUME NEW w \in Workers, PollFails(w) PROVE FailedReachesDlq'
  BY <1>9 DEF PollFails, Leave, At, Goto
<1>10. ASSUME NEW w \in Workers, PublishRaw(w) PROVE FailedReachesDlq'
  BY <1>10 DEF PublishRaw, Done, At, Goto
<1>11. ASSUME NEW w \in Workers, PublishRawNull(w) PROVE FailedReachesDlq'
  BY <1>11 DEF PublishRawNull, Leave, At, Goto
<1>12. ASSUME NEW w \in Workers, PublishRawFails(w) PROVE FailedReachesDlq'
  <2>1. /\ rows' = rows /\ dlq \subseteq dlq' /\ orphans \subseteq orphans'
        /\ pc[w] = "publish_raw"
        /\ \A v \in Workers \ {w} : pc'[v] = pc[v] /\ job'[v] = job[v]
    BY <1>12 DEF PublishRawFails, DlqSendFails, Leave, At, Goto
  <2>2. ASSUME NEW j \in Jobs, rows'[j].status = "FAILED"
        PROVE  \/ j \in dlq' \cup orphans'
               \/ \E v \in Workers : Working(v, j)'
    <3>1. j \in dlq \cup orphans \/ \E v \in Workers : Working(v, j)
      BY <2>1, <2>2
    <3>2. ASSUME NEW v \in Workers, Working(v, j)
          PROVE  Working(v, j)'
      <4>1. v # w
        BY <2>1, <3>2
      <4>. QED
        BY <2>1, <3>2, <4>1
    <3>. QED
      BY <2>1, <3>1, <3>2
  <2>. QED
    BY <2>2
<1>13. ASSUME NEW w \in Workers, DlqUnhandled(w) PROVE FailedReachesDlq'
  BY <1>13 DEF DlqUnhandled, Done, At, Goto
<1>14. ASSUME NEW w \in Workers, DlqUnhandledFails(w) PROVE FailedReachesDlq'
  BY <1>14 DEF DlqUnhandledFails, DlqSendFails, Leave, At, Goto
<1>15. ASSUME NEW w \in Workers, Commit(w) PROVE FailedReachesDlq'
  BY <1>15 DEF Commit, At, Goto
<1>16. ASSUME NEW w \in Workers, CommitNothing(w) PROVE FailedReachesDlq'
  BY <1>16 DEF CommitNothing, At, Goto
<1>17. ASSUME NEW w \in Workers, CommitFails(w) PROVE FailedReachesDlq'
  BY <1>17 DEF CommitFails, Leave, At, Goto
<1>18. ASSUME NEW w \in Workers, GetExistingFails(w) PROVE FailedReachesDlq'
  BY <1>18 DEF GetExistingFails, Raise, At, Goto
<1>19. ASSUME NEW w \in Workers, SkipFinal(w) PROVE FailedReachesDlq'
  BY <1>19 DEF SkipFinal, Done, At, Goto
<1>20. ASSUME NEW w \in Workers, FindExpired(w) PROVE FailedReachesDlq'
  BY <1>20 DEF FindExpired, At, Goto
<1>21. ASSUME NEW w \in Workers, DeferSend(w) PROVE FailedReachesDlq'
  BY <1>21 DEF DeferSend, At, Goto
<1>22. ASSUME NEW w \in Workers, GoClaim(w) PROVE FailedReachesDlq'
  BY <1>22 DEF GoClaim, At, Goto
<1>23. ASSUME NEW w \in Workers, MarkExpired(w) PROVE FailedReachesDlq'
  BY <1>23 DEF MarkExpired, Done, At, Goto, Save, SavedRow
<1>24. ASSUME NEW w \in Workers, MarkExpiredFails(w) PROVE FailedReachesDlq'
  <2>1. CASE Save(w, "EXPIRED")
    BY <1>24, <2>1 DEF MarkExpiredFails, Raise, At, Goto, Save, SavedRow
  <2>2. CASE UNCHANGED rows
    BY <1>24, <2>2 DEF MarkExpiredFails, Raise, At, Goto
  <2>3. QED
    BY <1>24, <2>1, <2>2 DEF MarkExpiredFails, SaveFails
<1>25. ASSUME NEW w \in Workers, WakeAtSendAfter(w) PROVE FailedReachesDlq'
  BY <1>25 DEF WakeAtSendAfter, At, Goto
<1>26. ASSUME NEW w \in Workers, ClaimInsert(w) PROVE FailedReachesDlq'
  BY <1>26 DEF ClaimInsert, Claimed, At, Goto, InsertClaim, ClaimInsertedRow
<1>27. ASSUME NEW w \in Workers, ClaimConflict(w) PROVE FailedReachesDlq'
  BY <1>27 DEF ClaimConflict, At, Goto
<1>28. ASSUME NEW w \in Workers, ClaimInsertFails(w) PROVE FailedReachesDlq'
  <2>1. CASE InsertClaim(w)
    BY <1>28, <2>1 DEF ClaimInsertFails, Raise, At, Goto, InsertClaim,
       ClaimInsertedRow
  <2>2. CASE UNCHANGED rows
    BY <1>28, <2>2 DEF ClaimInsertFails, Raise, At, Goto
  <2>3. QED
    BY <1>28, <2>1, <2>2 DEF ClaimInsertFails
<1>29. ASSUME NEW w \in Workers, ClaimUpdate(w) PROVE FailedReachesDlq'
  BY <1>29 DEF ClaimUpdate, Claimed, At, Goto, UpdateClaim, ClaimUpdatedRow,
     Claimable
<1>30. ASSUME NEW w \in Workers, ClaimRefused(w) PROVE FailedReachesDlq'
  BY <1>30 DEF ClaimRefused, Done, At, Goto
<1>31. ASSUME NEW w \in Workers, ClaimUpdateFails(w) PROVE FailedReachesDlq'
  <2>1. CASE UpdateClaim(w)
    BY <1>31, <2>1 DEF ClaimUpdateFails, Raise, At, Goto, UpdateClaim,
       ClaimUpdatedRow, Claimable
  <2>2. CASE UNCHANGED rows
    BY <1>31, <2>2 DEF ClaimUpdateFails, Raise, At, Goto, Claimable
  <2>3. QED
    BY <1>31, <2>1, <2>2 DEF ClaimUpdateFails
<1>32. ASSUME NEW w \in Workers, BudgetSpent(w) PROVE FailedReachesDlq'
  BY <1>32 DEF BudgetSpent, Done, At, Goto, WithinBudget, Budgeted
<1>33. ASSUME NEW w \in Workers, AttemptOk(w) PROVE FailedReachesDlq'
  BY <1>33 DEF AttemptOk, At, Goto
<1>34. ASSUME NEW w \in Workers, AttemptFails(w) PROVE FailedReachesDlq'
  BY <1>34 DEF AttemptFails, At, Goto
<1>35. ASSUME NEW w \in Workers, AttemptAckLost(w) PROVE FailedReachesDlq'
  BY <1>35 DEF AttemptAckLost, At, Goto
<1>36. ASSUME NEW w \in Workers, MarkSent(w) PROVE FailedReachesDlq'
  BY <1>36 DEF MarkSent, Done, At, Goto, Save, SavedRow
<1>37. ASSUME NEW w \in Workers, MarkSentFails(w) PROVE FailedReachesDlq'
  <2>1. CASE Save(w, "SENT")
    BY <1>37, <2>1 DEF MarkSentFails, At, Goto, Save, SavedRow
  <2>2. CASE UNCHANGED rows
    BY <1>37, <2>2 DEF MarkSentFails, At, Goto
  <2>3. QED
    BY <1>37, <2>1, <2>2 DEF MarkSentFails, SaveFails
<1>38. ASSUME NEW w \in Workers, MarkFailure(w) PROVE FailedReachesDlq'
  BY <1>38 DEF MarkFailure, At, Goto, Save, SavedRow, FailureStatus
<1>39. ASSUME NEW w \in Workers, MarkFailureFails(w) PROVE FailedReachesDlq'
  <2>1. CASE Save(w, FailureStatus(attempts[w]))
    BY <1>39, <2>1 DEF MarkFailureFails, Raise, At, Goto, Save, SavedRow,
       FailureStatus
  <2>2. CASE UNCHANGED rows
    BY <1>39, <2>2 DEF MarkFailureFails, Raise, At, Goto, FailureStatus
  <2>3. QED
    BY <1>39, <2>1, <2>2 DEF MarkFailureFails, SaveFails
<1>40. ASSUME NEW w \in Workers, RetryWake(w) PROVE FailedReachesDlq'
  BY <1>40 DEF RetryWake, At, Goto
<1>41. ASSUME NEW w \in Workers, DlqFinal(w) PROVE FailedReachesDlq'
  BY <1>41 DEF DlqFinal, Done, At, Goto
<1>42. ASSUME NEW w \in Workers, DlqFinalFails(w) PROVE FailedReachesDlq'
  BY <1>42 DEF DlqFinalFails, DlqSendFails, Raise, At, Goto
<1>43. QED
  BY <1>1, <1>2, <1>3, <1>4, <1>5, <1>6, <1>7, <1>8, <1>9, <1>10, <1>11, <1>12,
     <1>13, <1>14, <1>15, <1>16, <1>17, <1>18, <1>19, <1>20, <1>21, <1>22,
     <1>23, <1>24, <1>25, <1>26, <1>27, <1>28, <1>29, <1>30, <1>31, <1>32,
     <1>33, <1>34, <1>35, <1>36, <1>37, <1>38, <1>39, <1>40, <1>41, <1>42 DEF
     Next, WorkerStep, ConsumerStep, ClaimStep, RetryStep

(* The empty system satisfies the inductive invariant: nothing is          *)
(* committed, nothing is handed out.                                       *)
LEMMA IInvInit ==
  MaxAttempts > 0 /\ FreshGroup = FALSE /\ Init => IInv
<1> SUFFICES ASSUME MaxAttempts > 0, FreshGroup = FALSE, Init PROVE IInv
  OBVIOUS
<1>1. Typed
  BY TypeInit
<1>2. OffsetsOrdered /\ committed \in Nat
  BY WorkerAssumption DEF Init, OffsetsOrdered
<1>3. Accepted /\ HasRow /\ CommitHandled
  BY DEF Init, Accepted, SentWasAccepted, HasRow, Rowed, CommitHandled, At,
     NoRow
<1>4. WithinBudget
  BY RepositoryAssumption DEF Init, WithinBudget, Budgeted, NoRow
<1>5. RowsHandled /\ PositionHandled /\ NoLossWithoutOrphan
  BY DEF Init, RowsHandled, PositionHandled, NoLossWithoutOrphan, NoRow
<1>6. QED
  BY <1>1, <1>2, <1>3, <1>4, <1>5 DEF IInv

(* Every step of the fleet keeps the inductive invariant.                  *)
LEMMA IInvStep ==
  MaxAttempts > 0 /\ IInv /\ [Next]_vars => IInv'
<1> SUFFICES ASSUME MaxAttempts > 0, IInv, [Next]_vars PROVE IInv'
  OBVIOUS
<1> USE DEF IInv
<1>1. Typed' /\ OffsetsOrdered' /\ Accepted' /\ HasRow'
  BY TypeStep, OffsetsStep, AcceptedStep, RowStep
<1>2. WithinBudget'
  BY BudgetStep
<1>3. RowsHandled' /\ CommitHandled'
  BY RowsHandledStep, CommitHandledStep
<1>4. PositionHandled'
  BY PositionStep
<1>5. NoLossWithoutOrphan' /\ committed' \in Nat
  BY NoLossStep
<1>6. QED
  BY <1>1, <1>2, <1>3, <1>4, <1>5

-----------------------------------------------------------------------------
(* What a step of worker w leaves alone: the other workers, what is known  *)
(* of the jobs it has not in hand, and its own message once it has claimed *)
(* it.                                                                     *)
OnlyTouches(w) ==
  /\ \A v \in Workers \ {w} :
       UNCHANGED <<pc[v], job[v], attempts[v], timer[v]>>
  /\ \A j \in Jobs \ {job[w]} :
       /\ UNCHANGED <<rows[j], sends[j]>>
       /\ j \in dlq' <=> j \in dlq
       /\ j \in orphans' <=> j \in orphans
  /\ pc'[w] \in Engaged => UNCHANGED job[w]

(* Workers share the table, the DLQ and the provider, but each step works  *)
(* only on the one message that its worker has in hand.                    *)
LEMMA Frame ==
  ASSUME Typed, NEW w \in Workers,
         \/ Start(w) \/ Crash(w) \/ Assign(w) \/ Rebalance(w) \/ WorkerStep(w)
  PROVE  OnlyTouches(w)
<1> USE DEF Typed, TypeOK, JobInHand, Handling, PC, OnlyTouches, Working,
       Engaged, broker, store, local, env
<1>1. CASE Start(w)
  BY <1>1 DEF Start, At, Goto
<1>2. CASE Crash(w)
  BY <1>2 DEF Crash, Leave, At, Goto
<1>3. CASE Assign(w)
  BY <1>3 DEF Assign, StartPosition, At, Goto
<1>4. CASE Rebalance(w)
  BY <1>4 DEF Rebalance, StartPosition, At, Goto
<1>5. CASE Poll(w)
  BY <1>5 DEF Poll, At, Goto
<1>6. CASE PollFails(w)
  BY <1>6 DEF PollFails, Leave, At, Goto
<1>7. CASE PublishRaw(w)
  BY <1>7 DEF PublishRaw, Done, At, Goto
<1>8. CASE PublishRawNull(w)
  BY <1>8 DEF PublishRawNull, Leave, At, Goto
<1>9. CASE PublishRawFails(w)
  BY <1>9 DEF PublishRawFails, DlqSendFails, Leave, At, Goto
<1>10. CASE DlqUnhandled(w)
  BY <1>10 DEF DlqUnhandled, Done, At, Goto
<1>11. CASE DlqUnhandledFails(w)
  BY <1>11 DEF DlqUnhandledFails, DlqSendFails, Leave, At, Goto
<1>12. CASE Commit(w)
  BY <1>12 DEF Commit, At, Goto
<1>13. CASE CommitNothing(w)
  BY <1>13 DEF CommitNothing, At, Goto
<1>14. CASE CommitFails(w)
  BY <1>14 DEF CommitFails, Leave, At, Goto
<1>15. CASE GetExistingFails(w)
  BY <1>15 DEF GetExistingFails, Raise, At, Goto
<1>16. CASE SkipFinal(w)
  BY <1>16 DEF SkipFinal, Done, At, Goto
<1>17. CASE FindExpired(w)
  BY <1>17 DEF FindExpired, At, Goto
<1>18. CASE DeferSend(w)
  BY <1>18 DEF DeferSend, At, Goto
<1>19. CASE GoClaim(w)
  BY <1>19 DEF GoClaim, At, Goto
<1>20. CASE MarkExpired(w)
  BY <1>20 DEF MarkExpired, Done, At, Goto, Save, SavedRow
<1>21. CASE MarkExpiredFails(w)
  <2>1. CASE Save(w, "EXPIRED")
    BY <1>21, <2>1 DEF MarkExpiredFails, Raise, At, Goto, Save, SavedRow
  <2>2. CASE UNCHANGED rows
    BY <1>21, <2>2 DEF MarkExpiredFails, Raise, At, Goto
  <2>3. QED
    BY <1>21, <2>1, <2>2 DEF MarkExpiredFails, SaveFails
<1>22. CASE WakeAtSendAfter(w)
  BY <1>22 DEF WakeAtSendAfter, At, Goto
<1>23. CASE ClaimInsert(w)
  BY <1>23 DEF ClaimInsert, Claimed, At, Goto, InsertClaim, ClaimInsertedRow
<1>24. CASE ClaimConflict(w)
  BY <1>24 DEF ClaimConflict, At, Goto
<1>25. CASE ClaimInsertFails(w)
  <2>1. CASE InsertClaim(w)
    BY <1>25, <2>1 DEF ClaimInsertFails, Raise, At, Goto, InsertClaim,
       ClaimInsertedRow
  <2>2. CASE UNCHANGED rows
    BY <1>25, <2>2 DEF ClaimInsertFails, Raise, At, Goto
  <2>3. QED
    BY <1>25, <2>1, <2>2 DEF ClaimInsertFails
<1>26. CASE ClaimUpdate(w)
  BY <1>26 DEF ClaimUpdate, Claimed, At, Goto, UpdateClaim, ClaimUpdatedRow
<1>27. CASE ClaimRefused(w)
  BY <1>27 DEF ClaimRefused, Done, At, Goto
<1>28. CASE ClaimUpdateFails(w)
  <2>1. CASE UpdateClaim(w)
    BY <1>28, <2>1 DEF ClaimUpdateFails, Raise, At, Goto, UpdateClaim,
       ClaimUpdatedRow
  <2>2. CASE UNCHANGED rows
    BY <1>28, <2>2 DEF ClaimUpdateFails, Raise, At, Goto
  <2>3. QED
    BY <1>28, <2>1, <2>2 DEF ClaimUpdateFails
<1>29. CASE BudgetSpent(w)
  BY <1>29 DEF BudgetSpent, Done, At, Goto
<1>30. CASE AttemptOk(w)
  BY <1>30 DEF AttemptOk, At, Goto
<1>31. CASE AttemptFails(w)
  BY <1>31 DEF AttemptFails, At, Goto
<1>32. CASE AttemptAckLost(w)
  BY <1>32 DEF AttemptAckLost, At, Goto
<1>33. CASE MarkSent(w)
  BY <1>33 DEF MarkSent, Done, At, Goto, Save, SavedRow
<1>34. CASE MarkSentFails(w)
  <2>1. CASE Save(w, "SENT")
    BY <1>34, <2>1 DEF MarkSentFails, At, Goto, Save, SavedRow
  <2>2. CASE UNCHANGED rows
    BY <1>34, <2>2 DEF MarkSentFails, At, Goto
  <2>3. QED
    BY <1>34, <2>1, <2>2 DEF MarkSentFails, SaveFails
<1>35. CASE MarkFailure(w)
  BY <1>35 DEF MarkFailure, At, Goto, Save, SavedRow, FailureStatus
<1>36. CASE MarkFailureFails(w)
  <2>1. CASE Save(w, FailureStatus(attempts[w]))
    BY <1>36, <2>1 DEF MarkFailureFails, Raise, At, Goto, Save, SavedRow,
       FailureStatus
  <2>2. CASE UNCHANGED rows
    BY <1>36, <2>2 DEF MarkFailureFails, Raise, At, Goto, FailureStatus
  <2>3. QED
    BY <1>36, <2>1, <2>2 DEF MarkFailureFails, SaveFails
<1>37. CASE RetryWake(w)
  BY <1>37 DEF RetryWake, At, Goto
<1>38. CASE DlqFinal(w)
  BY <1>38 DEF DlqFinal, Done, At, Goto
<1>39. CASE DlqFinalFails(w)
  BY <1>39 DEF DlqFinalFails, DlqSendFails, Raise, At, Goto
<1>40. QED
  BY <1>1, <1>2, <1>3, <1>4, <1>5, <1>6, <1>7, <1>8, <1>9, <1>10, <1>11, <1>12,
     <1>13, <1>14, <1>15, <1>16, <1>17, <1>18, <1>19, <1>20, <1>21, <1>22,
     <1>23, <1>24, <1>25, <1>26, <1>27, <1>28, <1>29, <1>30, <1>31, <1>32,
     <1>33, <1>34, <1>35, <1>36, <1>37, <1>38, <1>39 DEF WorkerStep,
     ConsumerStep, ClaimStep, RetryStep

-----------------------------------------------------------------------------
(* Every reachable state of the worker, for any number of workers, jobs,   *)
(* attempts and faults, is well typed.                                     *)
THEOREM TypeCorrect == Spec => []TypeOK
<1>1. Init => Typed
  BY TypeInit
<1>2. Typed /\ [Next]_vars => Typed'
  BY TypeStep
<1>3. Typed => TypeOK
  BY DEF Typed
<1>4. QED
  BY <1>1, <1>2, <1>3, PTL DEF Spec

(* KafkaNotificationConsumer._commit_message never moves the committed     *)
(* offset of the group back, under crashes, rebalances and failing         *)
(* commits.                                                                *)
THEOREM OffsetsMonotonic == Spec => CommittedNeverRewinds
<1> DEFINE Inv == Typed /\ OffsetsOrdered
<1>1. Init => Inv
  BY TypeInit, WorkerAssumption DEF Init, OffsetsOrdered, NoOffset
<1>2. Inv /\ [Next]_vars => Inv'
  BY TypeStep, OffsetsStep
<1>3. Inv /\ [Next]_vars => committed' >= committed
  <2> SUFFICES ASSUME Inv, [Next]_vars PROVE committed' >= committed
    OBVIOUS
  <2>1. \/ committed' = committed
        \/ \E w \in Workers : owner = w /\ committed' = position
    BY BrokerSteps DEF broker, Publish, Assign, Rebalance, Poll, Commit,
       CommitFails
  <2>2. QED
    BY <2>1, WorkerAssumption DEF OffsetsOrdered, Typed, TypeOK, NoOffset
<1>4. QED
  BY <1>1, <1>2, <1>3, PTL DEF Spec, CommittedNeverRewinds

(* status_writer.mark_sent never records SENT for a job that no provider   *)
(* accepted, under every fault.                                            *)
THEOREM SentAccepted == Spec => []SentWasAccepted
<1> DEFINE Inv == Typed /\ Accepted
<1>1. Init => Inv
  BY TypeInit DEF Init, Accepted, SentWasAccepted, At, NoRow
<1>2. Inv /\ [Next]_vars => Inv'
  BY TypeStep, AcceptedStep
<1>3. Inv => SentWasAccepted
  BY DEF Accepted
<1>4. QED
  BY <1>1, <1>2, <1>3, PTL DEF Spec

(* With max_attempts at least 1, attempt_with_retries never starts with a  *)
(* spent budget, although its attempt count is a snapshot taken before the *)
(* claim and other workers may have written the row since.                 *)
THEOREM BudgetKept ==
  ASSUME MaxAttempts > 0 PROVE Spec => []ClaimLeavesBudget
<1> DEFINE Inv == Typed /\ WithinBudget
<1>1. Init => Inv
  BY TypeInit, RepositoryAssumption DEF Init, WithinBudget, Budgeted, NoRow
<1>2. Inv /\ [Next]_vars => Inv'
  BY TypeStep, BudgetStep
<1>3. Inv => ClaimLeavesBudget
  BY DEF WithinBudget, Budgeted, ClaimLeavesBudget, At, Open
<1>4. QED
  BY <1>1, <1>2, <1>3, PTL DEF Spec

(* With max_attempts at least 1, a FAILED row means that the job is in the *)
(* DLQ, on its way there, or that a worker died between the two writes of  *)
(* attempt_with_retries.                                                   *)
THEOREM FailedIsDeadLettered ==
  ASSUME MaxAttempts > 0 PROVE Spec => []FailedReachesDlq
<1> DEFINE Inv == Typed /\ WithinBudget /\ FailedReachesDlq
<1>1. Init => Inv
  BY TypeInit, RepositoryAssumption
     DEF Init, WithinBudget, Budgeted, NoRow, FailedReachesDlq
<1>2. Inv /\ [Next]_vars => Inv'
  BY TypeStep, BudgetStep, FailedStep
<1>3. QED
  BY <1>1, <1>2, PTL DEF Spec

(* With max_attempts at least 1 and a group that has a committed offset,   *)
(* no commit covers a job that was neither delivered, dead-lettered nor    *)
(* expired, nor is in the hands of a worker, nor was lost with one: the    *)
(* only way to lose a job is the death of its worker after the claim.      *)
THEOREM NoLoss ==
  ASSUME MaxAttempts > 0, FreshGroup = FALSE
  PROVE  Spec => []NoLossWithoutOrphan
<1>1. Init => IInv
  BY IInvInit
<1>2. IInv /\ [Next]_vars => IInv'
  BY IInvStep
<1>3. IInv => NoLossWithoutOrphan
  BY DEF IInv
<1>4. QED
  BY <1>1, <1>2, <1>3, PTL DEF Spec

=============================================================================
