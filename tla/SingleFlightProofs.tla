------------------------- MODULE SingleFlightProofs -------------------------
(***************************************************************************)
(* What one delivery row goes through.                                     *)
(*                                                                         *)
(* FinishedStays holds for every value of the constants: the claim's WHERE *)
(* clause turns a late handler away from a terminal row, and a FAILED row  *)
(* is at max_attempts (RowsConsistent), so _should_skip sees it.           *)
(*                                                                         *)
(* The two theorems after it are about a coordinator that takes the        *)
(* partition only from consumers that are gone ("rebalance" not in         *)
(* Faults), the last one also about a database that answers ("db" not in   *)
(* Faults). They rest on SoleHandler: whoever has a message in hand is the *)
(* owner of the partition, so at most one worker is between poll and       *)
(* commit. Then nobody else writes the row between the read of             *)
(* existing.attempts and the writes that use it, and the snapshot stays    *)
(* exact (Snapshot) although neither the read nor the upsert of            *)
(* save_status is guarded; and the persisted count follows the sends       *)
(* (SendsCounted), which bounds them.                                      *)
(***************************************************************************)
EXTENDS ContractProofs

(* A worker that has a message in hand is the owner of the partition.      *)
SoleHandler == \A w \in Workers : pc[w] \in Handling => owner = w

(* The points where `attempts` is what the row said and says.              *)
SnapshotRead ==
  {"mark_expired", "send_after", "claim_insert", "claim_update", "attempt",
   "retry_sleep"}

(* The attempts that handle_job read before the claim, or counted since,   *)
(* against the row as it is now: equal up to the send and after a recorded *)
(* failure, one ahead while the result of an attempt is not persisted. (At *)
(* mark_failure both are possible: mark_sent may have failed after its     *)
(* commit.)                                                                *)
Snapshot == \A w \in Workers :
  /\ pc[w] \in SnapshotRead => attempts[w] = rows[job[w]].attempts
  /\ pc[w] = "mark_sent" => attempts[w] = rows[job[w]].attempts + 1
  /\ pc[w] = "mark_failure" =>
       attempts[w] \in {rows[job[w]].attempts, rows[job[w]].attempts + 1}

(* What holds of a row by itself: a job without one has no attempts, an    *)
(* EXPIRED row has no processing_started_at, a FAILED row is at            *)
(* max_attempts.                                                           *)
RowsConsistent == \A j \in Jobs :
  /\ rows[j].status = "ABSENT" => rows[j].attempts = 0
  /\ rows[j].status = "EXPIRED" => rows[j].started = NoTime
  /\ rows[j].status = "FAILED" => rows[j].attempts >= MaxAttempts

(* The points where an attempt is made and its result not persisted.       *)
Marking == {"mark_sent", "mark_failure"}

(* Whether some worker stands between an attempt on j and the write of its *)
(* result.                                                                 *)
Unpersisted(j) ==
  IF \E w \in Workers : pc[w] \in Marking /\ job[w] = j THEN 1 ELSE 0

(* The provider's count is covered by the persisted attempts, the crashes, *)
(* and the attempt whose result is still to be written.                    *)
SendsCounted == \A j \in Jobs :
  sends[j] <= rows[j].attempts + disruptions + Unpersisted(j)

(* Neither the counter nor the attempts column passes max_attempts.        *)
WithinLimit ==
  /\ \A w \in Workers : pc[w] \in Marking =>
       /\ attempts[w] = rows[job[w]].attempts + 1
       /\ attempts[w] <= MaxAttempts
  /\ \A j \in Jobs : rows[j].attempts <= MaxAttempts

-----------------------------------------------------------------------------
(* save_status by worker w writes the row of its job and no other.         *)
Writes(w, st) ==
  /\ job[w] \in Jobs
  /\ rows'[job[w]].status = st
  /\ rows'[job[w]].attempts = attempts[w]
  /\ rows'[job[w]].started = NoTime
  /\ \A j \in Jobs \ {job[w]} : rows'[j] = rows[j]

(* The upsert of a handler writes what it was given, into the row of its   *)
(* own job.                                                                *)
LEMMA SaveWrites ==
  ASSUME Typed, NEW w \in Workers, pc[w] \in Handling, NEW st, Save(w, st)
  PROVE  Writes(w, st)
<1>1. job[w] \in Jobs /\ DOMAIN rows = Jobs
  BY DEF Typed, JobInHand, TypeOK
<1>2. /\ rows'[job[w]] = SavedRow(st, attempts[w])
      /\ \A j \in Jobs \ {job[w]} : rows'[j] = rows[j]
  BY <1>1 DEF Save
<1>. QED
  BY <1>1, <1>2 DEF SavedRow, Writes

-----------------------------------------------------------------------------
(* Only a free partition is assigned, and only its owner polls.            *)
LEMMA SoleHandlerStep ==
  ASSUME "rebalance" \notin Faults, Typed, SoleHandler, [Next]_vars
  PROVE  SoleHandler'
<1> Typed'
  BY TypeStep
<1> USE WorkerAssumption, RepositoryAssumption DEF Typed, TypeOK, JobInHand,
       Handling, PC, Row, SoleHandler, broker, store, local, env
<1>1. CASE UNCHANGED vars
  BY <1>1 DEF vars
<1>2. ASSUME NEW j \in Jobs, Publish(j) PROVE SoleHandler'
  BY <1>2 DEF Publish
<1>3. CASE Tick
  BY <1>3 DEF Tick
<1>4. ASSUME NEW w \in Workers, Start(w) PROVE SoleHandler'
  BY <1>4 DEF Start, At, Goto
<1>5. ASSUME NEW w \in Workers, Crash(w) PROVE SoleHandler'
  BY <1>5 DEF Crash, Leave, At, Goto
<1>6. ASSUME NEW w \in Workers, Assign(w) PROVE SoleHandler'
  BY <1>6 DEF Assign, StartPosition, At, Goto
<1>7. ASSUME NEW w \in Workers, Rebalance(w) PROVE SoleHandler'
  BY <1>7 DEF Rebalance, StartPosition, At, Goto
<1>8. ASSUME NEW w \in Workers, Poll(w) PROVE SoleHandler'
  BY <1>8 DEF Poll, At, Goto
<1>9. ASSUME NEW w \in Workers, PollFails(w) PROVE SoleHandler'
  BY <1>9 DEF PollFails, Leave, At, Goto
<1>10. ASSUME NEW w \in Workers, PublishRaw(w) PROVE SoleHandler'
  BY <1>10 DEF PublishRaw, Done, At, Goto
<1>11. ASSUME NEW w \in Workers, PublishRawNull(w) PROVE SoleHandler'
  BY <1>11 DEF PublishRawNull, Leave, At, Goto
<1>12. ASSUME NEW w \in Workers, PublishRawFails(w) PROVE SoleHandler'
  BY <1>12 DEF PublishRawFails, DlqSendFails, Leave, At, Goto
<1>13. ASSUME NEW w \in Workers, DlqUnhandled(w) PROVE SoleHandler'
  BY <1>13 DEF DlqUnhandled, Done, At, Goto
<1>14. ASSUME NEW w \in Workers, DlqUnhandledFails(w) PROVE SoleHandler'
  BY <1>14 DEF DlqUnhandledFails, DlqSendFails, Leave, At, Goto
<1>15. ASSUME NEW w \in Workers, Commit(w) PROVE SoleHandler'
  BY <1>15 DEF Commit, At, Goto
<1>16. ASSUME NEW w \in Workers, CommitNothing(w) PROVE SoleHandler'
  BY <1>16 DEF CommitNothing, At, Goto
<1>17. ASSUME NEW w \in Workers, CommitFails(w) PROVE SoleHandler'
  BY <1>17 DEF CommitFails, Leave, At, Goto
<1>18. ASSUME NEW w \in Workers, GetExistingFails(w) PROVE SoleHandler'
  BY <1>18 DEF GetExistingFails, Raise, At, Goto
<1>19. ASSUME NEW w \in Workers, SkipFinal(w) PROVE SoleHandler'
  BY <1>19 DEF SkipFinal, Done, At, Goto
<1>20. ASSUME NEW w \in Workers, FindExpired(w) PROVE SoleHandler'
  BY <1>20 DEF FindExpired, At, Goto
<1>21. ASSUME NEW w \in Workers, DeferSend(w) PROVE SoleHandler'
  BY <1>21 DEF DeferSend, At, Goto
<1>22. ASSUME NEW w \in Workers, GoClaim(w) PROVE SoleHandler'
  BY <1>22 DEF GoClaim, At, Goto
<1>23. ASSUME NEW w \in Workers, MarkExpired(w) PROVE SoleHandler'
  BY <1>23 DEF MarkExpired, Done, At, Goto, Save, SavedRow
<1>24. ASSUME NEW w \in Workers, MarkExpiredFails(w) PROVE SoleHandler'
  <2>1. CASE Save(w, "EXPIRED")
    BY <1>24, <2>1 DEF MarkExpiredFails, Raise, At, Goto, Save, SavedRow
  <2>2. CASE UNCHANGED rows
    BY <1>24, <2>2 DEF MarkExpiredFails, Raise, At, Goto
  <2>3. QED
    BY <1>24, <2>1, <2>2 DEF MarkExpiredFails, SaveFails
<1>25. ASSUME NEW w \in Workers, WakeAtSendAfter(w) PROVE SoleHandler'
  BY <1>25 DEF WakeAtSendAfter, At, Goto
<1>26. ASSUME NEW w \in Workers, ClaimInsert(w) PROVE SoleHandler'
  BY <1>26 DEF ClaimInsert, Claimed, At, Goto, InsertClaim, ClaimInsertedRow
<1>27. ASSUME NEW w \in Workers, ClaimConflict(w) PROVE SoleHandler'
  BY <1>27 DEF ClaimConflict, At, Goto
<1>28. ASSUME NEW w \in Workers, ClaimInsertFails(w) PROVE SoleHandler'
  <2>1. CASE InsertClaim(w)
    BY <1>28, <2>1 DEF ClaimInsertFails, Raise, At, Goto, InsertClaim,
       ClaimInsertedRow
  <2>2. CASE UNCHANGED rows
    BY <1>28, <2>2 DEF ClaimInsertFails, Raise, At, Goto
  <2>3. QED
    BY <1>28, <2>1, <2>2 DEF ClaimInsertFails
<1>29. ASSUME NEW w \in Workers, ClaimUpdate(w) PROVE SoleHandler'
  BY <1>29 DEF ClaimUpdate, Claimed, At, Goto, UpdateClaim, ClaimUpdatedRow
<1>30. ASSUME NEW w \in Workers, ClaimRefused(w) PROVE SoleHandler'
  BY <1>30 DEF ClaimRefused, Done, At, Goto
<1>31. ASSUME NEW w \in Workers, ClaimUpdateFails(w) PROVE SoleHandler'
  <2>1. CASE UpdateClaim(w)
    BY <1>31, <2>1 DEF ClaimUpdateFails, Raise, At, Goto, UpdateClaim,
       ClaimUpdatedRow
  <2>2. CASE UNCHANGED rows
    BY <1>31, <2>2 DEF ClaimUpdateFails, Raise, At, Goto
  <2>3. QED
    BY <1>31, <2>1, <2>2 DEF ClaimUpdateFails
<1>32. ASSUME NEW w \in Workers, BudgetSpent(w) PROVE SoleHandler'
  BY <1>32 DEF BudgetSpent, Done, At, Goto
<1>33. ASSUME NEW w \in Workers, AttemptOk(w) PROVE SoleHandler'
  BY <1>33 DEF AttemptOk, At, Goto
<1>34. ASSUME NEW w \in Workers, AttemptFails(w) PROVE SoleHandler'
  BY <1>34 DEF AttemptFails, At, Goto
<1>35. ASSUME NEW w \in Workers, AttemptAckLost(w) PROVE SoleHandler'
  BY <1>35 DEF AttemptAckLost, At, Goto
<1>36. ASSUME NEW w \in Workers, MarkSent(w) PROVE SoleHandler'
  BY <1>36 DEF MarkSent, Done, At, Goto, Save, SavedRow
<1>37. ASSUME NEW w \in Workers, MarkSentFails(w) PROVE SoleHandler'
  <2>1. CASE Save(w, "SENT")
    BY <1>37, <2>1 DEF MarkSentFails, At, Goto, Save, SavedRow
  <2>2. CASE UNCHANGED rows
    BY <1>37, <2>2 DEF MarkSentFails, At, Goto
  <2>3. QED
    BY <1>37, <2>1, <2>2 DEF MarkSentFails, SaveFails
<1>38. ASSUME NEW w \in Workers, MarkFailure(w) PROVE SoleHandler'
  BY <1>38 DEF MarkFailure, At, Goto, Save, SavedRow, FailureStatus
<1>39. ASSUME NEW w \in Workers, MarkFailureFails(w) PROVE SoleHandler'
  <2>1. CASE Save(w, FailureStatus(attempts[w]))
    BY <1>39, <2>1 DEF MarkFailureFails, Raise, At, Goto, Save, SavedRow,
       FailureStatus
  <2>2. CASE UNCHANGED rows
    BY <1>39, <2>2 DEF MarkFailureFails, Raise, At, Goto, FailureStatus
  <2>3. QED
    BY <1>39, <2>1, <2>2 DEF MarkFailureFails, SaveFails
<1>40. ASSUME NEW w \in Workers, RetryWake(w) PROVE SoleHandler'
  BY <1>40 DEF RetryWake, At, Goto
<1>41. ASSUME NEW w \in Workers, DlqFinal(w) PROVE SoleHandler'
  BY <1>41 DEF DlqFinal, Done, At, Goto
<1>42. ASSUME NEW w \in Workers, DlqFinalFails(w) PROVE SoleHandler'
  BY <1>42 DEF DlqFinalFails, DlqSendFails, Raise, At, Goto
<1>43. QED
  BY <1>1, <1>2, <1>3, <1>4, <1>5, <1>6, <1>7, <1>8, <1>9, <1>10, <1>11, <1>12,
     <1>13, <1>14, <1>15, <1>16, <1>17, <1>18, <1>19, <1>20, <1>21, <1>22,
     <1>23, <1>24, <1>25, <1>26, <1>27, <1>28, <1>29, <1>30, <1>31, <1>32,
     <1>33, <1>34, <1>35, <1>36, <1>37, <1>38, <1>39, <1>40, <1>41, <1>42 DEF
     Next, WorkerStep, ConsumerStep, ClaimStep, RetryStep

(* Every SQL statement of the repository writes such a row.                *)
LEMMA RowsConsistentStep ==
  ASSUME Typed, RowsConsistent, [Next]_vars
  PROVE  RowsConsistent'
<1> Typed'
  BY TypeStep
<1> USE RepositoryAssumption DEF Typed, TypeOK, JobInHand, Handling, PC, Row,
       RowsConsistent
<1>1. CASE UNCHANGED rows
  BY <1>1
<1>2. ASSUME NEW w \in Workers, MarkExpired(w) PROVE RowsConsistent'
  BY <1>2 DEF MarkExpired, Done, At, Goto, Save, SavedRow
<1>3. ASSUME NEW w \in Workers, MarkExpiredFails(w) PROVE RowsConsistent'
  <2>1. CASE Save(w, "EXPIRED")
    BY <1>3, <2>1 DEF MarkExpiredFails, Raise, At, Goto, Save, SavedRow
  <2>2. CASE UNCHANGED rows
    BY <1>3, <2>2 DEF MarkExpiredFails, Raise, At, Goto
  <2>3. QED
    BY <1>3, <2>1, <2>2 DEF MarkExpiredFails, SaveFails
<1>4. ASSUME NEW w \in Workers, ClaimInsert(w) PROVE RowsConsistent'
  BY <1>4 DEF ClaimInsert, Claimed, At, Goto, InsertClaim, ClaimInsertedRow
<1>5. ASSUME NEW w \in Workers, ClaimInsertFails(w) PROVE RowsConsistent'
  <2>1. CASE InsertClaim(w)
    BY <1>5, <2>1 DEF ClaimInsertFails, Raise, At, Goto, InsertClaim,
       ClaimInsertedRow
  <2>2. CASE UNCHANGED rows
    BY <1>5, <2>2 DEF ClaimInsertFails, Raise, At, Goto
  <2>3. QED
    BY <1>5, <2>1, <2>2 DEF ClaimInsertFails
<1>6. ASSUME NEW w \in Workers, ClaimUpdate(w) PROVE RowsConsistent'
  BY <1>6 DEF ClaimUpdate, Claimed, At, Goto, UpdateClaim, ClaimUpdatedRow
<1>7. ASSUME NEW w \in Workers, ClaimUpdateFails(w) PROVE RowsConsistent'
  <2>1. CASE UpdateClaim(w)
    BY <1>7, <2>1 DEF ClaimUpdateFails, Raise, At, Goto, UpdateClaim,
       ClaimUpdatedRow
  <2>2. CASE UNCHANGED rows
    BY <1>7, <2>2 DEF ClaimUpdateFails, Raise, At, Goto
  <2>3. QED
    BY <1>7, <2>1, <2>2 DEF ClaimUpdateFails
<1>8. ASSUME NEW w \in Workers, MarkSent(w) PROVE RowsConsistent'
  BY <1>8 DEF MarkSent, Done, At, Goto, Save, SavedRow
<1>9. ASSUME NEW w \in Workers, MarkSentFails(w) PROVE RowsConsistent'
  <2>1. CASE Save(w, "SENT")
    BY <1>9, <2>1 DEF MarkSentFails, At, Goto, Save, SavedRow
  <2>2. CASE UNCHANGED rows
    BY <1>9, <2>2 DEF MarkSentFails, At, Goto
  <2>3. QED
    BY <1>9, <2>1, <2>2 DEF MarkSentFails, SaveFails
<1>10. ASSUME NEW w \in Workers, MarkFailure(w) PROVE RowsConsistent'
  BY <1>10 DEF MarkFailure, At, Goto, Save, SavedRow, FailureStatus
<1>11. ASSUME NEW w \in Workers, MarkFailureFails(w) PROVE RowsConsistent'
  <2>1. CASE Save(w, FailureStatus(attempts[w]))
    BY <1>11, <2>1 DEF MarkFailureFails, Raise, At, Goto, Save, SavedRow,
       FailureStatus
  <2>2. CASE UNCHANGED rows
    BY <1>11, <2>2 DEF MarkFailureFails, Raise, At, Goto, FailureStatus
  <2>3. QED
    BY <1>11, <2>1, <2>2 DEF MarkFailureFails, SaveFails
<1>12. QED
  BY <1>1, <1>2, <1>3, <1>4, <1>5, <1>6, <1>7, <1>8, <1>9, <1>10, <1>11,
     RowSteps

(* Nobody else writes the row while a worker has its snapshot.             *)
LEMMA SnapshotStep ==
  ASSUME "rebalance" \notin Faults, Typed, SoleHandler, RowsConsistent,
         Snapshot, [Next]_vars
  PROVE  Snapshot'
<1> Typed'
  BY TypeStep
<1> USE WorkerAssumption, RepositoryAssumption DEF Typed, TypeOK, JobInHand,
       Handling, PC, Row, SoleHandler, Snapshot, SnapshotRead, broker, store,
       local, env
<1>1. CASE UNCHANGED vars
  BY <1>1 DEF vars
<1>2. ASSUME NEW j \in Jobs, Publish(j) PROVE Snapshot'
  BY <1>2 DEF Publish
<1>3. CASE Tick
  BY <1>3 DEF Tick
<1>4. ASSUME NEW w \in Workers, Start(w) PROVE Snapshot'
  BY <1>4 DEF Start, At, Goto
<1>5. ASSUME NEW w \in Workers, Crash(w) PROVE Snapshot'
  BY <1>5 DEF Crash, Leave, At, Goto
<1>6. ASSUME NEW w \in Workers, Assign(w) PROVE Snapshot'
  BY <1>6 DEF Assign, StartPosition, At, Goto
<1>7. ASSUME NEW w \in Workers, Rebalance(w) PROVE Snapshot'
  BY <1>7 DEF Rebalance, StartPosition, At, Goto
<1>8. ASSUME NEW w \in Workers, Poll(w) PROVE Snapshot'
  BY <1>8 DEF Poll, At, Goto
<1>9. ASSUME NEW w \in Workers, PollFails(w) PROVE Snapshot'
  BY <1>9 DEF PollFails, Leave, At, Goto
<1>10. ASSUME NEW w \in Workers, PublishRaw(w) PROVE Snapshot'
  BY <1>10 DEF PublishRaw, Done, At, Goto
<1>11. ASSUME NEW w \in Workers, PublishRawNull(w) PROVE Snapshot'
  BY <1>11 DEF PublishRawNull, Leave, At, Goto
<1>12. ASSUME NEW w \in Workers, PublishRawFails(w) PROVE Snapshot'
  BY <1>12 DEF PublishRawFails, DlqSendFails, Leave, At, Goto
<1>13. ASSUME NEW w \in Workers, DlqUnhandled(w) PROVE Snapshot'
  BY <1>13 DEF DlqUnhandled, Done, At, Goto
<1>14. ASSUME NEW w \in Workers, DlqUnhandledFails(w) PROVE Snapshot'
  BY <1>14 DEF DlqUnhandledFails, DlqSendFails, Leave, At, Goto
<1>15. ASSUME NEW w \in Workers, Commit(w) PROVE Snapshot'
  BY <1>15 DEF Commit, At, Goto
<1>16. ASSUME NEW w \in Workers, CommitNothing(w) PROVE Snapshot'
  BY <1>16 DEF CommitNothing, At, Goto
<1>17. ASSUME NEW w \in Workers, CommitFails(w) PROVE Snapshot'
  BY <1>17 DEF CommitFails, Leave, At, Goto
<1>18. ASSUME NEW w \in Workers, GetExistingFails(w) PROVE Snapshot'
  BY <1>18 DEF GetExistingFails, Raise, At, Goto
<1>19. ASSUME NEW w \in Workers, SkipFinal(w) PROVE Snapshot'
  BY <1>19 DEF SkipFinal, Done, At, Goto
<1>20. ASSUME NEW w \in Workers, FindExpired(w) PROVE Snapshot'
  BY <1>20 DEF FindExpired, At, Goto
<1>21. ASSUME NEW w \in Workers, DeferSend(w) PROVE Snapshot'
  BY <1>21 DEF DeferSend, At, Goto
<1>22. ASSUME NEW w \in Workers, GoClaim(w) PROVE Snapshot'
  BY <1>22 DEF GoClaim, At, Goto
<1>23. ASSUME NEW w \in Workers, MarkExpired(w) PROVE Snapshot'
  <2>1. \A v \in Workers \ {w} : pc[v] \notin Handling
    BY <1>23 DEF MarkExpired, At
  <2>2. /\ \A v \in Workers \ {w} : pc'[v] = pc[v]
        /\ pc'[w] = "commit"
    BY <1>23 DEF MarkExpired, Done, At, Goto
  <2>. QED
    BY <2>1, <2>2
<1>24. ASSUME NEW w \in Workers, MarkExpiredFails(w) PROVE Snapshot'
  <2>1. CASE Save(w, "EXPIRED")
    BY <1>24, <2>1 DEF MarkExpiredFails, Raise, At, Goto, Save, SavedRow
  <2>2. CASE UNCHANGED rows
    BY <1>24, <2>2 DEF MarkExpiredFails, Raise, At, Goto
  <2>3. QED
    BY <1>24, <2>1, <2>2 DEF MarkExpiredFails, SaveFails
<1>25. ASSUME NEW w \in Workers, WakeAtSendAfter(w) PROVE Snapshot'
  BY <1>25 DEF WakeAtSendAfter, At, Goto
<1>26. ASSUME NEW w \in Workers, ClaimInsert(w) PROVE Snapshot'
  BY <1>26 DEF ClaimInsert, Claimed, At, Goto, InsertClaim, ClaimInsertedRow,
     RowsConsistent
<1>27. ASSUME NEW w \in Workers, ClaimConflict(w) PROVE Snapshot'
  BY <1>27 DEF ClaimConflict, At, Goto
<1>28. ASSUME NEW w \in Workers, ClaimInsertFails(w) PROVE Snapshot'
  <2>1. CASE InsertClaim(w)
    BY <1>28, <2>1 DEF ClaimInsertFails, Raise, At, Goto, InsertClaim,
       ClaimInsertedRow, RowsConsistent
  <2>2. CASE UNCHANGED rows
    BY <1>28, <2>2 DEF ClaimInsertFails, Raise, At, Goto, RowsConsistent
  <2>3. QED
    BY <1>28, <2>1, <2>2 DEF ClaimInsertFails
<1>29. ASSUME NEW w \in Workers, ClaimUpdate(w) PROVE Snapshot'
  BY <1>29 DEF ClaimUpdate, Claimed, At, Goto, UpdateClaim, ClaimUpdatedRow
<1>30. ASSUME NEW w \in Workers, ClaimRefused(w) PROVE Snapshot'
  BY <1>30 DEF ClaimRefused, Done, At, Goto
<1>31. ASSUME NEW w \in Workers, ClaimUpdateFails(w) PROVE Snapshot'
  <2>1. CASE UpdateClaim(w)
    BY <1>31, <2>1 DEF ClaimUpdateFails, Raise, At, Goto, UpdateClaim,
       ClaimUpdatedRow
  <2>2. CASE UNCHANGED rows
    BY <1>31, <2>2 DEF ClaimUpdateFails, Raise, At, Goto
  <2>3. QED
    BY <1>31, <2>1, <2>2 DEF ClaimUpdateFails
<1>32. ASSUME NEW w \in Workers, BudgetSpent(w) PROVE Snapshot'
  BY <1>32 DEF BudgetSpent, Done, At, Goto
<1>33. ASSUME NEW w \in Workers, AttemptOk(w) PROVE Snapshot'
  BY <1>33 DEF AttemptOk, At, Goto
<1>34. ASSUME NEW w \in Workers, AttemptFails(w) PROVE Snapshot'
  BY <1>34 DEF AttemptFails, At, Goto
<1>35. ASSUME NEW w \in Workers, AttemptAckLost(w) PROVE Snapshot'
  BY <1>35 DEF AttemptAckLost, At, Goto
<1>36. ASSUME NEW w \in Workers, MarkSent(w) PROVE Snapshot'
  <2>1. \A v \in Workers \ {w} : pc[v] \notin Handling
    BY <1>36 DEF MarkSent, At
  <2>2. /\ \A v \in Workers \ {w} : pc'[v] = pc[v]
        /\ pc'[w] = "commit"
    BY <1>36 DEF MarkSent, Done, At, Goto
  <2>. QED
    BY <2>1, <2>2
<1>37. ASSUME NEW w \in Workers, MarkSentFails(w) PROVE Snapshot'
  <2>1. CASE Save(w, "SENT")
    <3>1. Writes(w, "SENT")
      BY <1>37, <2>1, SaveWrites DEF MarkSentFails, At
    <3>2. \A v \in Workers \ {w} : pc[v] \notin Handling
      BY <1>37 DEF MarkSentFails, At
    <3>3. /\ \A v \in Workers \ {w} : pc'[v] = pc[v]
          /\ pc'[w] = "mark_failure"
          /\ job' = job /\ attempts' = attempts
      BY <1>37 DEF MarkSentFails, At, Goto
    <3>4. attempts'[w] = rows'[job'[w]].attempts
      BY <3>1, <3>3 DEF Writes
    <3>. QED
      BY <3>2, <3>3, <3>4
  <2>2. CASE UNCHANGED rows
    BY <1>37, <2>2 DEF MarkSentFails, At, Goto
  <2>3. QED
    BY <1>37, <2>1, <2>2 DEF MarkSentFails, SaveFails
<1>38. ASSUME NEW w \in Workers, MarkFailure(w) PROVE Snapshot'
  <2>1. Writes(w, FailureStatus(attempts[w]))
    BY <1>38, SaveWrites DEF MarkFailure, At
  <2>2. \A v \in Workers \ {w} : pc[v] \notin Handling
    BY <1>38 DEF MarkFailure, At
  <2>3. /\ \A v \in Workers \ {w} : pc'[v] = pc[v]
        /\ pc'[w] \in {"dlq_final", "retry_sleep"}
        /\ job' = job /\ attempts' = attempts
    BY <1>38 DEF MarkFailure, At, Goto
  <2>4. attempts'[w] = rows'[job'[w]].attempts
    BY <2>1, <2>3 DEF Writes
  <2>. QED
    BY <2>2, <2>3, <2>4
<1>39. ASSUME NEW w \in Workers, MarkFailureFails(w) PROVE Snapshot'
  <2>1. CASE Save(w, FailureStatus(attempts[w]))
    <3>1. Writes(w, FailureStatus(attempts[w]))
      BY <1>39, <2>1, SaveWrites DEF MarkFailureFails, At
    <3>2. \A v \in Workers \ {w} : pc[v] \notin Handling
      BY <1>39 DEF MarkFailureFails, At
    <3>3. /\ \A v \in Workers \ {w} : pc'[v] = pc[v]
          /\ pc'[w] = "dlq_unhandled"
      BY <1>39 DEF MarkFailureFails, Raise, At, Goto
    <3>. QED
      BY <3>2, <3>3
  <2>2. CASE UNCHANGED rows
    BY <1>39, <2>2 DEF MarkFailureFails, Raise, At, Goto, FailureStatus
  <2>3. QED
    BY <1>39, <2>1, <2>2 DEF MarkFailureFails, SaveFails
<1>40. ASSUME NEW w \in Workers, RetryWake(w) PROVE Snapshot'
  BY <1>40 DEF RetryWake, At, Goto
<1>41. ASSUME NEW w \in Workers, DlqFinal(w) PROVE Snapshot'
  BY <1>41 DEF DlqFinal, Done, At, Goto
<1>42. ASSUME NEW w \in Workers, DlqFinalFails(w) PROVE Snapshot'
  BY <1>42 DEF DlqFinalFails, DlqSendFails, Raise, At, Goto
<1>43. QED
  BY <1>1, <1>2, <1>3, <1>4, <1>5, <1>6, <1>7, <1>8, <1>9, <1>10, <1>11, <1>12,
     <1>13, <1>14, <1>15, <1>16, <1>17, <1>18, <1>19, <1>20, <1>21, <1>22,
     <1>23, <1>24, <1>25, <1>26, <1>27, <1>28, <1>29, <1>30, <1>31, <1>32,
     <1>33, <1>34, <1>35, <1>36, <1>37, <1>38, <1>39, <1>40, <1>41, <1>42 DEF
     Next, WorkerStep, ConsumerStep, ClaimStep, RetryStep

(* attempt_with_retries counts up only below max_attempts.                 *)
LEMMA WithinLimitStep ==
  ASSUME "rebalance" \notin Faults, "db" \notin Faults, Typed, SoleHandler,
         RowsConsistent, Snapshot, WithinLimit, [Next]_vars
  PROVE  WithinLimit'
<1> Typed'
  BY TypeStep
<1> USE WorkerAssumption, RepositoryAssumption DEF Typed, TypeOK, JobInHand,
       Handling, PC, Row, SoleHandler, WithinLimit, Marking, Snapshot,
       SnapshotRead, broker, store, local, env
<1>1. CASE UNCHANGED vars
  BY <1>1 DEF vars
<1>2. ASSUME NEW j \in Jobs, Publish(j) PROVE WithinLimit'
  BY <1>2 DEF Publish
<1>3. CASE Tick
  BY <1>3 DEF Tick
<1>4. ASSUME NEW w \in Workers, Start(w) PROVE WithinLimit'
  BY <1>4 DEF Start, At, Goto
<1>5. ASSUME NEW w \in Workers, Crash(w) PROVE WithinLimit'
  BY <1>5 DEF Crash, Leave, At, Goto
<1>6. ASSUME NEW w \in Workers, Assign(w) PROVE WithinLimit'
  BY <1>6 DEF Assign, StartPosition, At, Goto
<1>7. ASSUME NEW w \in Workers, Rebalance(w) PROVE WithinLimit'
  BY <1>7 DEF Rebalance, StartPosition, At, Goto
<1>8. ASSUME NEW w \in Workers, Poll(w) PROVE WithinLimit'
  BY <1>8 DEF Poll, At, Goto
<1>9. ASSUME NEW w \in Workers, PollFails(w) PROVE WithinLimit'
  BY <1>9 DEF PollFails, Leave, At, Goto
<1>10. ASSUME NEW w \in Workers, PublishRaw(w) PROVE WithinLimit'
  BY <1>10 DEF PublishRaw, Done, At, Goto
<1>11. ASSUME NEW w \in Workers, PublishRawNull(w) PROVE WithinLimit'
  BY <1>11 DEF PublishRawNull, Leave, At, Goto
<1>12. ASSUME NEW w \in Workers, PublishRawFails(w) PROVE WithinLimit'
  BY <1>12 DEF PublishRawFails, DlqSendFails, Leave, At, Goto
<1>13. ASSUME NEW w \in Workers, DlqUnhandled(w) PROVE WithinLimit'
  BY <1>13 DEF DlqUnhandled, Done, At, Goto
<1>14. ASSUME NEW w \in Workers, DlqUnhandledFails(w) PROVE WithinLimit'
  BY <1>14 DEF DlqUnhandledFails, DlqSendFails, Leave, At, Goto
<1>15. ASSUME NEW w \in Workers, Commit(w) PROVE WithinLimit'
  BY <1>15 DEF Commit, At, Goto
<1>16. ASSUME NEW w \in Workers, CommitNothing(w) PROVE WithinLimit'
  BY <1>16 DEF CommitNothing, At, Goto
<1>17. ASSUME NEW w \in Workers, CommitFails(w) PROVE WithinLimit'
  BY <1>17 DEF CommitFails, Leave, At, Goto
<1>18. ASSUME NEW w \in Workers, GetExistingFails(w) PROVE WithinLimit'
  BY <1>18 DEF GetExistingFails, Raise, At, Goto
<1>19. ASSUME NEW w \in Workers, SkipFinal(w) PROVE WithinLimit'
  BY <1>19 DEF SkipFinal, Done, At, Goto
<1>20. ASSUME NEW w \in Workers, FindExpired(w) PROVE WithinLimit'
  BY <1>20 DEF FindExpired, At, Goto
<1>21. ASSUME NEW w \in Workers, DeferSend(w) PROVE WithinLimit'
  BY <1>21 DEF DeferSend, At, Goto
<1>22. ASSUME NEW w \in Workers, GoClaim(w) PROVE WithinLimit'
  BY <1>22 DEF GoClaim, At, Goto
<1>23. ASSUME NEW w \in Workers, MarkExpired(w) PROVE WithinLimit'
  <2>1. Writes(w, "EXPIRED")
    BY <1>23, SaveWrites DEF MarkExpired, At
  <2>2. \A v \in Workers \ {w} : pc[v] \notin Handling
    BY <1>23 DEF MarkExpired, At
  <2>3. /\ \A v \in Workers \ {w} : pc'[v] = pc[v]
        /\ pc'[w] = "commit" /\ pc[w] = "mark_expired"
    BY <1>23 DEF MarkExpired, Done, At, Goto
  <2>4. rows'[job[w]].attempts = rows[job[w]].attempts
    BY <2>1, <2>3 DEF Writes
  <2>. QED
    BY <2>1, <2>2, <2>3, <2>4 DEF Writes
<1>24. ASSUME NEW w \in Workers, MarkExpiredFails(w) PROVE WithinLimit'
  BY <1>24 DEF MarkExpiredFails, SaveFails
<1>25. ASSUME NEW w \in Workers, WakeAtSendAfter(w) PROVE WithinLimit'
  BY <1>25 DEF WakeAtSendAfter, At, Goto
<1>26. ASSUME NEW w \in Workers, ClaimInsert(w) PROVE WithinLimit'
  BY <1>26 DEF ClaimInsert, Claimed, At, Goto, InsertClaim, ClaimInsertedRow,
     RowsConsistent
<1>27. ASSUME NEW w \in Workers, ClaimConflict(w) PROVE WithinLimit'
  BY <1>27 DEF ClaimConflict, At, Goto
<1>28. ASSUME NEW w \in Workers, ClaimInsertFails(w) PROVE WithinLimit'
  <2>1. CASE InsertClaim(w)
    BY <1>28, <2>1 DEF ClaimInsertFails, Raise, At, Goto, InsertClaim,
       ClaimInsertedRow, RowsConsistent
  <2>2. CASE UNCHANGED rows
    BY <1>28, <2>2 DEF ClaimInsertFails, Raise, At, Goto, RowsConsistent
  <2>3. QED
    BY <1>28, <2>1, <2>2 DEF ClaimInsertFails
<1>29. ASSUME NEW w \in Workers, ClaimUpdate(w) PROVE WithinLimit'
  BY <1>29 DEF ClaimUpdate, Claimed, At, Goto, UpdateClaim, ClaimUpdatedRow
<1>30. ASSUME NEW w \in Workers, ClaimRefused(w) PROVE WithinLimit'
  BY <1>30 DEF ClaimRefused, Done, At, Goto
<1>31. ASSUME NEW w \in Workers, ClaimUpdateFails(w) PROVE WithinLimit'
  <2>1. CASE UpdateClaim(w)
    BY <1>31, <2>1 DEF ClaimUpdateFails, Raise, At, Goto, UpdateClaim,
       ClaimUpdatedRow
  <2>2. CASE UNCHANGED rows
    BY <1>31, <2>2 DEF ClaimUpdateFails, Raise, At, Goto
  <2>3. QED
    BY <1>31, <2>1, <2>2 DEF ClaimUpdateFails
<1>32. ASSUME NEW w \in Workers, BudgetSpent(w) PROVE WithinLimit'
  BY <1>32 DEF BudgetSpent, Done, At, Goto
<1>33. ASSUME NEW w \in Workers, AttemptOk(w) PROVE WithinLimit'
  BY <1>33 DEF AttemptOk, At, Goto
<1>34. ASSUME NEW w \in Workers, AttemptFails(w) PROVE WithinLimit'
  BY <1>34 DEF AttemptFails, At, Goto
<1>35. ASSUME NEW w \in Workers, AttemptAckLost(w) PROVE WithinLimit'
  BY <1>35 DEF AttemptAckLost, At, Goto
<1>36. ASSUME NEW w \in Workers, MarkSent(w) PROVE WithinLimit'
  <2>1. Writes(w, "SENT")
    BY <1>36, SaveWrites DEF MarkSent, At
  <2>2. \A v \in Workers \ {w} : pc[v] \notin Handling
    BY <1>36 DEF MarkSent, At
  <2>3. /\ \A v \in Workers \ {w} : pc'[v] = pc[v]
        /\ pc'[w] = "commit" /\ pc[w] = "mark_sent"
    BY <1>36 DEF MarkSent, Done, At, Goto
  <2>4. rows'[job[w]].attempts <= MaxAttempts
    BY <2>1, <2>3 DEF Writes
  <2>. QED
    BY <2>1, <2>2, <2>3, <2>4 DEF Writes
<1>37. ASSUME NEW w \in Workers, MarkSentFails(w) PROVE WithinLimit'
  BY <1>37 DEF MarkSentFails, SaveFails
<1>38. ASSUME NEW w \in Workers, MarkFailure(w) PROVE WithinLimit'
  <2>1. Writes(w, FailureStatus(attempts[w]))
    BY <1>38, SaveWrites DEF MarkFailure, At
  <2>2. \A v \in Workers \ {w} : pc[v] \notin Handling
    BY <1>38 DEF MarkFailure, At
  <2>. QED
    BY <1>38, <2>1, <2>2 DEF MarkFailure, At, Goto, FailureStatus, Writes
<1>39. ASSUME NEW w \in Workers, MarkFailureFails(w) PROVE WithinLimit'
  BY <1>39 DEF MarkFailureFails, SaveFails
<1>40. ASSUME NEW w \in Workers, RetryWake(w) PROVE WithinLimit'
  BY <1>40 DEF RetryWake, At, Goto
<1>41. ASSUME NEW w \in Workers, DlqFinal(w) PROVE WithinLimit'
  BY <1>41 DEF DlqFinal, Done, At, Goto
<1>42. ASSUME NEW w \in Workers, DlqFinalFails(w) PROVE WithinLimit'
  BY <1>42 DEF DlqFinalFails, DlqSendFails, Raise, At, Goto
<1>43. QED
  BY <1>1, <1>2, <1>3, <1>4, <1>5, <1>6, <1>7, <1>8, <1>9, <1>10, <1>11, <1>12,
     <1>13, <1>14, <1>15, <1>16, <1>17, <1>18, <1>19, <1>20, <1>21, <1>22,
     <1>23, <1>24, <1>25, <1>26, <1>27, <1>28, <1>29, <1>30, <1>31, <1>32,
     <1>33, <1>34, <1>35, <1>36, <1>37, <1>38, <1>39, <1>40, <1>41, <1>42 DEF
     Next, WorkerStep, ConsumerStep, ClaimStep, RetryStep

-----------------------------------------------------------------------------
(* No write of a row lowers its attempts column.                           *)
LEMMA AttemptsGrow ==
  ASSUME Typed, RowsConsistent, Snapshot, [Next]_vars, NEW j \in Jobs
  PROVE  rows'[j].attempts >= rows[j].attempts
<1> Typed'
  BY TypeStep
<1> USE RepositoryAssumption DEF Typed, TypeOK, JobInHand, Handling, PC, Row,
       Snapshot, SnapshotRead
<1>1. CASE UNCHANGED rows
  BY <1>1
<1>2. ASSUME NEW w \in Workers, MarkExpired(w) PROVE
        rows'[j].attempts >= rows[j].attempts
  BY <1>2 DEF MarkExpired, Done, At, Goto, Save, SavedRow
<1>3. ASSUME NEW w \in Workers, MarkExpiredFails(w) PROVE
        rows'[j].attempts >= rows[j].attempts
  <2>1. CASE Save(w, "EXPIRED")
    BY <1>3, <2>1 DEF MarkExpiredFails, Raise, At, Goto, Save, SavedRow
  <2>2. CASE UNCHANGED rows
    BY <1>3, <2>2 DEF MarkExpiredFails, Raise, At, Goto
  <2>3. QED
    BY <1>3, <2>1, <2>2 DEF MarkExpiredFails, SaveFails
<1>4. ASSUME NEW w \in Workers, ClaimInsert(w) PROVE
        rows'[j].attempts >= rows[j].attempts
  BY <1>4 DEF ClaimInsert, Claimed, At, Goto, InsertClaim, ClaimInsertedRow,
     RowsConsistent
<1>5. ASSUME NEW w \in Workers, ClaimInsertFails(w) PROVE
        rows'[j].attempts >= rows[j].attempts
  <2>1. CASE InsertClaim(w)
    BY <1>5, <2>1 DEF ClaimInsertFails, Raise, At, Goto, InsertClaim,
       ClaimInsertedRow, RowsConsistent
  <2>2. CASE UNCHANGED rows
    BY <1>5, <2>2 DEF ClaimInsertFails, Raise, At, Goto, RowsConsistent
  <2>3. QED
    BY <1>5, <2>1, <2>2 DEF ClaimInsertFails
<1>6. ASSUME NEW w \in Workers, ClaimUpdate(w) PROVE
        rows'[j].attempts >= rows[j].attempts
  BY <1>6 DEF ClaimUpdate, Claimed, At, Goto, UpdateClaim, ClaimUpdatedRow
<1>7. ASSUME NEW w \in Workers, ClaimUpdateFails(w) PROVE
        rows'[j].attempts >= rows[j].attempts
  <2>1. CASE UpdateClaim(w)
    BY <1>7, <2>1 DEF ClaimUpdateFails, Raise, At, Goto, UpdateClaim,
       ClaimUpdatedRow
  <2>2. CASE UNCHANGED rows
    BY <1>7, <2>2 DEF ClaimUpdateFails, Raise, At, Goto
  <2>3. QED
    BY <1>7, <2>1, <2>2 DEF ClaimUpdateFails
<1>8. ASSUME NEW w \in Workers, MarkSent(w) PROVE
        rows'[j].attempts >= rows[j].attempts
  BY <1>8 DEF MarkSent, Done, At, Goto, Save, SavedRow
<1>9. ASSUME NEW w \in Workers, MarkSentFails(w) PROVE
        rows'[j].attempts >= rows[j].attempts
  <2>1. CASE Save(w, "SENT")
    BY <1>9, <2>1 DEF MarkSentFails, At, Goto, Save, SavedRow
  <2>2. CASE UNCHANGED rows
    BY <1>9, <2>2 DEF MarkSentFails, At, Goto
  <2>3. QED
    BY <1>9, <2>1, <2>2 DEF MarkSentFails, SaveFails
<1>10. ASSUME NEW w \in Workers, MarkFailure(w) PROVE
        rows'[j].attempts >= rows[j].attempts
  BY <1>10 DEF MarkFailure, At, Goto, Save, SavedRow, FailureStatus
<1>11. ASSUME NEW w \in Workers, MarkFailureFails(w) PROVE
        rows'[j].attempts >= rows[j].attempts
  <2>1. CASE Save(w, FailureStatus(attempts[w]))
    BY <1>11, <2>1 DEF MarkFailureFails, Raise, At, Goto, Save, SavedRow,
       FailureStatus
  <2>2. CASE UNCHANGED rows
    BY <1>11, <2>2 DEF MarkFailureFails, Raise, At, Goto, FailureStatus
  <2>3. QED
    BY <1>11, <2>1, <2>2 DEF MarkFailureFails, SaveFails
<1>12. QED
  BY <1>1, <1>2, <1>3, <1>4, <1>5, <1>6, <1>7, <1>8, <1>9, <1>10, <1>11,
     RowSteps

(* An attempt leaves the unpersisted state through the write of its result *)
(* or through the death of the process.                                    *)
LEMMA MarkingLeft ==
  ASSUME "db" \notin Faults, Typed, [Next]_vars,
         NEW w \in Workers, pc[w] \in Marking,
         ~ (pc'[w] \in Marking /\ job'[w] = job[w])
  PROVE  Crash(w) \/ MarkSent(w) \/ MarkFailure(w)
<1> USE DEF Marking, At
<1>1. CASE UNCHANGED <<pc, job>>
  BY <1>1
<1>2. ASSUME NEW v \in Workers, v # w, OnlyTouches(v) PROVE FALSE
  BY <1>2 DEF OnlyTouches
<1>3. CASE Start(w) \/ Assign(w) \/ Rebalance(w)
  BY <1>3 DEF Start, Assign, Rebalance, local
<1>4. CASE ConsumerStep(w)
  BY <1>4 DEF ConsumerStep, Poll, PollFails, PublishRaw, PublishRawNull,
     PublishRawFails, DlqUnhandled, DlqUnhandledFails, Commit, CommitNothing,
     CommitFails
<1>5. CASE ClaimStep(w)
  BY <1>5 DEF ClaimStep, GetExistingFails, SkipFinal, FindExpired, DeferSend,
     GoClaim, MarkExpired, MarkExpiredFails, WakeAtSendAfter, ClaimInsert,
     ClaimConflict, ClaimInsertFails, ClaimUpdate, ClaimRefused,
     ClaimUpdateFails
<1>6. CASE RetryStep(w)
  <2>1. ~ (MarkSentFails(w) \/ MarkFailureFails(w))
    BY DEF MarkSentFails, MarkFailureFails, SaveFails
  <2>2. QED
    BY <1>6, <2>1 DEF RetryStep, BudgetSpent, AttemptOk, AttemptFails,
       AttemptAckLost, RetryWake, DlqFinal, DlqFinalFails
<1>7. QED
  BY <1>1, <1>2, <1>3, <1>4, <1>5, <1>6, Frame
     DEF Next, WorkerStep, vars, local, Publish, Tick

(* Crashes and rebalances are only counted up.                             *)
LEMMA DisruptionsGrow ==
  ASSUME Typed, [Next]_vars
  PROVE  disruptions' \in Nat /\ disruptions' >= disruptions
<1> Typed'
  BY TypeStep
<1>1. \/ UNCHANGED disruptions
      \/ \E w \in Workers : Crash(w) \/ Rebalance(w)
  BY DEF Next, WorkerStep, ConsumerStep, ClaimStep, RetryStep, vars, env,
     Publish, Tick, Start, Assign, Poll, PollFails, PublishRaw,
     PublishRawNull, PublishRawFails, DlqUnhandled, DlqUnhandledFails, Commit,
     CommitNothing, CommitFails, GetExistingFails, SkipFinal, FindExpired,
     DeferSend, GoClaim, MarkExpired, MarkExpiredFails, WakeAtSendAfter,
     ClaimInsert, ClaimConflict, ClaimInsertFails, ClaimUpdate, ClaimRefused,
     ClaimUpdateFails, BudgetSpent, AttemptOk, AttemptFails, AttemptAckLost,
     MarkSent, MarkSentFails, MarkFailure, MarkFailureFails, RetryWake,
     DlqFinal, DlqFinalFails
<1>2. QED
  BY <1>1 DEF Typed, TypeOK, Crash, Rebalance

(* A send opens the unpersisted state; leaving it raises either the        *)
(* attempts column or the number of crashes.                               *)
LEMMA SendsCountedStep ==
  ASSUME "rebalance" \notin Faults, "db" \notin Faults, Typed, SoleHandler,
         RowsConsistent, Snapshot, WithinLimit, SendsCounted, [Next]_vars
  PROVE  SendsCounted'
<1> SUFFICES ASSUME NEW j \in Jobs
             PROVE  sends'[j] <=
                      rows'[j].attempts + disruptions' + Unpersisted(j)'
  BY DEF SendsCounted
<1> Typed'
  BY TypeStep
<1> DEFINE r == rows[j].attempts
           rn == rows'[j].attempts
           u == Unpersisted(j)
           un == Unpersisted(j)'
<1>1. /\ r \in Nat /\ rn \in Nat
      /\ sends[j] \in Nat /\ sends'[j] \in Nat
      /\ disruptions \in Nat /\ disruptions' \in Nat
      /\ u \in {0, 1} /\ un \in {0, 1}
  BY DEF Typed, TypeOK, Row, Unpersisted
<1>2. rn >= r /\ disruptions' >= disruptions
  BY AttemptsGrow, DisruptionsGrow
<1>3. sends[j] <= r + disruptions + u
  BY DEF SendsCounted
<1>4. u = 1 /\ un = 0 => rn = r + 1 \/ disruptions' = disruptions + 1
  <2> SUFFICES ASSUME u = 1, un = 0
               PROVE  rn = r + 1 \/ disruptions' = disruptions + 1
    OBVIOUS
  <2>1. PICK w \in Workers : pc[w] \in Marking /\ job[w] = j
    BY DEF Unpersisted
  <2>2. ~ (pc'[w] \in Marking /\ job'[w] = j)
    BY DEF Unpersisted
  <2>3. Crash(w) \/ MarkSent(w) \/ MarkFailure(w)
    BY <2>1, <2>2, MarkingLeft
  <2>4. QED
    BY <2>1, <2>3 DEF Crash, MarkSent, MarkFailure, Save, SavedRow,
       WithinLimit, Typed, TypeOK
<1>5. ASSUME sends'[j] = sends[j]
      PROVE  sends'[j] <= rn + disruptions' + un
  <2> HIDE DEF r, rn, u, un
  <2>1. QED
    BY <1>1, <1>2, <1>3, <1>4, <1>5
<1>6. ASSUME NEW w \in Workers, AttemptOk(w) \/ AttemptAckLost(w),
             sends'[j] # sends[j]
      PROVE  sends'[j] <= rn + disruptions' + un
  <2>1. At(w, "attempt") /\ job[w] = j /\ sends'[j] = sends[j] + 1
    BY <1>6 DEF AttemptOk, AttemptAckLost, Typed, TypeOK
  <2>2. u = 0
    BY <2>1 DEF SoleHandler, Handling, PC, Marking, Unpersisted, At
  <2>3. un = 1
    BY <1>6, <2>1 DEF AttemptOk, AttemptAckLost, Goto, Marking, Unpersisted,
       Typed, TypeOK
  <2> HIDE DEF r, rn, u, un
  <2>4. QED
    BY <1>1, <1>2, <1>3, <2>1, <2>2, <2>3
<1>7. QED
  BY <1>5, <1>6, SendSteps

-----------------------------------------------------------------------------
(* The points between the claim and the write of an attempt's outcome.     *)
Attempting == {"attempt", "mark_sent", "mark_failure", "retry_sleep"}

(* A handler attempts a job only after its claim was granted.              *)
LEMMA AttemptingEntered ==
  ASSUME Typed, [Next]_vars, NEW w \in Workers, pc'[w] \in Attempting
  PROVE  \/ pc[w] \in Attempting /\ job'[w] = job[w]
         \/ ClaimInsert(w) \/ ClaimUpdate(w)
<1> USE DEF Attempting, At, Goto, Typed, TypeOK
<1>1. CASE UNCHANGED <<pc, job>>
  BY <1>1
<1>2. ASSUME NEW v \in Workers, v # w, OnlyTouches(v)
      PROVE  pc[w] \in Attempting /\ job'[w] = job[w]
  BY <1>2 DEF OnlyTouches
<1>3. CASE Start(w) \/ Crash(w) \/ Assign(w) \/ Rebalance(w)
  BY <1>3 DEF Start, Crash, Leave, Assign, Rebalance, local
<1>4. CASE ConsumerStep(w)
  BY <1>4 DEF ConsumerStep, Poll, PollFails, PublishRaw, PublishRawNull,
     PublishRawFails, DlqUnhandled, DlqUnhandledFails, Commit, CommitNothing,
     CommitFails, Done, Leave
<1>5. CASE ClaimStep(w)
  BY <1>5 DEF ClaimStep, GetExistingFails, SkipFinal, FindExpired, DeferSend,
     GoClaim, MarkExpired, MarkExpiredFails, WakeAtSendAfter, ClaimConflict,
     ClaimInsertFails, ClaimRefused, ClaimUpdateFails, Done, Raise
<1>6. CASE RetryStep(w)
  BY <1>6 DEF RetryStep, BudgetSpent, AttemptOk, AttemptFails, AttemptAckLost,
     MarkSent, MarkSentFails, MarkFailure, MarkFailureFails, RetryWake,
     DlqFinal, DlqFinalFails, Done, Raise
<1>7. QED
  BY <1>1, <1>2, <1>3, <1>4, <1>5, <1>6, Frame
     DEF Next, WorkerStep, vars, local, Publish, Tick

(* A handler marks a job expired only if it found it expired and did not   *)
(* skip it.                                                                *)
LEMMA MarkExpiredEntered ==
  ASSUME Typed, [Next]_vars, NEW w \in Workers, pc'[w] = "mark_expired"
  PROVE  (pc[w] = "mark_expired" /\ job'[w] = job[w]) \/ FindExpired(w)
<1> USE DEF At, Goto, Typed, TypeOK
<1>1. CASE UNCHANGED <<pc, job>>
  BY <1>1
<1>2. ASSUME NEW v \in Workers, v # w, OnlyTouches(v)
      PROVE  pc[w] = "mark_expired" /\ job'[w] = job[w]
  BY <1>2 DEF OnlyTouches
<1>3. CASE Start(w) \/ Crash(w) \/ Assign(w) \/ Rebalance(w)
  BY <1>3 DEF Start, Crash, Leave, Assign, Rebalance, local
<1>4. CASE ConsumerStep(w)
  BY <1>4 DEF ConsumerStep, Poll, PollFails, PublishRaw, PublishRawNull,
     PublishRawFails, DlqUnhandled, DlqUnhandledFails, Commit, CommitNothing,
     CommitFails, Done, Leave
<1>5. CASE ClaimStep(w)
  BY <1>5 DEF ClaimStep, GetExistingFails, SkipFinal, DeferSend, GoClaim,
     MarkExpired, MarkExpiredFails, WakeAtSendAfter, ClaimInsert, ClaimUpdate,
     ClaimConflict, ClaimInsertFails, ClaimRefused, ClaimUpdateFails, Claimed,
     Done, Raise
<1>6. CASE RetryStep(w)
  BY <1>6 DEF RetryStep, BudgetSpent, AttemptOk, AttemptFails, AttemptAckLost,
     MarkSent, MarkSentFails, MarkFailure, MarkFailureFails, RetryWake,
     DlqFinal, DlqFinalFails, Done, Raise
<1>7. QED
  BY <1>1, <1>2, <1>3, <1>4, <1>5, <1>6, Frame
     DEF Next, WorkerStep, vars, local, Publish, Tick

(* No step changes the status of a finished job: an EXPIRED row may be     *)
(* written as EXPIRED again, the claim does not match, and nobody is left  *)
(* who could save another outcome.                                         *)
LEMMA FinishedStatusKept ==
  ASSUME Typed, [Next]_vars, NEW j \in Jobs, Finished(j)
  PROVE  rows'[j].status = rows[j].status
<1> USE DEF Typed, TypeOK, JobInHand, Handling, PC, Finished, Terminal, At
<1>1. CASE UNCHANGED rows
  BY <1>1
<1>2. ASSUME NEW w \in Workers, Save(w, "EXPIRED"), At(w, "mark_expired")
      PROVE  rows'[j].status = rows[j].status
  BY <1>2 DEF Save, SavedRow
<1>3. ASSUME NEW w \in Workers, MarkExpired(w) \/ MarkExpiredFails(w)
      PROVE  rows'[j].status = rows[j].status
  BY <1>1, <1>2, <1>3 DEF MarkExpired, MarkExpiredFails, SaveFails
<1>4. ASSUME NEW w \in Workers,
             \/ ClaimInsert(w) \/ ClaimInsertFails(w)
             \/ ClaimUpdate(w) \/ ClaimUpdateFails(w)
      PROVE  rows'[j].status = rows[j].status
  <2>1. InsertClaim(w) \/ UpdateClaim(w) \/ UNCHANGED rows
    BY <1>4 DEF ClaimInsert, ClaimInsertFails, ClaimUpdate, ClaimUpdateFails
  <2>2. QED
    BY <2>1 DEF InsertClaim, UpdateClaim, Claimable
<1>5. ASSUME NEW w \in Workers,
             \/ MarkSent(w) \/ MarkSentFails(w)
             \/ MarkFailure(w) \/ MarkFailureFails(w)
      PROVE  rows'[j].status = rows[j].status
  <2>1. pc[w] \in Handling /\ job[w] # j
    BY <1>5 DEF MarkSent, MarkSentFails, MarkFailure, MarkFailureFails
  <2>2. ASSUME NEW st, Save(w, st) PROVE rows'[j] = rows[j]
    BY <2>1, <2>2 DEF Save
  <2>3. \/ Save(w, "SENT") \/ Save(w, FailureStatus(attempts[w]))
        \/ UNCHANGED rows
    BY <1>5 DEF MarkSent, MarkSentFails, MarkFailure, MarkFailureFails,
       SaveFails
  <2>4. QED
    BY <2>2, <2>3
<1>6. QED
  BY <1>1, <1>3, <1>4, <1>5, RowSteps

(* Every step keeps a finished job finished, and does not send it.         *)
LEMMA FinishedStep ==
  ASSUME Typed, RowsConsistent, [Next]_vars, NEW j \in Jobs, Finished(j)
  PROVE  /\ Finished(j)'
         /\ rows'[j].status = rows[j].status
         /\ sends'[j] = sends[j]
<1>1. rows'[j].status = rows[j].status
  BY FinishedStatusKept
<1>2. sends'[j] = sends[j]
  <2>1. ASSUME NEW w \in Workers, AttemptOk(w) \/ AttemptAckLost(w)
        PROVE  sends'[j] = sends[j]
    BY <2>1 DEF AttemptOk, AttemptAckLost, At, Finished, Typed, TypeOK
  <2>2. QED
    BY <2>1, SendSteps
<1>3. ASSUME NEW w \in Workers, job'[w] = j
      PROVE  pc'[w] \notin Attempting
  <2>1. ~ (pc[w] \in Attempting /\ job[w] = j)
    BY DEF Finished, Attempting
  <2>2. ASSUME ClaimInsert(w) \/ ClaimUpdate(w) PROVE FALSE
    <3>1. job[w] = j
      BY <1>3, <2>2 DEF ClaimInsert, ClaimUpdate, Claimed
    <3>2. QED
      BY <2>2, <3>1 DEF ClaimInsert, ClaimUpdate, InsertClaim, UpdateClaim,
         Claimable, Finished, Terminal
  <2>3. QED
    BY <1>3, <2>1, <2>2, AttemptingEntered
<1>4. ASSUME NEW w \in Workers, job'[w] = j, pc'[w] = "mark_expired"
      PROVE  rows[j].status = "EXPIRED"
  <2>1. CASE pc[w] = "mark_expired" /\ job'[w] = job[w]
    BY <1>4, <2>1 DEF Finished
  <2>2. CASE FindExpired(w)
    BY <1>4, <2>2 DEF FindExpired, ShouldSkip, RowsConsistent, Finished,
       Terminal
  <2>3. QED
    BY <1>4, <2>1, <2>2, MarkExpiredEntered
<1>5. QED
  BY <1>1, <1>2, <1>3, <1>4 DEF Finished, Attempting

-----------------------------------------------------------------------------
(* The inductive invariant with a database that may fail.                  *)
SnapshotInv ==
  /\ Typed
  /\ SoleHandler
  /\ RowsConsistent
  /\ Snapshot

(* The inductive invariant with a database that answers.                   *)
FlightInv ==
  /\ SnapshotInv
  /\ WithinLimit
  /\ SendsCounted

(* The empty system satisfies both.                                        *)
LEMMA FlightInit == Init => FlightInv
<1> SUFFICES ASSUME Init PROVE FlightInv
  OBVIOUS
<1>1. Typed
  BY TypeInit
<1>2. SoleHandler /\ RowsConsistent /\ Snapshot
  BY DEF Init, SoleHandler, Handling, RowsConsistent, Snapshot, SnapshotRead,
     NoRow
<1>3. WithinLimit /\ SendsCounted
  BY RepositoryAssumption
     DEF Init, WithinLimit, SendsCounted, Unpersisted, Marking, NoRow
<1>4. QED
  BY <1>1, <1>2, <1>3 DEF FlightInv, SnapshotInv

(* Every step keeps the first.                                             *)
LEMMA SnapshotInvStep ==
  "rebalance" \notin Faults /\ SnapshotInv /\ [Next]_vars => SnapshotInv'
BY TypeStep, SoleHandlerStep, RowsConsistentStep, SnapshotStep DEF SnapshotInv

(* Every step keeps the second.                                            *)
LEMMA FlightStep ==
  /\ "rebalance" \notin Faults
  /\ "db" \notin Faults
  /\ FlightInv
  /\ [Next]_vars
  => FlightInv'
<1> SUFFICES ASSUME "rebalance" \notin Faults, "db" \notin Faults,
                    FlightInv, [Next]_vars
             PROVE  FlightInv'
  OBVIOUS
<1> USE DEF FlightInv, SnapshotInv
<1>1. SnapshotInv'
  BY SnapshotInvStep
<1>2. WithinLimit'
  BY WithinLimitStep
<1>3. SendsCounted'
  BY SendsCountedStep
<1>4. QED
  BY <1>1, <1>2, <1>3

-----------------------------------------------------------------------------
(* Whatever crashes, fails or is redelivered, and however many handlers    *)
(* rebalances let loose on one job: once its row is terminal and nobody    *)
(* who claimed it earlier is at work on it, the job keeps its outcome and  *)
(* is never sent again. The SELECT of _should_skip alone would not do, for *)
(* it is stale when the claim is made; the UPDATE's WHERE clause does.     *)
THEOREM FinishedStays == Spec => FinishedStaysFinished
<1> DEFINE Inv == Typed /\ RowsConsistent
<1>1. Init => Inv
  BY FlightInit DEF FlightInv, SnapshotInv
<1>2. Inv /\ [Next]_vars => Inv'
  BY TypeStep, RowsConsistentStep
<1>3. Inv /\ [Next]_vars =>
        \A j \in Jobs : Finished(j) =>
          /\ Finished(j)'
          /\ rows'[j].status = rows[j].status
          /\ sends'[j] = sends[j]
  BY FinishedStep
<1>4. QED
  BY <1>1, <1>2, <1>3, PTL DEF Spec, FinishedStaysFinished

(* Without forced rebalances the attempts column never goes down, although *)
(* handle_job reads it before the claim and save_status writes it back     *)
(* unconditionally; failing database calls do not break it, whether or not *)
(* the lost answer hid a commit.                                           *)
THEOREM AttemptsMonotonic ==
  ASSUME "rebalance" \notin Faults PROVE Spec => AttemptsNeverRegress
<1>1. Init => SnapshotInv
  BY FlightInit DEF FlightInv
<1>2. SnapshotInv /\ [Next]_vars => SnapshotInv'
  BY SnapshotInvStep
<1>3. SnapshotInv /\ [Next]_vars =>
        \A j \in Jobs : rows'[j].attempts >= rows[j].attempts
  BY AttemptsGrow DEF SnapshotInv
<1>4. QED
  BY <1>1, <1>2, <1>3, PTL DEF Spec, AttemptsNeverRegress

(* Without forced rebalances and database errors, the provider gets a job  *)
(* at most max_attempts times, plus once for every crash, for any number   *)
(* of redeliveries of the same message.                                    *)
THEOREM SendsBounded ==
  ASSUME "rebalance" \notin Faults, "db" \notin Faults
  PROVE  Spec => []SendsWithinBudget
<1>1. Init => FlightInv
  BY FlightInit
<1>2. FlightInv /\ [Next]_vars => FlightInv'
  BY FlightStep
<1>3. FlightInv => SendsWithinBudget
  <2> SUFFICES ASSUME FlightInv, NEW j \in Jobs
               PROVE  sends[j] <= MaxAttempts + disruptions
    BY DEF SendsWithinBudget
  <2> USE DEF FlightInv, SnapshotInv
  <2>1. /\ rows[j].attempts \in Nat
        /\ sends[j] \in Nat /\ disruptions \in Nat /\ MaxAttempts \in Nat
    BY RepositoryAssumption DEF Typed, TypeOK, Row
  <2>2. sends[j] <= rows[j].attempts + disruptions + Unpersisted(j)
    BY DEF SendsCounted
  <2>3. rows[j].attempts + Unpersisted(j) <= MaxAttempts
    <3>1. CASE \E w \in Workers : pc[w] \in Marking /\ job[w] = j
      BY <2>1, <3>1 DEF Unpersisted, WithinLimit, Typed, TypeOK
    <3>2. CASE ~ \E w \in Workers : pc[w] \in Marking /\ job[w] = j
      BY <2>1, <3>2 DEF Unpersisted, WithinLimit
    <3>3. QED
      BY <3>1, <3>2
  <2>4. Unpersisted(j) \in Nat
    BY DEF Unpersisted
  <2>5. QED
    BY <2>1, <2>2, <2>3, <2>4
<1>4. QED
  BY <1>1, <1>2, <1>3, PTL DEF Spec

=============================================================================
