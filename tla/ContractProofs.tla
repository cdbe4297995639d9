--------------------------- MODULE ContractProofs ---------------------------
(***************************************************************************)
(* The worker fleet implements its delivery contract, and what a commit    *)
(* covers has left a trace, for every value of the constants.              *)
(*                                                                         *)
(* The refinement follows the usual pattern: the initial states map to the *)
(* contract's initial state, and under the inductive invariant IInv of     *)
(* WorkerProofs every step maps to one step of the contract or to none     *)
(* (ContractStep). A step that moves the committed offset is an Ack of the *)
(* messages below it (AckSteps). Any other step works on one job only      *)
(* (Frame, StageKept), and that job's stage moves along an edge of the     *)
(* contract (StageMoves, JobMoves).                                        *)
(***************************************************************************)
EXTENDS WorkerProofs

-----------------------------------------------------------------------------
(* The stage of a job that the stepping worker has not in hand does not    *)
(* move.                                                                   *)
LEMMA StageKept ==
  ASSUME Typed, NEW w \in Workers, OnlyTouches(w), NEW j \in Jobs, j # job[w]
  PROVE  UNCHANGED StageOf(j)
<1>1. \A v \in Workers : Working(v, j)' <=> Working(v, j)
  BY DEF OnlyTouches, Working, Engaged
<1>2. UNCHANGED <<rows[j], sends[j], j \in dlq, j \in orphans>>
  BY DEF OnlyTouches
<1>3. QED
  BY <1>1, <1>2 DEF StageOf

(* Only an attempt reaches the provider.                                   *)
LEMMA SendSteps ==
  ASSUME [Next]_vars
  PROVE  \/ UNCHANGED sends
         \/ \E w \in Workers : AttemptOk(w) \/ AttemptAckLost(w)
  BY DEF Next, WorkerStep, ConsumerStep, ClaimStep, RetryStep, vars, store,
     Publish, Tick, Start, Crash, Assign, Rebalance, Poll, PollFails,
     PublishRaw, PublishRawNull, PublishRawFails, DlqUnhandled,
     DlqUnhandledFails, Commit, CommitNothing, CommitFails, GetExistingFails,
     SkipFinal, FindExpired, DeferSend, GoClaim, MarkExpired, MarkExpiredFails,
     WakeAtSendAfter, ClaimInsert, ClaimConflict, ClaimInsertFails,
     ClaimUpdate, ClaimUpdateFails, ClaimRefused, BudgetSpent, AttemptFails,
     RetryWake, DlqFinal, DlqFinalFails, MarkSent, MarkSentFails, MarkFailure,
     MarkFailureFails

(* Neither a DLQ record nor an acceptance by the provider is ever taken    *)
(* back.                                                                   *)
LEMMA SettledStays ==
  ASSUME Typed, [Next]_vars
  PROVE  /\ dlq \subseteq dlq'
         /\ \A j \in Jobs : sends'[j] >= sends[j]
<1> USE DEF Typed, TypeOK
<1>1. dlq \subseteq dlq'
  BY DEF Next, WorkerStep, ConsumerStep, ClaimStep, RetryStep, vars, store,
     Publish, Tick, Start, Crash, Assign, Rebalance, Poll, PollFails,
     PublishRaw, PublishRawNull, PublishRawFails, DlqUnhandled,
     DlqUnhandledFails, Commit, CommitNothing, CommitFails, GetExistingFails,
     SkipFinal, FindExpired, DeferSend, GoClaim, MarkExpired, MarkExpiredFails,
     WakeAtSendAfter, ClaimInsert, ClaimConflict, ClaimInsertFails,
     ClaimUpdate, ClaimUpdateFails, ClaimRefused, BudgetSpent, AttemptOk,
     AttemptFails, AttemptAckLost, RetryWake, DlqFinal, DlqFinalFails,
     MarkSent, MarkSentFails, MarkFailure, MarkFailureFails, DlqSendFails
<1>2. QED
  BY <1>1, SendSteps DEF AttemptOk, AttemptAckLost

(* The row of j exists and is EXPIRED, or the provider took j, or a worker *)
(* has j in its hands.                                                     *)
Held(j) ==
  /\ rows[j].status # "ABSENT"
  /\ \/ rows[j].status = "EXPIRED"
     \/ sends[j] > 0
     \/ \E w \in Workers : Working(w, j)

(* Whoever writes a row of notification_delivery marks it EXPIRED, records *)
(* a send that the provider has accepted, or has claimed the job and still *)
(* has it in hand after the write, the failed writes included.             *)
LEMMA WriterHolds ==
  ASSUME Typed, Accepted, [Next]_vars, NEW j \in Jobs, rows'[j] # rows[j]
  PROVE  Held(j)'
<1> Typed'
  BY TypeStep
<1> USE DEF Typed, TypeOK, JobInHand, Handling, PC, Row, Accepted, Held,
       Working, Engaged, broker, store, local, env
<1>1. ASSUME NEW w \in Workers, MarkExpired(w) PROVE Held(j)'
  BY <1>1 DEF MarkExpired, Done, At, Goto, Save, SavedRow
<1>2. ASSUME NEW w \in Workers, MarkExpiredFails(w) PROVE Held(j)'
  <2>1. CASE Save(w, "EXPIRED")
    BY <1>2, <2>1 DEF MarkExpiredFails, Raise, At, Goto, Save, SavedRow
  <2>2. CASE UNCHANGED rows
    BY <1>2, <2>2 DEF MarkExpiredFails, Raise, At, Goto
  <2>3. QED
    BY <1>2, <2>1, <2>2 DEF MarkExpiredFails, SaveFails
<1>3. ASSUME NEW w \in Workers, ClaimInsert(w) PROVE Held(j)'
  BY <1>3 DEF ClaimInsert, Claimed, At, Goto, InsertClaim, ClaimInsertedRow
<1>4. ASSUME NEW w \in Workers, ClaimInsertFails(w) PROVE Held(j)'
  <2>1. CASE InsertClaim(w)
    BY <1>4, <2>1 DEF ClaimInsertFails, Raise, At, Goto, InsertClaim,
       ClaimInsertedRow
  <2>2. CASE UNCHANGED rows
    BY <1>4, <2>2 DEF ClaimInsertFails, Raise, At, Goto
  <2>3. QED
    BY <1>4, <2>1, <2>2 DEF ClaimInsertFails
<1>5. ASSUME NEW w \in Workers, ClaimUpdate(w) PROVE Held(j)'
  BY <1>5 DEF ClaimUpdate, Claimed, At, Goto, UpdateClaim, ClaimUpdatedRow
<1>6. ASSUME NEW w \in Workers, ClaimUpdateFails(w) PROVE Held(j)'
  <2>1. CASE UpdateClaim(w)
    BY <1>6, <2>1 DEF ClaimUpdateFails, Raise, At, Goto, UpdateClaim,
       ClaimUpdatedRow
  <2>2. CASE UNCHANGED rows
    BY <1>6, <2>2 DEF ClaimUpdateFails, Raise, At, Goto
  <2>3. QED
    BY <1>6, <2>1, <2>2 DEF ClaimUpdateFails
<1>7. ASSUME NEW w \in Workers, MarkSent(w) PROVE Held(j)'
  BY <1>7 DEF MarkSent, Done, At, Goto, Save, SavedRow
<1>8. ASSUME NEW w \in Workers, MarkSentFails(w) PROVE Held(j)'
  <2>1. CASE Save(w, "SENT")
    BY <1>8, <2>1 DEF MarkSentFails, At, Goto, Save, SavedRow
  <2>2. CASE UNCHANGED rows
    BY <1>8, <2>2 DEF MarkSentFails, At, Goto
  <2>3. QED
    BY <1>8, <2>1, <2>2 DEF MarkSentFails, SaveFails
<1>9. ASSUME NEW w \in Workers, MarkFailure(w) PROVE Held(j)'
  BY <1>9 DEF MarkFailure, At, Goto, Save, SavedRow, FailureStatus
<1>10. ASSUME NEW w \in Workers, MarkFailureFails(w) PROVE Held(j)'
  <2>1. CASE Save(w, FailureStatus(attempts[w]))
    BY <1>10, <2>1 DEF MarkFailureFails, Raise, At, Goto, Save, SavedRow,
       FailureStatus
  <2>2. CASE UNCHANGED rows
    BY <1>10, <2>2 DEF MarkFailureFails, Raise, At, Goto, FailureStatus
  <2>3. QED
    BY <1>10, <2>1, <2>2 DEF MarkFailureFails, SaveFails
<1>11. QED
  BY <1>1, <1>2, <1>3, <1>4, <1>5, <1>6, <1>7, <1>8, <1>9, <1>10, RowSteps

(* How the stage of a job may move: never to "dropped", never out of       *)
(* "settled", never back to "new", and to "orphaned" only from a worker's  *)
(* hands.                                                                  *)
LEMMA StageMoves ==
  ASSUME Typed, Accepted, RowsHandled, RowsHandled', [Next]_vars,
         NEW j \in Jobs
  PROVE  /\ {StageOf(j), StageOf(j)'} \subseteq
              {"new", "open", "expired", "orphaned", "settled"}
         /\ StageOf(j) = "settled" => StageOf(j)' = "settled"
         /\ StageOf(j) # "new" => StageOf(j)' # "new"
         /\ StageOf(j)' = "orphaned" => StageOf(j) \in {"open", "orphaned"}
<1> USE DEF Typed, TypeOK
<1>0. Typed'
  BY TypeStep
<1>1. (j \in dlq => j \in dlq') /\ sends'[j] >= sends[j]
  BY SettledStays
<1>2. rows'[j] = rows[j] \/ Held(j)'
  BY WriterHolds
<1>3. StageOf(j) \in {"new", "open", "expired", "orphaned", "settled"}
  BY DEF StageOf, RowsHandled, Handled, Resolved
<1>4. StageOf(j)' \in {"new", "open", "expired", "orphaned", "settled"}
  BY <1>0 DEF StageOf, RowsHandled, Handled, Resolved
<1>5. StageOf(j) = "settled" => StageOf(j)' = "settled"
  BY <1>0, <1>1 DEF StageOf
<1>6. StageOf(j) # "new" => StageOf(j)' # "new"
  BY <1>0, <1>1, <1>2 DEF StageOf, Held
<1>7. StageOf(j)' = "orphaned" => StageOf(j) \in {"open", "orphaned"}
  BY <1>0, <1>1, <1>2, <1>3 DEF StageOf, Held
<1>8. QED
  BY <1>3, <1>4, <1>5, <1>6, <1>7

-----------------------------------------------------------------------------
(* The refinement mapping, by its parts.                                   *)
stageBar == [j \in Jobs |-> StageOf(j)]

(* The messages below the group's committed offset.                        *)
ackedBar == {log[o] : o \in 1..committed}

(* A step that moves the stage of one job k, and commits nothing, is a     *)
(* step of the contract for k.                                             *)
LEMMA JobMoves ==
  ASSUME Typed, Accepted, RowsHandled, RowsHandled', [Next]_vars,
         NEW k \in Jobs,
         \A j \in Jobs \ {k} : UNCHANGED StageOf(j),
         UNCHANGED ackedBar
  PROVE  UNCHANGED <<stageBar, ackedBar>> \/ Contract!JobStep(k)
<1> DEFINE s == StageOf(k)
           t == StageOf(k)'
<1>1. stageBar' = [stageBar EXCEPT ![k] = t]
  BY DEF stageBar
<1>2. stageBar[k] = s
  BY DEF stageBar
<1>3. /\ {s, t} \subseteq {"new", "open", "expired", "orphaned", "settled"}
      /\ s = "settled" => t = "settled"
      /\ s # "new" => t # "new"
      /\ t = "orphaned" => s \in {"open", "orphaned"}
  BY StageMoves
<1> HIDE DEF s, t
<1>4. CASE s = t
  BY <1>1, <1>2, <1>4 DEF stageBar
<1>5. CASE s # t
  BY <1>1, <1>2, <1>3, <1>5
     DEF Contract!JobStep, Contract!Take, Contract!Settle, Contract!Expire,
         Contract!Abandon, Contract!Move, stageBar, ackedBar
<1>6. QED
  BY <1>4, <1>5

(* A step that moves the committed offset is an Ack: commit() commits the  *)
(* position, and everything below the position has been taken, the message *)
(* just handled included.                                                  *)
LEMMA AckSteps ==
  ASSUME IInv, [Next]_vars, committed' # committed
  PROVE  UNCHANGED stageBar /\ \E S \in SUBSET Jobs : Contract!Ack(S)
<1>1. PICK w \in Workers : owner = w /\ (Commit(w) \/ CommitFails(w))
  <2>1. ASSUME NEW w \in Workers, Commit(w) \/ CommitFails(w)
        PROVE  owner = w
    BY <2>1 DEF Commit, CommitFails
  <2>2. \E w \in Workers : Commit(w) \/ CommitFails(w)
    BY BrokerSteps, Zenon DEF broker, Publish, Assign, Rebalance, Poll
  <2>3. QED
    BY <2>1, <2>2
<1> USE DEF IInv, Typed, TypeOK
<1>2. /\ At(w, "commit")
      /\ owner = w
      /\ committed' = position
      /\ log' = log
  BY <1>1 DEF Commit, CommitFails, Leave
<1>3. \A j \in Jobs : UNCHANGED StageOf(j)
  <2> SUFFICES ASSUME NEW j \in Jobs PROVE UNCHANGED StageOf(j)
    OBVIOUS
  <2>1. UNCHANGED <<rows, sends, dlq, orphans>>
    BY <1>1 DEF Commit, CommitFails, Leave, Working, Engaged, At, store, env
  <2>2. \A v \in Workers : Working(v, j)' <=> Working(v, j)
    BY <1>1 DEF Commit, CommitFails, Leave, Working, Engaged, At, Goto
  <2>3. QED
    BY <2>1, <2>2 DEF StageOf
<1>4. UNCHANGED stageBar
  BY <1>3 DEF stageBar
<1>5. PICK S : S = ackedBar'
  OBVIOUS
<1>6. S \in SUBSET Jobs /\ ackedBar \subseteq S
  BY <1>2, <1>5, WorkerAssumption DEF ackedBar, OffsetsOrdered
<1>7. ASSUME NEW j \in S PROVE stageBar[j] # "new"
  <2>1. PICK o \in 1..position : j = log[o]
    BY <1>2, <1>5 DEF ackedBar
  <2>2. Handled(j)
    BY <1>2, <2>1, WorkerAssumption DEF PositionHandled, CommitHandled
  <2>3. QED
    BY <1>6, <2>2 DEF Handled, Resolved, StageOf, stageBar
<1>8. Contract!Ack(S)
  BY <1>4, <1>5, <1>6, <1>7 DEF Contract!Ack, ackedBar, stageBar
<1>9. QED
  BY <1>4, <1>6, <1>8

(* A step that commits nothing acknowledges nothing: published messages    *)
(* stay at their offsets.                                                  *)
LEMMA LogKeptAcked ==
  ASSUME Typed, OffsetsOrdered, [Next]_vars, UNCHANGED committed
  PROVE  UNCHANGED ackedBar
<1>1. \A o \in 1..committed : o \in 1..Len(log) /\ log'[o] = log[o]
  BY LogKept DEF OffsetsOrdered, Typed, TypeOK, NoOffset
<1>2. QED
  BY <1>1 DEF ackedBar

(* Every step of the fleet is a step of the contract or leaves it alone.   *)
LEMMA ContractStep ==
  ASSUME IInv, IInv', [Next]_vars
  PROVE  [Contract!Next]_<<stageBar, ackedBar>>
<1>1. CASE committed' # committed
  BY <1>1, AckSteps DEF Contract!Next
<1>2. CASE committed' = committed
  <2>1. UNCHANGED ackedBar
    BY <1>2, LogKeptAcked DEF IInv
  <2>2. CASE UNCHANGED <<pc, job, rows, sends, dlq, orphans>>
    <3>1. \A j \in Jobs : UNCHANGED StageOf(j)
      BY <2>2 DEF StageOf, Working
    <3>2. QED
      BY <2>1, <3>1 DEF stageBar
  <2>3. ASSUME NEW w \in Workers, OnlyTouches(w), job[w] \in Jobs
        PROVE  [Contract!Next]_<<stageBar, ackedBar>>
    <3>1. \A j \in Jobs \ {job[w]} : UNCHANGED StageOf(j)
      BY <2>3, StageKept DEF IInv
    <3>2. UNCHANGED <<stageBar, ackedBar>> \/ Contract!JobStep(job[w])
      BY <2>1, <2>3, <3>1, JobMoves DEF IInv
    <3>3. QED
      BY <2>3, <3>2 DEF Contract!Next
  <2>4. ASSUME NEW w \in Workers, OnlyTouches(w), job[w] \notin Jobs
        PROVE  [Contract!Next]_<<stageBar, ackedBar>>
    <3>1. \A j \in Jobs : UNCHANGED StageOf(j)
      BY <2>4, StageKept DEF IInv
    <3>2. QED
      BY <2>1, <3>1 DEF stageBar
  <2>5. QED
    BY <2>2, <2>3, <2>4, Frame
       DEF IInv, Next, vars, broker, store, local, env, Publish, Tick
<1>3. QED
  BY <1>1, <1>2

-----------------------------------------------------------------------------
(* The worker fleet (consumer, job processor, retry engine, status writer  *)
(* and DLQ publisher, any number of processes) implements DeliveryContract *)
(* under crashes, rebalances and failures of the database, Kafka and the   *)
(* provider: a job is taken before it is committed, what is delivered or   *)
(* dead-lettered stays so, and a job leaves a worker's hands only with an  *)
(* outcome or with the worker's death. (max_attempts at least 1, a group   *)
(* with a committed offset.)                                               *)
THEOREM ImplementsDelivery ==
  ASSUME MaxAttempts > 0, FreshGroup = FALSE
  PROVE  Spec => ImplementsContract
<1>1. Init => IInv /\ Contract!Init
  <2> SUFFICES ASSUME Init PROVE IInv /\ Contract!Init
    OBVIOUS
  <2>1. IInv
    BY IInvInit
  <2>2. \A j \in Jobs : StageOf(j) = "new"
    BY DEF Init, StageOf, NoRow
  <2>3. ackedBar = {}
    BY DEF Init, ackedBar
  <2>4. QED
    BY <2>1, <2>2, <2>3 DEF Contract!Init, ackedBar
<1>2. IInv /\ [Next]_vars => IInv' /\ [Contract!Next]_<<stageBar, ackedBar>>
  <2> SUFFICES ASSUME IInv, [Next]_vars
               PROVE  IInv' /\ [Contract!Next]_<<stageBar, ackedBar>>
    OBVIOUS
  <2>1. IInv'
    BY IInvStep
  <2>2. QED
    BY <2>1, ContractStep
<1>3. QED
  BY <1>1, <1>2, PTL
     DEF Spec, ImplementsContract, Contract!Spec, stageBar, ackedBar

-----------------------------------------------------------------------------
(* When handle_job has returned, its message has a row or a DLQ record.    *)
CommitTraced == \A w \in Workers : At(w, "commit") => Traced(job[w])

(* So has everything that was handed out since the committed offset,       *)
(* except perhaps the last message, which the owner still has in hand.     *)
PositionTraced ==
  owner # NoWorker /\ committed # NoOffset =>
    \A o \in (committed + 1)..position :
      \/ Traced(log[o])
      \/ o = position /\ pc[owner] \in Handling /\ job[owner] = log[o]

(* The inductive invariant behind CommitLeavesTrace: unlike IInv it asks   *)
(* nothing of max_attempts, and of the group only that the offset exists   *)
(* when something is committed over it.                                    *)
TraceInv ==
  /\ Typed
  /\ OffsetsOrdered
  /\ Accepted
  /\ HasRow
  /\ CommitTraced
  /\ PositionTraced

(* Rows are never deleted and the DLQ is append-only.                      *)
LEMMA TracedStays ==
  ASSUME Typed, Accepted, [Next]_vars, NEW j \in Jobs, Traced(j)
  PROVE  Traced(j)'
<1>1. j \in dlq => j \in dlq'
  BY SettledStays
<1>2. rows'[j] = rows[j] \/ Held(j)'
  BY WriterHolds
<1>3. QED
  BY <1>1, <1>2 DEF Traced, Held

(* Every return of handle_job leaves a trace: the skip, the refused claim  *)
(* and the spent budget rest on a row that is there.                       *)
LEMMA CommitTracedStep ==
  ASSUME Typed, Accepted, HasRow, CommitTraced, [Next]_vars
  PROVE  CommitTraced'
<1> SUFFICES ASSUME NEW w \in Workers, At(w, "commit")'
             PROVE  Traced(job[w])'
  BY DEF CommitTraced
<1> USE DEF Typed, TypeOK, JobInHand, Handling, PC, Row, Traced
<1>1. CASE At(w, "commit") /\ UNCHANGED job[w]
  BY <1>1, TracedStays DEF CommitTraced, At
<1>2. CASE PublishRaw(w)
  BY <1>2 DEF PublishRaw, Done
<1>3. CASE DlqUnhandled(w)
  BY <1>3 DEF DlqUnhandled, Done
<1>4. CASE SkipFinal(w)
  BY <1>4 DEF SkipFinal, Done, ShouldSkip, store
<1>5. CASE MarkExpired(w)
  BY <1>5 DEF MarkExpired, Save, SavedRow, Done, At
<1>6. CASE ClaimRefused(w)
  BY <1>6 DEF ClaimRefused, Done, At, HasRow, Rowed, store
<1>7. CASE BudgetSpent(w)
  BY <1>7 DEF BudgetSpent, Done, At, HasRow, Rowed, store
<1>8. CASE MarkSent(w)
  BY <1>8 DEF MarkSent, Save, SavedRow, Done, At
<1>9. CASE DlqFinal(w)
  BY <1>9 DEF DlqFinal, Done
<1>10. QED
  BY <1>1, <1>2, <1>3, <1>4, <1>5, <1>6, <1>7, <1>8, <1>9, DoneSteps

(* Assignments start at the committed offset, and the owner polls the next *)
(* message only when it has none in hand.                                  *)
LEMMA PositionTracedStep ==
  ASSUME TraceInv, [Next]_vars
  PROVE  PositionTraced'
<1> USE DEF TraceInv
<1> SUFFICES ASSUME (owner # NoWorker)', (committed # NoOffset)',
                    NEW o \in (committed' + 1)..position'
             PROVE  \/ Traced(log[o])'
                    \/ /\ o = position'
                       /\ (pc[owner])' \in Handling
                       /\ (job[owner] = log[o])'
  BY DEF PositionTraced
<1>0. ASSUME o \in 1..Len(log), Traced(log[o]) PROVE Traced(log[o])'
  <2>1. log[o] \in Jobs /\ log'[o] = log[o]
    BY <1>0, LogKept
  <2>2. Traced(log[o]) => Traced(log[o])'
    <3> DEFINE j == log[o]
    <3>1. j \in Jobs /\ Traced(j)
      BY <1>0, <2>1
    <3> HIDE DEF j
    <3>2. rows'[j].status # "ABSENT" \/ j \in dlq'
      BY <3>1, TracedStays DEF Traced
    <3>3. QED
      BY <2>1, <3>2 DEF Traced, j
  <2>3. QED
    BY <1>0, <2>2
<1>1. ASSUME owner' = owner, position' = position, committed' = committed
      PROVE  \/ Traced(log[o])'
             \/ /\ o = position'
                /\ (pc[owner])' \in Handling
                /\ (job[owner] = log[o])'
  <2>1. o \in (committed + 1)..position /\ o \in 1..Len(log)
    BY <1>1 DEF OffsetsOrdered, Typed, TypeOK, NoOffset
  <2>2. CASE Traced(log[o])
    BY <1>0, <2>1, <2>2
  <2>3. CASE o = position /\ pc[owner] \in Handling /\ job[owner] = log[o]
    <3>1. owner \in Workers /\ owner' = owner
      BY <1>1 DEF Typed, TypeOK
    <3>2. \/ pc'[owner] \in Handling /\ job'[owner] = job[owner]
          \/ At(owner, "commit")
      BY <2>3, <3>1, InHandStep
    <3>3. CASE At(owner, "commit")
      BY <1>0, <2>1, <2>3, <3>1, <3>3 DEF CommitTraced
    <3>4. log'[o] = log[o]
      BY <2>1, LogKept
    <3>5. QED
      BY <1>1, <2>3, <3>1, <3>2, <3>3, <3>4
  <2>4. QED
    BY <1>1, <2>1, <2>2, <2>3 DEF PositionTraced
<1>2. ASSUME NEW w \in Workers, Assign(w) \/ Rebalance(w) PROVE FALSE
  BY <1>2 DEF Assign, Rebalance, StartPosition, Typed, TypeOK, NoOffset
<1>3. ASSUME NEW w \in Workers, Poll(w)
      PROVE  \/ Traced(log[o])'
             \/ /\ o = position'
                /\ (pc[owner])' \in Handling
                /\ (job[owner] = log[o])'
  <2>1. CASE o = position + 1
    BY <1>3, <2>1 DEF Poll, Goto, Handling, PC, Typed, TypeOK
  <2>2. CASE o # position + 1
    <3>1. o \in (committed + 1)..position /\ o \in 1..Len(log)
      BY <1>3, <2>2 DEF Poll, OffsetsOrdered, Typed, TypeOK, NoOffset
    <3>2. Traced(log[o])
      BY <1>3, <3>1, WorkerAssumption DEF Poll, At, Handling, PositionTraced
    <3>3. QED
      BY <1>0, <3>1, <3>2
  <2>3. QED
    BY <2>1, <2>2
<1>4. ASSUME committed' = position, position' = position PROVE FALSE
  BY <1>4 DEF Typed, TypeOK
<1>5. QED
  BY <1>1, <1>2, <1>3, <1>4, BrokerSteps
     DEF broker, Publish, Commit, CommitFails, Leave

(* For every max_attempts, 0 included, and also for a group that starts    *)
(* without an offset: once the group has an offset, _commit_message covers *)
(* only messages that have a row in notification_delivery or a record in   *)
(* the DLQ.                                                                *)
THEOREM CommitsTraced == Spec => CommitLeavesTrace
<1>1. Init => TraceInv
  <2> SUFFICES ASSUME Init PROVE TraceInv
    OBVIOUS
  <2>1. Typed
    BY TypeInit
  <2>2. OffsetsOrdered
    BY WorkerAssumption DEF Init, OffsetsOrdered, NoOffset
  <2>3. Accepted /\ HasRow /\ CommitTraced /\ PositionTraced
    BY DEF Init, Accepted, SentWasAccepted, HasRow, Rowed, CommitTraced,
       PositionTraced, At, NoRow
  <2>4. QED
    BY <2>1, <2>2, <2>3 DEF TraceInv
<1>2. TraceInv /\ [Next]_vars => TraceInv'
  BY TypeStep, OffsetsStep, AcceptedStep, RowStep, CommitTracedStep,
     PositionTracedStep DEF TraceInv
<1>3. TraceInv /\ [Next]_vars =>
        (committed # NoOffset =>
           \A o \in (committed + 1)..committed' : Traced(log[o]))
  <2> SUFFICES ASSUME TraceInv, [Next]_vars, committed # NoOffset,
                      NEW o \in (committed + 1)..committed'
               PROVE  Traced(log[o])
    OBVIOUS
  <2>1. \/ committed' = committed
        \/ \E w \in Workers : /\ At(w, "commit")
                              /\ owner = w
                              /\ committed' = position
    BY BrokerSteps DEF broker, Publish, Assign, Rebalance, Poll, Commit,
       CommitFails
  <2>2. QED
    BY <2>1, WorkerAssumption DEF TraceInv, PositionTraced, CommitTraced,
       Typed, TypeOK, NoOffset
<1>4. QED
  BY <1>1, <1>2, <1>3, PTL DEF Spec, CommitLeavesTrace

=============================================================================
