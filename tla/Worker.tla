------------------------------- MODULE Worker -------------------------------
(***************************************************************************)
(* The notification worker: KafkaNotificationConsumer, JobProcessor, the   *)
(* retry engine, the status writer and the DLQ publisher, run by several   *)
(* worker processes over one partition of notifications.outbox, one        *)
(* notification_delivery table and one mail provider.                      *)
(*                                                                         *)
(* A worker handles one message at a time.  Its control point pc[w] names  *)
(* the await the handler stands at, so every point where another process,  *)
(* a crash or a fault can come between is a state of its own.  Everything  *)
(* between two awaits is one step.                                         *)
(*                                                                         *)
(* A call that raises may or may not have taken effect before the error    *)
(* reached the caller: the ...Fails actions leave that open.               *)
(***************************************************************************)
EXTENDS DeliveryRepository, Sequences

CONSTANTS
  Workers,         \* worker processes of the consumer group
  NoWorker,        \* "the partition is assigned to nobody"
  Jobs,            \* distinct messages; equal messages are redeliveries
  NoJob,           \* "no message in hand"
  Valid,           \* the messages that parse and validate as NotificationJob
  Null,            \* the messages whose value is null
  ExpiresAt,       \* job.expires_at, NoTime when it is None
  SendAfter,       \* job.send_after, NoTime when it is None
  MaxSendDelay,    \* settings.max_send_delay_seconds, in ticks
  FreshGroup,      \* the consumer group has no committed offset yet
  Faults,          \* the faults the environment may inject
  MaxLog,          \* bound: messages ever published to the outbox
  MaxNow,          \* bound: last tick of the clock
  MaxDisruptions   \* bound: crashes and forced rebalances

ASSUME WorkerAssumption ==
  /\ NoWorker \notin Workers
  /\ NoJob \notin Jobs
  /\ Valid \subseteq Jobs
  /\ Null \subseteq Jobs \ Valid
  /\ ExpiresAt \in [Jobs -> Nat \cup {NoTime}]
  /\ SendAfter \in [Jobs -> Nat \cup {NoTime}]
  /\ MaxSendDelay \in Nat
  /\ FreshGroup \in BOOLEAN
  /\ Faults \subseteq {"crash", "rebalance", "db", "kafka", "smtp"}
  /\ {MaxLog, MaxNow, MaxDisruptions} \subseteq Nat

VARIABLES
  log,          \* the outbox partition
  committed,    \* the group's committed offset, NoOffset if there is none
  owner,        \* the worker the partition is assigned to
  position,     \* the owner's consumer position: messages handed to its loop
  rows,         \* the notification_delivery table
  dlq,          \* what the DLQ topic holds
  sends,        \* how often the provider has accepted each job
  pc,           \* the await each worker's consumer task stands at
  job,          \* the message it handles
  attempts,     \* `attempts` of handle_job and attempt_with_retries
  timer,        \* at send_after the time to wake; at claim_* try_claim's `now`
  now,          \* the clock (all hosts and Postgres agree on it)
  disruptions,  \* crashes and forced rebalances so far
  orphans       \* history: jobs with a row whose handler died over them

broker == <<log, committed, owner, position>>
store  == <<rows, dlq, sends>>
local  == <<pc, job, attempts, timer>>
env    == <<now, disruptions, orphans>>
vars   == <<broker, store, local, env>>

NoOffset == -1

PC == {"down", "poll", "publish_raw", "get_existing", "mark_expired",
       "send_after", "claim_insert", "claim_update", "attempt", "mark_sent",
       "mark_failure", "retry_sleep", "dlq_final", "dlq_unhandled", "commit",
       "stopped"}

(* The handler has claimed the job, or is reporting that it blew up on it. *)
Engaged == {"attempt", "mark_sent", "mark_failure", "retry_sleep",
            "dlq_final", "dlq_unhandled"}

Live(w)       == pc[w] \notin {"down", "stopped"}
Working(w, j) == pc[w] \in Engaged /\ job[w] = j

Expired(j) == ExpiresAt[j] # NoTime /\ now > ExpiresAt[j]
Defers(j)  == SendAfter[j] > now /\ MaxSendDelay > 0
Earlier(a, b) == IF a < b THEN a ELSE b

-----------------------------------------------------------------------------
Init ==
  /\ log = <<>>
  /\ committed = IF FreshGroup THEN NoOffset ELSE 0
  /\ owner = NoWorker
  /\ position = 0
  /\ rows = [j \in Jobs |-> NoRow]
  /\ dlq = {}
  /\ sends = [j \in Jobs |-> 0]
  /\ pc = [w \in Workers |-> "down"]
  /\ job = [w \in Workers |-> NoJob]
  /\ attempts = [w \in Workers |-> 0]
  /\ timer = [w \in Workers |-> NoTime]
  /\ now = 1
  /\ disruptions = 0
  /\ orphans = {}

-----------------------------------------------------------------------------
(* Shapes shared by the steps of a handler.                                *)

At(w, l)   == pc[w] = l
Goto(w, l) == pc' = [pc EXCEPT ![w] = l]

(* handle_job (or the DLQ fallback around it) has returned: commit next.   *)
Done(w) ==
  /\ Goto(w, "commit")
  /\ attempts' = [attempts EXCEPT ![w] = 0]
  /\ timer' = [timer EXCEPT ![w] = NoTime]
  /\ UNCHANGED job

(* Mutant of Raise: the error is swallowed and nothing goes to the DLQ.    *)
RaiseSwallowed(w) == Done(w)

(* handle_job has raised: _handle_message goes to its except branch.       *)
Raise(w) ==
  /\ Goto(w, "dlq_unhandled")
  /\ attempts' = [attempts EXCEPT ![w] = 0]
  /\ timer' = [timer EXCEPT ![w] = NoTime]
  /\ UNCHANGED job

(* The consumer task of w ends in state l, whatever it was doing: the      *)
(* message in hand is dropped uncommitted and the partition is given up.   *)
Leave(w, l) ==
  /\ Goto(w, l)
  /\ job' = [job EXCEPT ![w] = NoJob]
  /\ attempts' = [attempts EXCEPT ![w] = 0]
  /\ timer' = [timer EXCEPT ![w] = NoTime]
  /\ owner' = IF owner = w THEN NoWorker ELSE owner
  /\ orphans' = orphans \cup
       {j \in Jobs : Working(w, j) /\ rows[j].status # "ABSENT"}
  /\ UNCHANGED <<log, position>>

Save(w, status) ==
  rows' = [rows EXCEPT ![job[w]] = SavedRow(status, attempts[w])]

(* save_status raised: the upsert was applied, or it was not.              *)
SaveFails(w, status) ==
  /\ "db" \in Faults
  /\ Save(w, status) \/ UNCHANGED rows

(* send_and_wait raised: the record is in the topic, or it is not.         *)
DlqSendFails(w) ==
  /\ "kafka" \in Faults
  /\ dlq' \in {dlq, dlq \cup {job[w]}}

-----------------------------------------------------------------------------
(* The environment: producers, the clock, processes and the group.         *)

(* A producer appends a message; the same message may be appended again.   *)
Publish(j) ==
  /\ Len(log) < MaxLog
  /\ log' = Append(log, j)
  /\ UNCHANGED <<committed, owner, position, store, local, env>>

Tick ==
  /\ now < MaxNow
  /\ now' = now + 1
  /\ UNCHANGED <<broker, store, local, disruptions, orphans>>

(* worker.main.app: dependencies are up, the consumer task starts.         *)
Start(w) ==
  /\ At(w, "down")
  /\ Goto(w, "poll")
  /\ UNCHANGED <<broker, store, job, attempts, timer, env>>

(* SIGTERM, which cancels the consumer task at whatever await it stands,   *)
(* or the death of the process.                                            *)
Crash(w) ==
  /\ "crash" \in Faults
  /\ disruptions < MaxDisruptions
  /\ ~At(w, "down")
  /\ disruptions' = disruptions + 1
  /\ Leave(w, "down")
  /\ UNCHANGED <<committed, store, now>>

(* Where a newly assigned consumer reads on: the committed offset, or the  *)
(* end of the log under auto_offset_reset="latest".                        *)
StartPosition == IF committed = NoOffset THEN Len(log) ELSE committed

Assign(w) ==
  /\ owner = NoWorker
  /\ Live(w)
  /\ owner' = w
  /\ position' = StartPosition
  /\ UNCHANGED <<log, committed, store, local, env>>

(* The coordinator moves the partition although its owner is alive: a      *)
(* worker joined, or the owner has not polled for max_poll_interval_ms     *)
(* (then the new owner may be the old one).  Handlers run on.              *)
Rebalance(w) ==
  /\ "rebalance" \in Faults
  /\ disruptions < MaxDisruptions
  /\ owner # NoWorker
  /\ Live(w)
  /\ disruptions' = disruptions + 1
  /\ owner' = w
  /\ position' = StartPosition
  /\ UNCHANGED <<log, committed, store, local, now, orphans>>

-----------------------------------------------------------------------------
(* KafkaNotificationConsumer.                                              *)

(* `async for msg`: next message, decoded and validated.                   *)
Poll(w) ==
  /\ At(w, "poll")
  /\ owner = w
  /\ position < Len(log)
  /\ LET j == log[position + 1] IN
       /\ position' = position + 1
       /\ job' = [job EXCEPT ![w] = j]
       /\ Goto(w, IF j \in Valid THEN "get_existing" ELSE "publish_raw")
  /\ UNCHANGED <<log, committed, owner, store, attempts, timer, env>>

(* The consumer cannot start or the iterator raises: the task ends, the    *)
(* process stays.                                                          *)
PollFails(w) ==
  /\ "kafka" \in Faults
  /\ At(w, "poll")
  /\ Leave(w, "stopped")
  /\ UNCHANGED <<committed, store, now, disruptions>>

(* Invalid JSON or an invalid NotificationJob goes to the DLQ as it is.    *)
PublishRaw(w) ==
  /\ At(w, "publish_raw")
  /\ job[w] \notin Null
  /\ dlq' = dlq \cup {job[w]}
  /\ Done(w)
  /\ UNCHANGED <<broker, rows, sends, env>>

(* Mutant of PublishRawNull: the error is logged and the message is done.  *)
PublishRawNullIgnored(w) ==
  /\ At(w, "publish_raw")
  /\ job[w] \in Null
  /\ Done(w)
  /\ UNCHANGED <<broker, store, env>>

(* raw_value.decode raises on None before anything is sent: the consumer   *)
(* task ends and the record stays for the next worker to fail on.          *)
PublishRawNull(w) ==
  /\ At(w, "publish_raw")
  /\ job[w] \in Null
  /\ Leave(w, "stopped")
  /\ UNCHANGED <<committed, store, now, disruptions>>

PublishRawFails(w) ==
  /\ At(w, "publish_raw")
  /\ job[w] \notin Null
  /\ DlqSendFails(w)
  /\ Leave(w, "stopped")
  /\ UNCHANGED <<committed, rows, sends, now, disruptions>>

(* Mutant of DlqUnhandled: _handle_message returns False after an error.   *)
DlqUnhandledUncommitted(w) ==
  /\ At(w, "dlq_unhandled")
  /\ dlq' = dlq \cup {job[w]}
  /\ Goto(w, "poll")
  /\ job' = [job EXCEPT ![w] = NoJob]
  /\ UNCHANGED <<broker, rows, sends, attempts, timer, env>>

DlqUnhandled(w) ==
  /\ At(w, "dlq_unhandled")
  /\ dlq' = dlq \cup {job[w]}
  /\ Done(w)
  /\ UNCHANGED <<broker, rows, sends, env>>

DlqUnhandledFails(w) ==
  /\ At(w, "dlq_unhandled")
  /\ DlqSendFails(w)
  /\ Leave(w, "stopped")
  /\ UNCHANGED <<committed, rows, sends, now, disruptions>>

(* Mutant of Commit: the offset of the handled message is committed, to    *)
(* whomever the partition belongs.                                         *)
CommitHandledOffset(w) ==
  /\ At(w, "commit")
  /\ \E o \in 1..Len(log) : log[o] = job[w] /\ committed' = o
  /\ Goto(w, "poll")
  /\ job' = [job EXCEPT ![w] = NoJob]
  /\ UNCHANGED <<log, owner, position, store, attempts, timer, env>>

(* consumer.commit() commits the position of what is assigned to w now,    *)
(* whichever message w has just handled.                                   *)
Commit(w) ==
  /\ At(w, "commit")
  /\ owner = w
  /\ committed' = position
  /\ Goto(w, "poll")
  /\ job' = [job EXCEPT ![w] = NoJob]
  /\ UNCHANGED <<log, owner, position, store, attempts, timer, env>>

(* The partition was taken from w while it worked: nothing is committed.   *)
CommitNothing(w) ==
  /\ At(w, "commit")
  /\ owner # w
  /\ Goto(w, "poll")
  /\ job' = [job EXCEPT ![w] = NoJob]
  /\ UNCHANGED <<broker, store, attempts, timer, env>>

(* commit() raises, because of the broker or because w has no assignment:  *)
(* the consumer task ends.                                                 *)
CommitFails(w) ==
  /\ At(w, "commit")
  /\ "kafka" \in Faults \/ owner # w
  /\ committed' \in IF owner = w THEN {committed, position} ELSE {committed}
  /\ Leave(w, "stopped")
  /\ UNCHANGED <<store, now, disruptions>>

-----------------------------------------------------------------------------
(* JobProcessor.handle_job.                                                *)

GetExistingFails(w) ==
  /\ At(w, "get_existing")
  /\ "db" \in Faults
  /\ Raise(w)
  /\ UNCHANGED <<broker, store, env>>

SkipFinal(w) ==
  /\ At(w, "get_existing")
  /\ ShouldSkip(rows[job[w]])
  /\ Done(w)
  /\ UNCHANGED <<broker, store, env>>

(* Mutant of FindExpired: existing.attempts is forgotten.                  *)
FindExpiredFromZero(w) ==
  /\ At(w, "get_existing")
  /\ ~ShouldSkip(rows[job[w]])
  /\ Expired(job[w])
  /\ Goto(w, "mark_expired")
  /\ UNCHANGED <<broker, store, job, attempts, timer, env>>

(* existing.attempts is read here and used after the claim: a snapshot.    *)
FindExpired(w) ==
  /\ At(w, "get_existing")
  /\ ~ShouldSkip(rows[job[w]])
  /\ Expired(job[w])
  /\ attempts' = [attempts EXCEPT ![w] = rows[job[w]].attempts]
  /\ Goto(w, "mark_expired")
  /\ UNCHANGED <<broker, store, job, timer, env>>

(* wait_send_after_if_needed: sleep to send_after, but not beyond the cap. *)
DeferSend(w) ==
  /\ At(w, "get_existing")
  /\ ~ShouldSkip(rows[job[w]])
  /\ ~Expired(job[w])
  /\ Defers(job[w])
  /\ attempts' = [attempts EXCEPT ![w] = rows[job[w]].attempts]
  /\ timer' = [timer EXCEPT
       ![w] = now + Earlier(SendAfter[job[w]] - now, MaxSendDelay)]
  /\ Goto(w, "send_after")
  /\ UNCHANGED <<broker, store, job, env>>

GoClaim(w) ==
  /\ At(w, "get_existing")
  /\ ~ShouldSkip(rows[job[w]])
  /\ ~Expired(job[w])
  /\ ~Defers(job[w])
  /\ attempts' = [attempts EXCEPT ![w] = rows[job[w]].attempts]
  /\ timer' = [timer EXCEPT ![w] = now]
  /\ Goto(w, "claim_insert")
  /\ UNCHANGED <<broker, store, job, env>>

MarkExpired(w) ==
  /\ At(w, "mark_expired")
  /\ Save(w, "EXPIRED")
  /\ Done(w)
  /\ UNCHANGED <<broker, dlq, sends, env>>

MarkExpiredFails(w) ==
  /\ At(w, "mark_expired")
  /\ SaveFails(w, "EXPIRED")
  /\ Raise(w)
  /\ UNCHANGED <<broker, dlq, sends, env>>

WakeAtSendAfter(w) ==
  /\ At(w, "send_after")
  /\ now >= timer[w]
  /\ timer' = [timer EXCEPT ![w] = now]
  /\ Goto(w, "claim_insert")
  /\ UNCHANGED <<broker, store, job, attempts, env>>

(* try_claim_job, its two statements each committed by itself: the INSERT  *)
(* claims a job without a row, the UPDATE one whose row may be taken over. *)
InsertClaim(w) ==
  /\ rows[job[w]].status = "ABSENT"
  /\ rows' = [rows EXCEPT ![job[w]] = ClaimInsertedRow(timer[w])]

UpdateClaim(w) ==
  /\ Claimable(rows[job[w]], timer[w])
  /\ rows' = [rows EXCEPT ![job[w]] = ClaimUpdatedRow(@, timer[w])]

(* try_claim_job has returned True.                                        *)
Claimed(w) ==
  /\ Goto(w, "attempt")
  /\ timer' = [timer EXCEPT ![w] = NoTime]
  /\ UNCHANGED <<job, attempts>>

ClaimInsert(w) ==
  /\ At(w, "claim_insert")
  /\ InsertClaim(w)
  /\ Claimed(w)
  /\ UNCHANGED <<broker, dlq, sends, env>>

ClaimConflict(w) ==
  /\ At(w, "claim_insert")
  /\ rows[job[w]].status # "ABSENT"
  /\ Goto(w, "claim_update")
  /\ UNCHANGED <<broker, store, job, attempts, timer, env>>

ClaimInsertFails(w) ==
  /\ At(w, "claim_insert")
  /\ "db" \in Faults
  /\ InsertClaim(w) \/ UNCHANGED rows
  /\ Raise(w)
  /\ UNCHANGED <<broker, dlq, sends, env>>

ClaimUpdate(w) ==
  /\ At(w, "claim_update")
  /\ UpdateClaim(w)
  /\ Claimed(w)
  /\ UNCHANGED <<broker, dlq, sends, env>>

(* "Job is already being processed - skipping".                            *)
ClaimRefused(w) ==
  /\ At(w, "claim_update")
  /\ ~Claimable(rows[job[w]], timer[w])
  /\ Done(w)
  /\ UNCHANGED <<broker, store, env>>

ClaimUpdateFails(w) ==
  /\ At(w, "claim_update")
  /\ "db" \in Faults
  /\ UpdateClaim(w) \/ UNCHANGED rows
  /\ Raise(w)
  /\ UNCHANGED <<broker, dlq, sends, env>>

-----------------------------------------------------------------------------
(* attempt_with_retries.                                                   *)

(* The loop condition is false at entry: nothing is sent or recorded.      *)
BudgetSpent(w) ==
  /\ At(w, "attempt")
  /\ attempts[w] >= MaxAttempts
  /\ Done(w)
  /\ UNCHANGED <<broker, store, env>>

(* _attempt_send returns: the provider took the notification.              *)
AttemptOk(w) ==
  /\ At(w, "attempt")
  /\ attempts[w] < MaxAttempts
  /\ attempts' = [attempts EXCEPT ![w] = @ + 1]
  /\ sends' = [sends EXCEPT ![job[w]] = @ + 1]
  /\ Goto(w, "mark_sent")
  /\ UNCHANGED <<broker, rows, dlq, job, timer, env>>

(* Mutant of AttemptFails: _attempt_send logs its error and returns.       *)
AttemptFailsQuietly(w) ==
  /\ At(w, "attempt")
  /\ attempts[w] < MaxAttempts
  /\ attempts' = [attempts EXCEPT ![w] = @ + 1]
  /\ Goto(w, "mark_sent")
  /\ UNCHANGED <<broker, store, job, timer, env>>

(* _attempt_send raises: no template, no contact, a refused message, ...   *)
AttemptFails(w) ==
  /\ At(w, "attempt")
  /\ attempts[w] < MaxAttempts
  /\ attempts' = [attempts EXCEPT ![w] = @ + 1]
  /\ Goto(w, "mark_failure")
  /\ UNCHANGED <<broker, store, job, timer, env>>

(* The provider took the message and the connection broke before it said   *)
(* so: _attempt_send raises all the same.                                  *)
AttemptAckLost(w) ==
  /\ "smtp" \in Faults
  /\ At(w, "attempt")
  /\ attempts[w] < MaxAttempts
  /\ attempts' = [attempts EXCEPT ![w] = @ + 1]
  /\ sends' = [sends EXCEPT ![job[w]] = @ + 1]
  /\ Goto(w, "mark_failure")
  /\ UNCHANGED <<broker, rows, dlq, job, timer, env>>

(* Mutant of MarkSent: the outcome is logged and not persisted.            *)
MarkSentUnsaved(w) ==
  /\ At(w, "mark_sent")
  /\ Done(w)
  /\ UNCHANGED <<broker, store, env>>

MarkSent(w) ==
  /\ At(w, "mark_sent")
  /\ Save(w, "SENT")
  /\ Done(w)
  /\ UNCHANGED <<broker, dlq, sends, env>>

(* mark_sent stands in the same try block as the send: its failure is      *)
(* treated as a failed attempt.                                            *)
MarkSentFails(w) ==
  /\ At(w, "mark_sent")
  /\ SaveFails(w, "SENT")
  /\ Goto(w, "mark_failure")
  /\ UNCHANGED <<broker, dlq, sends, job, attempts, timer, env>>

(* Mutant of FailureStatus: is_last compares with > instead of >=.         *)
FailureStatusOffByOne(n) == IF n > MaxAttempts THEN "FAILED" ELSE "RETRYING"

(* mark_failure's status for attempt n.                                    *)
FailureStatus(n) == IF n >= MaxAttempts THEN "FAILED" ELSE "RETRYING"

(* Mutant of MarkFailure: the final failure is recorded, not dead-lettered. *)
MarkFailureNoDlq(w) ==
  /\ At(w, "mark_failure")
  /\ Save(w, FailureStatus(attempts[w]))
  /\ IF attempts[w] >= MaxAttempts
     THEN Done(w)
     ELSE Goto(w, "retry_sleep") /\ UNCHANGED <<job, attempts, timer>>
  /\ UNCHANGED <<broker, dlq, sends, env>>

MarkFailure(w) ==
  /\ At(w, "mark_failure")
  /\ Save(w, FailureStatus(attempts[w]))
  /\ Goto(w, IF attempts[w] >= MaxAttempts THEN "dlq_final" ELSE "retry_sleep")
  /\ UNCHANGED <<broker, dlq, sends, job, attempts, timer, env>>

MarkFailureFails(w) ==
  /\ At(w, "mark_failure")
  /\ SaveFails(w, FailureStatus(attempts[w]))
  /\ Raise(w)
  /\ UNCHANGED <<broker, dlq, sends, env>>

(* asyncio.sleep(delay) returns; its length is left open.                  *)
RetryWake(w) ==
  /\ At(w, "retry_sleep")
  /\ Goto(w, "attempt")
  /\ UNCHANGED <<broker, store, job, attempts, timer, env>>

DlqFinal(w) ==
  /\ At(w, "dlq_final")
  /\ dlq' = dlq \cup {job[w]}
  /\ Done(w)
  /\ UNCHANGED <<broker, rows, sends, env>>

(* The error leaves handle_job and _handle_message publishes once more.    *)
DlqFinalFails(w) ==
  /\ At(w, "dlq_final")
  /\ DlqSendFails(w)
  /\ Raise(w)
  /\ UNCHANGED <<broker, rows, sends, env>>

-----------------------------------------------------------------------------
ConsumerStep(w) ==
  \/ Poll(w) \/ PollFails(w)
  \/ PublishRaw(w) \/ PublishRawNull(w) \/ PublishRawFails(w)
  \/ DlqUnhandled(w) \/ DlqUnhandledFails(w)
  \/ Commit(w) \/ CommitNothing(w) \/ CommitFails(w)

ClaimStep(w) ==
  \/ GetExistingFails(w) \/ SkipFinal(w) \/ FindExpired(w)
  \/ DeferSend(w) \/ GoClaim(w)
  \/ MarkExpired(w) \/ MarkExpiredFails(w) \/ WakeAtSendAfter(w)
  \/ ClaimInsert(w) \/ ClaimConflict(w) \/ ClaimInsertFails(w)
  \/ ClaimUpdate(w) \/ ClaimRefused(w) \/ ClaimUpdateFails(w)

RetryStep(w) ==
  \/ BudgetSpent(w)
  \/ AttemptOk(w) \/ AttemptFails(w) \/ AttemptAckLost(w)
  \/ MarkSent(w) \/ MarkSentFails(w)
  \/ MarkFailure(w) \/ MarkFailureFails(w) \/ RetryWake(w)
  \/ DlqFinal(w) \/ DlqFinalFails(w)

WorkerStep(w) == ConsumerStep(w) \/ ClaimStep(w) \/ RetryStep(w)

Next ==
  \/ \E j \in Jobs : Publish(j)
  \/ Tick
  \/ \E w \in Workers : \/ Start(w) \/ Crash(w)
                        \/ Assign(w) \/ Rebalance(w)
                        \/ WorkerStep(w)

Spec == Init /\ [][Next]_vars

(* The event loop runs a ready task, sleeps end, the clock goes on, a      *)
(* deployed worker starts and the coordinator assigns a free partition.    *)
(* Nothing is assumed of producers, of faults or of the provider.          *)
Fairness ==
  /\ WF_vars(Tick)
  /\ \A w \in Workers : /\ WF_vars(Start(w))
                        /\ WF_vars(Assign(w))
                        /\ WF_vars(WorkerStep(w))

FairSpec == Spec /\ Fairness

=============================================================================
