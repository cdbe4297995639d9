-------------------------- MODULE WorkerProperties --------------------------
(***************************************************************************)
(* What the worker promises, stated over the state of module Worker.       *)
(***************************************************************************)
EXTENDS Worker

(* Every variable holds values of its type.                                *)
TypeOK ==
  /\ log \in Seq(Jobs)
  /\ committed \in Nat \cup {NoOffset}
  /\ owner \in Workers \cup {NoWorker}
  /\ position \in Nat
  /\ rows \in [Jobs -> Row]
  /\ dlq \subseteq Jobs
  /\ sends \in [Jobs -> Nat]
  /\ pc \in [Workers -> PC]
  /\ job \in [Workers -> Jobs \cup {NoJob}]
  /\ attempts \in [Workers -> Nat]
  /\ timer \in [Workers -> Nat \cup {NoTime}]
  /\ now \in Nat
  /\ disruptions \in Nat
  /\ orphans \subseteq Jobs

(* A job is resolved once the provider took it, the DLQ holds it or the    *)
(* table says it expired.                                                  *)
Resolved(j) == sends[j] > 0 \/ j \in dlq \/ rows[j].status = "EXPIRED"

(* A job is handled when it is resolved, or has a row and either a worker  *)
(* at work on it or a worker that died over it.                            *)
Handled(j) ==
  \/ Resolved(j)
  \/ /\ rows[j].status # "ABSENT"
     /\ j \in orphans \/ \E w \in Workers : Working(w, j)

(* A job has left a durable trace: a row or a DLQ record.                  *)
Traced(j) == rows[j].status # "ABSENT" \/ j \in dlq

-----------------------------------------------------------------------------
(* Safety under every fault.                                               *)

(* No message is committed unless its job was delivered, dead-lettered or  *)
(* expired, or a worker has it in hand or died with it in hand: the skip,  *)
(* the refused claim, the error paths and a commit after a rebalance never *)
(* drop a job of their own accord.  (Groups with a committed offset and at *)
(* least one attempt.)                                                     *)
NoLossWithoutOrphan ==
  \A o \in 1..committed : Handled(log[o])

(* A row says FAILED only if the job is in the DLQ, a worker is about to   *)
(* put it there, or a worker died between the two writes of                *)
(* attempt_with_retries.                                                   *)
FailedReachesDlq ==
  \A j \in Jobs : rows[j].status = "FAILED" =>
    \/ j \in dlq \cup orphans
    \/ \E w \in Workers : Working(w, j)

(* A row says SENT only if the provider accepted the job at least once.    *)
SentWasAccepted ==
  \A j \in Jobs : rows[j].status = "SENT" => sends[j] > 0

(* A handler that holds a claim has an attempt left: the snapshot of       *)
(* attempts taken before the claim never runs past the budget, and rows    *)
(* that can be claimed are below it.                                       *)
ClaimLeavesBudget ==
  /\ \A w \in Workers : At(w, "attempt") => attempts[w] < MaxAttempts
  /\ \A j \in Jobs : rows[j].status \in Open => rows[j].attempts < MaxAttempts

(* The group's committed offset never goes back, although commit() takes   *)
(* whatever position the worker has at that moment, after any rebalance.   *)
CommittedNeverRewinds == [][committed' >= committed]_vars

(* Once the group has an offset, every message a commit covers has left a  *)
(* row or a DLQ record behind, whatever the budget.                        *)
CommitLeavesTrace ==
  [][committed # NoOffset =>
       \A o \in (committed + 1)..committed' : Traced(log[o])]_vars

(* A job is finished once its row is terminal and no handler that claimed  *)
(* it earlier is still at work on it: that handler would write its own     *)
(* outcome over the row.                                                   *)
Finished(j) ==
  /\ rows[j].status \in Terminal
  /\ \A w \in Workers : job[w] = j =>
       /\ pc[w] \notin {"attempt", "mark_sent", "mark_failure", "retry_sleep"}
       /\ pc[w] = "mark_expired" => rows[j].status = "EXPIRED"

(* A finished job stays finished with the status it has and is never sent  *)
(* again, under every fault: a second handler that read the row before the *)
(* outcome was written, or stands between try_claim_job's INSERT and its   *)
(* UPDATE, is turned away by the UPDATE, and what is redelivered later is  *)
(* skipped, or expired once more: handle_job skips an EXPIRED row only at  *)
(* max_attempts, and below it saves EXPIRED, with a new updated_at, again. *)
FinishedStaysFinished ==
  [][\A j \in Jobs : Finished(j) =>
       /\ Finished(j)'
       /\ rows'[j].status = rows[j].status
       /\ sends'[j] = sends[j]]_vars

(* How far a job has come, read off the provider, the DLQ, the row and the *)
(* handlers.  "dropped" - a row, no outcome and nobody at work - is no     *)
(* stage of the contract.                                                  *)
StageOf(j) ==
  IF sends[j] > 0 \/ j \in dlq THEN "settled"
  ELSE IF rows[j].status = "ABSENT" THEN "new"
  ELSE IF rows[j].status = "EXPIRED" THEN "expired"
  ELSE IF \E w \in Workers : Working(w, j) THEN "open"
  ELSE IF j \in orphans THEN "orphaned"
  ELSE "dropped"

Contract == INSTANCE DeliveryContract WITH
  stage <- [j \in Jobs |-> StageOf(j)],
  acked <- {log[o] : o \in 1..committed}

(* The worker fleet implements the delivery contract under every fault: a  *)
(* job is taken before it is committed, what is settled stays settled, and *)
(* a job leaves a worker's hands only with an outcome or with the worker's *)
(* death.  (Groups with a committed offset and at least one attempt.)      *)
ImplementsContract == Contract!Spec

-----------------------------------------------------------------------------
(* Safety while the coordinator moves the partition only from dead         *)
(* consumers and the database answers (no "rebalance", no "db"): the one   *)
(* handler of a job continues the attempt count that a predecessor left.   *)

(* The persisted attempt count never goes down, although it is read before *)
(* the claim and written back after it.                                    *)
AttemptsNeverRegress ==
  [][\A j \in Jobs : rows'[j].attempts >= rows[j].attempts]_vars

(* The provider gets a job at most max_attempts times, plus once for every *)
(* crash: only an attempt whose result was not yet persisted is repeated.  *)
SendsWithinBudget ==
  \A j \in Jobs : sends[j] <= MaxAttempts + disruptions

-----------------------------------------------------------------------------
(* Liveness, with failing databases and providers but no crash.            *)

(* Every published message is eventually committed: no job, however often  *)
(* it fails, blocks the partition.                                         *)
EveryMessageCommitted ==
  \A o \in 1..MaxLog : Len(log) >= o ~> committed >= o

(* No row stays PROCESSING or RETRYING: it becomes terminal, or the job is *)
(* in the DLQ.                                                             *)
OpenRowsSettle ==
  \A j \in Jobs :
    rows[j].status \in Open ~> rows[j].status \in Terminal \/ j \in dlq

-----------------------------------------------------------------------------
(* What the documentation says and the code does not do.                   *)

(* DELIVERY_SEMANTICS: "processing can resume after failures without       *)
(* manual intervention".  A committed job is settled or in some worker's   *)
(* hands; a crash is no excuse.                                            *)
CrashedJobsResume ==
  \A o \in 1..committed :
    \/ Resolved(log[o])
    \/ \E w \in Workers : Working(w, log[o])

(* DELIVERY_SEMANTICS: "if the expiration time is reached, the job is      *)
(* marked as expired and is not delivered".                                *)
ExpiredNotDelivered ==
  [][\A j \in Jobs : Expired(j) => sends'[j] = sends[j]]_vars

(* WORKER_DESIGN: "idempotency ensuring safe parallel processing": a job   *)
(* recorded as SENT stays recorded as SENT.                                *)
SentStaysSent ==
  [][\A j \in Jobs : rows[j].status = "SENT" => rows'[j].status = "SENT"]_vars

(* OPERATIONS: "Processing resumes automatically once Kafka is available   *)
(* again".                                                                 *)
ProcessingResumes ==
  \A o \in 1..MaxLog : Len(log) >= o ~> committed >= o

=============================================================================
