------------------------- MODULE DeliveryRepository -------------------------
(***************************************************************************)
(* The notification_delivery table of the worker: one row per job_id, and  *)
(* the SQL statements of NotificationDeliveryRepository as functions from  *)
(* the old row to the new one.  A row keeps the columns the worker decides *)
(* on: status, attempts and processing_started_at.  user_id, channel, the  *)
(* error texts and sent_at are written but never read back by a decision,  *)
(* so they are left out.                                                   *)
(***************************************************************************)
EXTENDS Integers

CONSTANTS
  MaxAttempts,   \* settings.max_attempts
  StaleAfter     \* stale_after_seconds, in ticks of the model's clock

ASSUME RepositoryAssumption ==
  /\ MaxAttempts \in Nat
  /\ StaleAfter \in Nat

\* SQL NULL in a timestamp column, and Python None in a job's optional time.
NoTime == -1

\* The five values of NotificationStatus, and ABSENT for "no row".
Terminal == {"SENT", "FAILED", "EXPIRED"}
Open     == {"PROCESSING", "RETRYING"}
Status   == Terminal \cup Open \cup {"ABSENT"}

Row   == [status : Status, attempts : Nat, started : Nat \cup {NoTime}]
NoRow == [status |-> "ABSENT", attempts |-> 0, started |-> NoTime]

-----------------------------------------------------------------------------
(* INSERT ... ON CONFLICT (job_id) DO NOTHING of try_claim_job.            *)
ClaimInsertedRow(now) ==
  [status |-> "PROCESSING", attempts |-> 0, started |-> now]

(* Mutant of Claimable: the clause on the final states is left out.        *)
ClaimableReopens(row, now) ==
  /\ row.status # "ABSENT"
  /\ \/ row.status # "PROCESSING"
     \/ row.started = NoTime
     \/ row.started < now - StaleAfter

(* The WHERE clause of the UPDATE of try_claim_job.                        *)
Claimable(row, now) ==
  /\ row.status \notin {"ABSENT", "SENT", "FAILED", "EXPIRED"}
  /\ \/ row.status # "PROCESSING"
     \/ row.started = NoTime
     \/ row.started < now - StaleAfter

(* The SET clause of that UPDATE: the attempts column is left alone.       *)
ClaimUpdatedRow(row, now) ==
  [status |-> "PROCESSING", attempts |-> row.attempts, started |-> now]

(* Mutant of SavedRow: the attempt counter is off by one.                  *)
SavedRowOffByOne(status, attempts) ==
  [status |-> status, attempts |-> attempts - 1, started |-> NoTime]

(* The upsert of save_status: unconditional, whatever the old row was.     *)
SavedRow(status, attempts) ==
  [status |-> status, attempts |-> attempts, started |-> NoTime]

(* JobProcessor._should_skip on the row that get_by_job_id returned.       *)
ShouldSkip(row) ==
  \/ row.status = "SENT"
  \/ row.status \in {"EXPIRED", "FAILED"} /\ row.attempts >= MaxAttempts

=============================================================================
