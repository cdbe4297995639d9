-------------------------- MODULE DeliveryContract --------------------------
(***************************************************************************)
(* What the worker fleet promises of a job, without processes, rows,       *)
(* offsets or retries: the contract module Worker implements and module    *)
(* Pipeline relies on.                                                     *)
(*                                                                         *)
(* A job is taken, then settled (the provider accepted it or the DLQ holds *)
(* it) or expired.  A worker may die over it: then it is orphaned, and     *)
(* nothing here obliges anybody to open it again.                          *)
(***************************************************************************)
CONSTANT Jobs

VARIABLES
  stage,   \* how far each job has come
  acked    \* the jobs the group's committed offset covers

Stages == {"new", "open", "expired", "orphaned", "settled"}

Init ==
  /\ stage = [j \in Jobs |-> "new"]
  /\ acked = {}

Move(j, from, to) ==
  /\ stage[j] \in from
  /\ stage' = [stage EXCEPT ![j] = to]
  /\ UNCHANGED acked

(* A worker claims the job: for the first time, after another died over    *)
(* it, or over a row that a slower worker has marked expired.              *)
Take(j) == Move(j, {"new", "expired", "orphaned"}, "open")

(* The provider accepted it or it is in the DLQ: this is for ever.         *)
Settle(j) == Move(j, {"new", "open", "expired", "orphaned"}, "settled")

Expire(j) == Move(j, {"new", "open", "orphaned"}, "expired")

(* The last worker that had it died.                                       *)
Abandon(j) == Move(j, {"open"}, "orphaned")

(* Only jobs that somebody has taken are committed.                        *)
Ack(S) ==
  /\ \A j \in S : stage[j] # "new"
  /\ acked' = acked \cup S
  /\ UNCHANGED stage

JobStep(j) == Take(j) \/ Settle(j) \/ Expire(j) \/ Abandon(j)

Next ==
  \/ \E j \in Jobs : JobStep(j)
  \/ \E S \in SUBSET Jobs : Ack(S)

Spec == Init /\ [][Next]_<<stage, acked>>

TypeOK == stage \in [Jobs -> Stages] /\ acked \subseteq Jobs

=============================================================================
