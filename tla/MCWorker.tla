------------------------------ MODULE MCWorker ------------------------------
(***************************************************************************)
(* Instances of the worker for TLC.  The job "late" has both times set:    *)
(* it expires while the worker sleeps to its send_after.  The other jobs   *)
(* have none.                                                              *)
(***************************************************************************)
EXTENDS WorkerProperties, TLC

CONSTANT late

MCExpiresAt == [j \in Jobs |-> IF j = late THEN 1 ELSE NoTime]
MCSendAfter == [j \in Jobs |-> IF j = late THEN 3 ELSE NoTime]

Symmetry == Permutations(Workers)

=============================================================================
