------------------------------ MODULE Pipeline ------------------------------
(***************************************************************************)
(* A deployment: the initialisation scripts, the API, one worker process   *)
(* and, over the outbox between them, the delivery contract in the place   *)
(* of the worker's inner life.  A job <<e, n>> is the n-th that the API    *)
(* made of event e.                                                        *)
(***************************************************************************)
EXTENDS NotificationApi, WorkerProcess, Initialisation, Sequences

VARIABLES
  stage,     \* of the contract: how far each job has come
  acked,     \* of the contract: the jobs that are committed
  assigned,  \* the consumer has been assigned the outbox's partition
  skipped    \* jobs that were below the position of a first assignment

contract == <<stage, acked>>
group    == <<assigned, skipped>>
jobs     == <<contract, group>>
vars     == <<environment, apiVars, process, scripts, jobs>>

PipelineJobs == {e \in Events : Kind[e] = "user_registered"} \X (1..MaxPosts)

Contract == INSTANCE DeliveryContract WITH Jobs <- PipelineJobs

Init ==
  /\ EnvironmentInit /\ ApiInit /\ ProcessInit /\ ScriptsInit
  /\ Contract!Init
  /\ assigned = FALSE
  /\ skipped = {}

-----------------------------------------------------------------------------
Enqueued(j) == j[2] <= outbox[j[1]]

(* The consumer task runs and nobody has cancelled it.                     *)
Consuming == phase = "running" /\ consumer = "running"

(* The partition is assigned.  Without a committed offset the consumer     *)
(* reads from the end of the topic: auto_offset_reset is left at "latest". *)
Join ==
  /\ Consuming
  /\ ~assigned
  /\ brokerUp
  /\ "outbox" \in topics
  /\ assigned' = TRUE
  /\ skipped' = IF acked = {}
                THEN {j \in PipelineJobs : Enqueued(j)}
                ELSE skipped
  /\ UNCHANGED contract

(* Messages the consumer may still read.                                   *)
Readable(j) ==
  /\ Consuming
  /\ assigned
  /\ Enqueued(j)
  /\ j \notin acked \cup skipped

(* One worker handles one job at a time.                                   *)
Take(j) ==
  /\ Readable(j)
  /\ \A i \in PipelineJobs : stage[i] # "open"
  /\ Contract!Take(j)
  /\ UNCHANGED group

(* With an outcome, or - before a claim - with a DLQ record.               *)
Settle(j) ==
  /\ Readable(j)
  /\ stage[j] \in {"new", "open"}
  /\ Contract!Settle(j)
  /\ UNCHANGED group

Commit(j) ==
  /\ Readable(j)
  /\ stage[j] \notin {"new", "open"}
  /\ Contract!Ack({j})
  /\ UNCHANGED group

JobStep(j) == Take(j) \/ Settle(j) \/ Commit(j)

(* Whatever ends the consumer task gives up the partition and orphans the  *)
(* job at hand.                                                            *)
WorkerStep ==
  /\ ProcessStep
  /\ IF Consuming'
     THEN UNCHANGED <<stage, assigned>>
     ELSE /\ assigned' = FALSE
          /\ stage' = [j \in PipelineJobs |->
               IF stage[j] = "open" THEN "orphaned" ELSE stage[j]]
  /\ UNCHANGED <<environment, apiVars, scripts, acked, skipped>>

-----------------------------------------------------------------------------
(* A broker may create a topic that a client asks for (the compose file    *)
(* leaves auto.create.topics.enable alone), so one that kafka_init did not *)
(* get may still appear.                                                   *)
CreateOnUse ==
  /\ brokerUp
  /\ \E t \in Topics \ topics :
       /\ \/ Consuming
          \/ t = "outbox" /\ \E e \in Events : handler[e] = "publishing"
       /\ topics' = topics \cup {t}
  /\ UNCHANGED <<kafkaInit, kafkaTries, restarted, missing, refused, dbScript>>

(* depends_on of API and worker: both scripts completed successfully.      *)
LaunchApi ==
  /\ Initialised
  /\ ApiLaunch
  /\ UNCHANGED <<environment, process, scripts, jobs>>

LaunchWorker ==
  /\ Initialised
  /\ Deploy
  /\ UNCHANGED <<environment, apiVars, scripts, jobs>>

Next ==
  \/ EnvironmentStep /\ UNCHANGED <<apiVars, process, scripts, jobs>>
  \/ KafkaScriptStep /\ UNCHANGED <<environment, apiVars, process, jobs>>
  \/ DbScriptStep /\ UNCHANGED <<environment, apiVars, process, jobs>>
  \/ CreateOnUse /\ UNCHANGED <<environment, apiVars, process, jobs>>
  \/ LaunchApi
  \/ ApiStep /\ UNCHANGED <<environment, process, scripts, jobs>>
  \/ LaunchWorker
  \/ WorkerStep
  \/ Join /\ UNCHANGED <<environment, apiVars, process, scripts>>
  \/ \E j \in PipelineJobs :
       JobStep(j) /\ UNCHANGED <<environment, apiVars, process, scripts>>

Spec == Init /\ [][Next]_vars

(* Containers are started once their dependencies allow it, scripts and    *)
(* startup retries go on, the event loop of either process runs, and a     *)
(* consuming worker keeps the contract moving, as the worker's own         *)
(* liveness run shows.  Nothing is assumed of Kafka, Postgres or clients.  *)
Fairness ==
  /\ WF_scripts(KafkaScriptStep)
  /\ WF_scripts(DbScriptStep)
  /\ WF_vars(LaunchWorker)
  /\ ApiFairness
  /\ WF_process(StartupStep)
  /\ WF_process(CleanupStep)
  /\ WF_jobs(Join)
  /\ \A j \in PipelineJobs : WF_jobs(Take(j)) /\ WF_jobs(Settle(j))

FairSpec == Spec /\ Fairness

-----------------------------------------------------------------------------
(* Every variable holds values of its type.                                *)
TypeOK ==
  /\ ApiTypeOK /\ ProcessTypeOK /\ ScriptsTypeOK
  /\ Contract!TypeOK
  /\ assigned \in BOOLEAN
  /\ skipped \subseteq PipelineJobs

(* No traffic without the topics and the schema: the API is not ready and  *)
(* the worker does not consume before both exist, also after a script      *)
(* failed half way and was run again - topics apart that the broker        *)
(* refused to create, which kafka_init does not notice.                    *)
TrafficNeedsSchema ==
  Ready \/ Consuming => Topics \ refused \subseteq topics /\ tables

(* Kafka or Postgres went away, a process was stopped or failed, or the    *)
(* broker refused a topic.                                                 *)
Disturbed ==
  outages > 0 \/ mishaps > 0 \/ restarts > 0 \/ refused # {}

(* From end to end: an event answered with 202 has its job delivered or    *)
(* dead-lettered, also when Kafka comes up only after the deployment was   *)
(* started - unless Kafka, Postgres or a process failed on the way, or the *)
(* worker's group had no offset yet and joined after the job was enqueued. *)
AcceptedIsSettled ==
  \A e \in Events : reply[e] = 202 ~>
    \/ Disturbed
    \/ \E n \in 1..MaxPosts : LET j == <<e, n>> IN
         j \in PipelineJobs /\ (stage[j] = "settled" \/ j \in skipped)

=============================================================================
