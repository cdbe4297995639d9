----------------------------- MODULE Environment -----------------------------
(***************************************************************************)
(* Kafka and Postgres as the processes of a deployment see them: they      *)
(* answer or they do not, and Kafka has a topic or it has not.             *)
(***************************************************************************)
EXTENDS Integers

CONSTANT MaxOutages   \* bound: how often one of them goes away

ASSUME EnvironmentAssumption == MaxOutages \in Nat

VARIABLES
  brokerUp,  \* Kafka answers
  dbUp,      \* Postgres answers
  outages,   \* how often one of them went away
  topics     \* the topics there are; what the scripts create

(* The topics of the program.                                              *)
Topics == {"outbox", "dlq"}

environment == <<brokerUp, dbUp, outages>>

EnvironmentInit ==
  /\ brokerUp \in BOOLEAN
  /\ dbUp \in BOOLEAN
  /\ outages = 0

BrokerUp ==
  /\ ~brokerUp
  /\ brokerUp' = TRUE
  /\ UNCHANGED <<dbUp, outages>>

BrokerDown ==
  /\ brokerUp
  /\ outages < MaxOutages
  /\ brokerUp' = FALSE
  /\ outages' = outages + 1
  /\ UNCHANGED dbUp

DbUp ==
  /\ ~dbUp
  /\ dbUp' = TRUE
  /\ UNCHANGED <<brokerUp, outages>>

DbDown ==
  /\ dbUp
  /\ outages < MaxOutages
  /\ dbUp' = FALSE
  /\ outages' = outages + 1
  /\ UNCHANGED brokerUp

EnvironmentStep == BrokerUp \/ BrokerDown \/ DbUp \/ DbDown

=============================================================================
