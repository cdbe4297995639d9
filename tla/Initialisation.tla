--------------------------- MODULE Initialisation ---------------------------
(***************************************************************************)
(* The one-shot scripts kafka_init and db_init, as the compose file runs   *)
(* them: kafka_init is restarted after a failure up to three times,        *)
(* db_init never.  API and worker start once both have succeeded.          *)
(***************************************************************************)
EXTENDS Environment

CONSTANTS
  WaitTries,      \* attempts of wait_for_kafka and of db_init
  InitRestarts    \* on-failure:3 of the kafka-init service

ASSUME InitialisationAssumption ==
  /\ WaitTries \in Nat \ {0}
  /\ InitRestarts \in Nat

VARIABLES
  kafkaInit,   \* the await of kafka_init: "wait", "list", "create", or its end
  kafkaTries,  \* failed attempts of wait_for_kafka
  restarted,   \* restarts of kafka_init
  missing,     \* topics_to_create
  refused,     \* history: topics that create_topics did not get
  dbInit,      \* "wait", "done" or "failed"
  dbTries,     \* failed attempts of db_init
  tables       \* the schema exists

kafkaScript == <<kafkaInit, kafkaTries, restarted, missing, refused, topics>>
dbScript    == <<dbInit, dbTries, tables>>
scripts     == <<kafkaScript, dbScript>>

ScriptsInit ==
  /\ kafkaInit = "wait"
  /\ kafkaTries = 0
  /\ restarted = 0
  /\ missing = {}
  /\ refused = {}
  /\ topics \in SUBSET Topics
  /\ dbInit = "wait"
  /\ dbTries = 0
  /\ tables \in BOOLEAN

(* kafka_init ends with an error and may be restarted.                     *)
KafkaInitExits ==
  /\ kafkaInit' = IF restarted < InitRestarts THEN "wait" ELSE "failed"
  /\ restarted' = IF restarted < InitRestarts THEN restarted + 1 ELSE restarted
  /\ kafkaTries' = 0
  /\ missing' = {}

KafkaAnswers ==
  /\ kafkaInit = "wait"
  /\ brokerUp
  /\ kafkaInit' = "list"
  /\ kafkaTries' = 0
  /\ UNCHANGED <<restarted, missing, refused, topics, dbScript>>

(* Mutant of KafkaWaits: the last attempt is followed by another.          *)
KafkaWaitsOn ==
  /\ kafkaInit = "wait"
  /\ ~brokerUp
  /\ UNCHANGED scripts

KafkaWaits ==
  /\ kafkaInit = "wait"
  /\ ~brokerUp
  /\ IF kafkaTries + 1 < WaitTries
     THEN kafkaTries' = kafkaTries + 1
          /\ UNCHANGED <<kafkaInit, restarted, missing>>
     ELSE KafkaInitExits
  /\ UNCHANGED <<refused, topics, dbScript>>

(* Mutant of ListTopics: with any topic there, nothing is created.         *)
ListTopicsAny ==
  /\ kafkaInit = "list"
  /\ brokerUp
  /\ missing' = IF topics = {} THEN Topics ELSE {}
  /\ kafkaInit' = IF topics # {} THEN "done" ELSE "create"
  /\ UNCHANGED <<kafkaTries, restarted, refused, topics, dbScript>>

ListTopics ==
  /\ kafkaInit = "list"
  /\ brokerUp
  /\ missing' = Topics \ topics
  /\ kafkaInit' = IF Topics \subseteq topics THEN "done" ELSE "create"
  /\ UNCHANGED <<kafkaTries, restarted, refused, topics, dbScript>>

(* create_topics returns the broker's answer, with an error code for each  *)
(* topic, and nobody looks at it: the script succeeds whatever was made.   *)
CreateTopics ==
  /\ kafkaInit = "create"
  /\ brokerUp
  /\ \E made \in SUBSET missing :
       /\ topics' = topics \cup made
       /\ refused' = missing \ made
  /\ missing' = {}
  /\ kafkaInit' = "done"
  /\ UNCHANGED <<kafkaTries, restarted, dbScript>>

(* The broker goes away under list_topics or create_topics, which may have *)
(* created some topic: the error ends the script.                          *)
TopicsFail ==
  /\ kafkaInit \in {"list", "create"}
  /\ ~brokerUp
  /\ \E made \in SUBSET missing : topics' = topics \cup made
  /\ KafkaInitExits
  /\ UNCHANGED <<refused, dbScript>>

(* create_all, in one transaction; what exists is left alone.              *)
CreateTables ==
  /\ dbInit = "wait"
  /\ dbUp
  /\ tables' = TRUE
  /\ dbInit' = "done"
  /\ dbTries' = 0
  /\ UNCHANGED kafkaScript

(* An OperationalError is retried up to the last attempt; any other error, *)
(* an OSError of the driver say, ends the script at once.                  *)
DbWaits ==
  /\ dbInit = "wait"
  /\ ~dbUp
  /\ \/ /\ dbTries + 1 < WaitTries
        /\ dbTries' = dbTries + 1
        /\ UNCHANGED dbInit
     \/ dbTries' = 0 /\ dbInit' = "failed"
  /\ UNCHANGED <<tables, kafkaScript>>

KafkaScriptStep ==
  KafkaAnswers \/ KafkaWaits \/ ListTopics \/ CreateTopics \/ TopicsFail

DbScriptStep == CreateTables \/ DbWaits

(* Both scripts completed successfully.                                    *)
Initialised == kafkaInit = "done" /\ dbInit = "done"

ScriptsTypeOK ==
  /\ kafkaInit \in {"wait", "list", "create", "done", "failed"}
  /\ kafkaTries \in 0..(WaitTries - 1)
  /\ restarted \in 0..InitRestarts
  /\ {missing, refused, topics} \subseteq SUBSET Topics
  /\ dbInit \in {"wait", "done", "failed"}
  /\ dbTries \in 0..(WaitTries - 1)
  /\ tables \in BOOLEAN

(* kafka_init comes to an end whatever the broker does: the attempts and   *)
(* the restarts are bounded.                                               *)
KafkaInitEnds == <>(kafkaInit \in {"done", "failed"})

=============================================================================
