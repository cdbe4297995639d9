---------------------------- MODULE WorkerProcess ----------------------------
(***************************************************************************)
(* The life of one worker process: worker.main.app with the startup        *)
(* retries of worker.startup, the health files and the cleanup.  What the  *)
(* consumer task does while it runs is module Worker; here it runs, has    *)
(* ended (a Kafka error is logged) or has raised.                          *)
(***************************************************************************)
EXTENDS Environment

CONSTANTS
  StartupTries,   \* max_attempts of create_db_pool and create_kafka_producer
  MaxMishaps      \* bound: kills, bad settings, errors, stops and relaunches

ASSUME ProcessAssumption ==
  /\ StartupTries \in Nat \ {0}
  /\ MaxMishaps \in Nat

VARIABLES
  phase,      \* where app() stands, see Phases
  tries,      \* failed attempts of the current startup step
  consumer,   \* the consumer task, see ConsumerStates
  open,       \* the connections app() holds
  ready,      \* /tmp/ready exists
  beat,       \* /tmp/heartbeat is younger than 20 s
  ending,     \* how the last process ended, see Endings
  leaked,     \* history: connections app() held when it ended
  mishaps     \* mishaps so far

files   == <<ready, beat>>
outcome == <<ending, leaked>>
process == <<phase, tries, consumer, open, files, outcome, mishaps>>

Phases == {"created", "down", "launched", "pool", "producer", "running",
           "await_consumer", "close_http", "close_producer", "close_pool"}
ConsumerStates == {"none", "running", "ended", "raised"}
Endings == {"none", "stopped", "consumer_error", "close_error", "gave_up",
            "misconfigured", "killed"}
Connections == {"pool", "producer", "http"}

ProcessInit ==
  /\ phase = "created"
  /\ tries = 0
  /\ consumer = "none"
  /\ open = {}
  /\ ready = FALSE
  /\ beat = FALSE
  /\ ending = "none"
  /\ leaked = {}
  /\ mishaps = 0

Mishap ==
  /\ mishaps < MaxMishaps
  /\ mishaps' = mishaps + 1

(* The process is gone; /tmp stays with its container.                     *)
End(how) ==
  /\ phase' = "down"
  /\ tries' = 0
  /\ consumer' = "none"
  /\ open' = {}
  /\ ending' = how
  /\ leaked' = open

-----------------------------------------------------------------------------
(* The container is started for the first time; later only by hand, as the *)
(* worker's service has no restart policy.                                 *)
Deploy ==
  /\ phase = "created"
  /\ phase' = "launched"
  /\ UNCHANGED <<tries, consumer, open, files, outcome, mishaps>>

Relaunch ==
  /\ phase = "down"
  /\ Mishap
  /\ phase' = "launched"
  /\ ending' = "none"
  /\ leaked' = {}
  /\ UNCHANGED <<tries, consumer, open, files>>

(* Mutant of Configure: app() does not begin with clear_ready.             *)
ConfigureOnly ==
  /\ phase = "launched"
  /\ phase' = "pool"
  /\ UNCHANGED <<tries, consumer, open, files, outcome, mishaps>>

(* The retry delays are valid; clear_ready; create_db_pool is called.      *)
Configure ==
  /\ phase = "launched"
  /\ ready' = FALSE
  /\ phase' = "pool"
  /\ UNCHANGED <<tries, consumer, open, beat, outcome, mishaps>>

(* ValueError: app() raises before it has touched the ready file.          *)
Misconfigured ==
  /\ phase = "launched"
  /\ Mishap
  /\ End("misconfigured")
  /\ UNCHANGED files

CreatePool ==
  /\ phase = "pool"
  /\ dbUp
  /\ open' = open \cup {"pool"}
  /\ phase' = "producer"
  /\ tries' = 0
  /\ UNCHANGED <<consumer, files, outcome, mishaps>>

(* Mutant of TryAgain: every failed attempt is followed by another.        *)
TryAgainAlways == UNCHANGED process

(* A failed startup attempt: sleep and try again if the error is of a kind *)
(* that is retried; after the last attempt, and for any other error, raise.*)
TryAgain ==
  \/ /\ tries + 1 < StartupTries
     /\ tries' = tries + 1
     /\ UNCHANGED <<phase, consumer, open, outcome>>
  \/ End("gave_up")

CreatePoolFails ==
  /\ phase = "pool"
  /\ ~dbUp
  /\ TryAgain
  /\ UNCHANGED <<files, mishaps>>

(* Mutant of CreateProducer: ready, without a consumer task.               *)
CreateProducerOnly ==
  /\ phase = "producer"
  /\ brokerUp
  /\ open' = Connections
  /\ ready' = TRUE
  /\ beat' = TRUE
  /\ phase' = "running"
  /\ tries' = 0
  /\ UNCHANGED <<consumer, outcome, mishaps>>

(* The DLQ producer is up; the HTTP client needs nobody; mark_ready, the   *)
(* heartbeat and the consumer task start.                                  *)
CreateProducer ==
  /\ phase = "producer"
  /\ brokerUp
  /\ open' = Connections
  /\ ready' = TRUE
  /\ beat' = TRUE
  /\ consumer' = "running"
  /\ phase' = "running"
  /\ tries' = 0
  /\ UNCHANGED <<outcome, mishaps>>

CreateProducerFails ==
  /\ phase = "producer"
  /\ ~brokerUp
  /\ TryAgain
  /\ UNCHANGED <<files, mishaps>>

-----------------------------------------------------------------------------
(* A KafkaError in the loop, which a DLQ without its topic raises too, is  *)
(* logged and the task returns.                                            *)
ConsumerEnds ==
  /\ consumer = "running"
  /\ ~brokerUp \/ "dlq" \notin topics
  /\ consumer' = "ended"
  /\ UNCHANGED <<phase, tries, open, files, outcome, mishaps>>

(* Any other error leaves the task.                                        *)
ConsumerRaises ==
  /\ consumer = "running"
  /\ Mishap
  /\ consumer' = "raised"
  /\ UNCHANGED <<phase, tries, open, files, outcome>>

(* SIGTERM or SIGINT: stop_event is set and the consumer task cancelled.   *)
Stop ==
  /\ phase = "running"
  /\ Mishap
  /\ phase' = "await_consumer"
  /\ UNCHANGED <<tries, consumer, open, files, outcome>>

(* Mutant of AwaitConsumer: there is no finally.                           *)
AwaitConsumerOnly ==
  /\ phase = "await_consumer"
  /\ IF consumer = "raised"
     THEN End("consumer_error") /\ UNCHANGED files
     ELSE /\ consumer' = "none"
          /\ ready' = FALSE
          /\ phase' = "close_http"
          /\ UNCHANGED <<tries, open, beat, outcome>>
  /\ UNCHANGED mishaps

(* Mutant of AwaitConsumer: the ready file is forgotten.                   *)
AwaitConsumerStillReady ==
  /\ phase = "await_consumer"
  /\ consumer' = IF consumer = "raised" THEN "raised" ELSE "none"
  /\ phase' = "close_http"
  /\ UNCHANGED <<tries, open, files, outcome, mishaps>>

(* `await consumer_task` returns, or raises what the task died of, however *)
(* long ago; `finally` cancels the heartbeat and clears the ready file.    *)
AwaitConsumer ==
  /\ phase = "await_consumer"
  /\ consumer' = IF consumer = "raised" THEN "raised" ELSE "none"
  /\ ready' = FALSE
  /\ phase' = "close_http"
  /\ UNCHANGED <<tries, open, beat, outcome, mishaps>>

CloseHttp ==
  /\ phase = "close_http"
  /\ open' = open \ {"http"}
  /\ phase' = "close_producer"
  /\ UNCHANGED <<tries, consumer, files, outcome, mishaps>>

CloseProducer ==
  /\ phase = "close_producer"
  /\ open' = open \ {"producer"}
  /\ phase' = "close_pool"
  /\ UNCHANGED <<tries, consumer, files, outcome, mishaps>>

(* aclose() or stop() raises: the closes after it are skipped.             *)
CloseFails ==
  /\ phase \in {"close_http", "close_producer", "close_pool"}
  /\ Mishap
  /\ End("close_error")
  /\ UNCHANGED files

ClosePool ==
  /\ phase = "close_pool"
  /\ phase' = "down"
  /\ open' = {}
  /\ leaked' = open \ {"pool"}
  /\ ending' = IF consumer = "raised" THEN "consumer_error" ELSE "stopped"
  /\ consumer' = "none"
  /\ UNCHANGED <<tries, files, mishaps>>

(* SIGKILL, or a signal before the handlers are installed.                 *)
Kill ==
  /\ phase \notin {"created", "down"}
  /\ Mishap
  /\ End("killed")
  /\ UNCHANGED files

(* The last heartbeat is 20 s old; app() writes one every 5 s.             *)
BeatAges ==
  /\ beat
  /\ phase \notin {"running", "await_consumer"}
  /\ beat' = FALSE
  /\ UNCHANGED <<phase, tries, consumer, open, ready, outcome, mishaps>>

StartupStep ==
  \/ Configure \/ CreatePool \/ CreatePoolFails
  \/ CreateProducer \/ CreateProducerFails

CleanupStep == AwaitConsumer \/ CloseHttp \/ CloseProducer \/ ClosePool

ProcessStep ==
  \/ Misconfigured \/ StartupStep \/ CleanupStep \/ CloseFails
  \/ ConsumerEnds \/ ConsumerRaises \/ Stop \/ Kill \/ Relaunch \/ BeatAges

-----------------------------------------------------------------------------
(* The container's healthcheck.                                            *)
Healthy == ready /\ beat

ProcessTypeOK ==
  /\ ready \in BOOLEAN /\ beat \in BOOLEAN
  /\ phase \in Phases
  /\ tries \in 0..(StartupTries - 1)
  /\ consumer \in ConsumerStates
  /\ {open, leaked} \subseteq SUBSET Connections
  /\ ending \in Endings
  /\ mishaps \in 0..MaxMishaps

(* The ready file of a process that has begun its startup is its own: it   *)
(* exists only while every connection is open.  A file that outlived a     *)
(* killed process is seen only until the next one begins.                  *)
ReadyIsCurrent ==
  ready /\ phase \notin {"down", "launched"} => open = Connections

(* The healthcheck accepts a worker that is down only after a kill, or if  *)
(* the process that followed it refused its settings.                      *)
HealthyEndsWithProcess ==
  Healthy /\ phase = "down" => ending \in {"killed", "misconfigured"}

(* A stop closes everything, in whatever state the signal found the        *)
(* consumer task - one that died of an error hours ago included - unless a *)
(* close itself failed.                                                    *)
StopClosesAll ==
  ending \in {"stopped", "consumer_error"} => leaked = {}

(* A stop ends the process, and so does or succeeds every start, within a  *)
(* bounded number of attempts.                                             *)
StopsAndStartsEnd ==
  /\ phase = "await_consumer" ~> phase = "down"
  /\ phase = "launched" ~> phase \in {"running", "down"}

=============================================================================
