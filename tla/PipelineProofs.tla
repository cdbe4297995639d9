--------------------------- MODULE PipelineProofs ---------------------------
(***************************************************************************)
(* Proofs about a deployment, for any events, numbers of attempts and      *)
(* bounds: the life of the worker process, the initialisation scripts and  *)
(* the event handlers.                                                     *)
(***************************************************************************)
EXTENDS Pipeline, TLAPS

(* Topics come from kafka_init, or from the broker itself.                 *)
TopicStep == KafkaScriptStep \/ CreateOnUse

(* Each kind of step, as one module sees the steps of all others.          *)
LEMMA StepCases ==
  ASSUME [Next]_vars
  PROVE  /\ ProcessStep \/ (Deploy /\ Initialised) \/ UNCHANGED process
         /\ TopicStep \/ DbScriptStep \/ UNCHANGED scripts
         /\ ApiStep \/ (ApiLaunch /\ Initialised) \/ UNCHANGED apiVars
BY DEF Next, vars, LaunchApi, LaunchWorker, WorkerStep, TopicStep

-----------------------------------------------------------------------------
(* The worker process.                                                     *)

(* What is open, and whether the ready file can be there, at each phase.   *)
OpenByPhase ==
  /\ phase \in {"running", "await_consumer"} => open = Connections
  /\ phase = "close_producer" => open \subseteq {"producer", "pool"}
  /\ phase = "close_pool" => open \subseteq {"pool"}

ReadyByPhase ==
  ready => phase \in {"launched", "running", "await_consumer", "down"}

ProcessInv ==
  /\ ready \in BOOLEAN /\ beat \in BOOLEAN
  /\ OpenByPhase
  /\ ReadyByPhase
  /\ open \subseteq Connections
  /\ HealthyEndsWithProcess
  /\ StopClosesAll
  /\ ready /\ phase = "down" => ending \in {"killed", "misconfigured"}

(* Every step of app() and every mishap keeps ProcessInv.                  *)
LEMMA ProcessInvStep ==
  ASSUME ProcessInv, ProcessStep \/ Deploy \/ UNCHANGED process
  PROVE  ProcessInv'
<1> USE DEF ProcessInv, OpenByPhase, ReadyByPhase, HealthyEndsWithProcess,
            StopClosesAll, Healthy, Connections
<1>1. CASE UNCHANGED process
  BY <1>1 DEF process, files, outcome
<1>2. CASE Deploy
  BY <1>2 DEF Deploy, files, outcome
<1>3. CASE Configure
  BY <1>3 DEF Configure, outcome
<1>4. CASE CreatePool
  BY <1>4 DEF CreatePool, files, outcome
<1>5. CASE CreateProducer
  BY <1>5 DEF CreateProducer, outcome
<1>6. CASE CreatePoolFails
  BY <1>6 DEF CreatePoolFails, TryAgain, End, files, outcome
<1>7. CASE CreateProducerFails
  BY <1>7 DEF CreateProducerFails, TryAgain, End, files, outcome
<1>8. CASE AwaitConsumer
  BY <1>8 DEF AwaitConsumer, outcome
<1>9. CASE CloseHttp
  BY <1>9 DEF CloseHttp, files, outcome
<1>10. CASE CloseProducer
  BY <1>10 DEF CloseProducer, files, outcome
<1>11. CASE ClosePool
  BY <1>11 DEF ClosePool, files
<1>12. CASE Misconfigured
  BY <1>12 DEF Misconfigured, Mishap, End, files
<1>13. CASE CloseFails
  BY <1>13 DEF CloseFails, Mishap, End, files
<1>14. CASE Kill
  BY <1>14 DEF Kill, Mishap, End, files
<1>15. CASE ConsumerEnds
  BY <1>15 DEF ConsumerEnds, files, outcome
<1>16. CASE ConsumerRaises
  BY <1>16 DEF ConsumerRaises, Mishap, files, outcome
<1>17. CASE Stop
  BY <1>17 DEF Stop, Mishap, files, outcome
<1>18. CASE Relaunch
  BY <1>18 DEF Relaunch, Mishap, files
<1>19. CASE BeatAges
  BY <1>19 DEF BeatAges, outcome
<1> QED
  BY <1>1, <1>2, <1>3, <1>4, <1>5, <1>6, <1>7, <1>8, <1>9, <1>10, <1>11, <1>12, <1>13, <1>14, <1>15, <1>16, <1>17, <1>18, <1>19
     DEF ProcessStep, StartupStep, CleanupStep

(* What each phase of app() says of connections and files always holds.    *)
LEMMA ProcessInvariant == Spec => []ProcessInv
<1>1. Init => ProcessInv
  BY DEF Init, ProcessInit, ProcessInv, OpenByPhase, ReadyByPhase,
         HealthyEndsWithProcess, StopClosesAll, Healthy, Connections
<1>2. ProcessInv /\ [Next]_vars => ProcessInv'
  BY StepCases, ProcessInvStep
<1> QED
  BY <1>1, <1>2, PTL DEF Spec

(* The ready file of a process that has begun its startup is its own,      *)
(* whatever file a killed predecessor left: clear_ready at the top of      *)
(* app() and in its finally, mark_ready only with everything open.         *)
THEOREM ReadyCurrent == Spec => []ReadyIsCurrent
<1>1. ProcessInv => ReadyIsCurrent
  BY DEF ProcessInv, ReadyIsCurrent, ReadyByPhase, OpenByPhase
<1> QED
  BY <1>1, ProcessInvariant, PTL

(* The healthcheck accepts a worker that is down only after a kill or a    *)
(* successor that refused its settings, however the process was ended.     *)
THEOREM HealthEnds == Spec => []HealthyEndsWithProcess
<1>1. ProcessInv => HealthyEndsWithProcess
  BY DEF ProcessInv
<1> QED
  BY <1>1, ProcessInvariant, PTL

(* A stop closes every connection, also when the consumer task had died    *)
(* and its error is raised in the middle of the shutdown.                  *)
THEOREM StopCloses == Spec => []StopClosesAll
<1>1. ProcessInv => StopClosesAll
  BY DEF ProcessInv
<1> QED
  BY <1>1, ProcessInvariant, PTL

-----------------------------------------------------------------------------
(* The initialisation scripts.                                             *)

(* What each await of the scripts knows of topics and tables: a list that  *)
(* is partly created and read again is covered by `missing`, and what the  *)
(* broker did not create although it answered by `refused`.                *)
ScriptsInv ==
  /\ topics \subseteq Topics
  /\ missing \subseteq Topics
  /\ kafkaInit = "create" => Topics \subseteq topics \cup missing
  /\ kafkaInit = "done" => Topics \ refused \subseteq topics
  /\ tables \in BOOLEAN
  /\ dbInit = "done" => tables

(* No step of the scripts or of compose breaks what their awaits know.     *)
LEMMA ScriptsInvStep ==
  ASSUME ScriptsInv, TopicStep \/ DbScriptStep \/ UNCHANGED scripts
  PROVE  ScriptsInv'
<1> USE DEF ScriptsInv, Topics
<1>1. CASE UNCHANGED scripts
  BY <1>1 DEF scripts, kafkaScript, dbScript
<1>2. CASE KafkaAnswers
  BY <1>2 DEF KafkaAnswers, dbScript
<1>3. CASE KafkaWaits
  BY <1>3 DEF KafkaWaits, KafkaInitExits, dbScript
<1>4. CASE ListTopics
  BY <1>4 DEF ListTopics, dbScript
<1>5. CASE CreateTopics
  BY <1>5 DEF CreateTopics, dbScript
<1>6. CASE TopicsFail
  BY <1>6 DEF TopicsFail, KafkaInitExits, dbScript
<1>7. CASE CreateTables
  BY <1>7 DEF CreateTables, kafkaScript
<1>8. CASE DbWaits
  BY <1>8 DEF DbWaits, kafkaScript
<1>9. CASE CreateOnUse
  BY <1>9 DEF CreateOnUse, dbScript
<1> QED
  BY <1>1, <1>2, <1>3, <1>4, <1>5, <1>6, <1>7, <1>8, <1>9
     DEF TopicStep, KafkaScriptStep, DbScriptStep

(* Scripts that are done stay done.                                        *)
LEMMA InitialisedStays ==
  ASSUME Initialised, TopicStep \/ DbScriptStep \/ UNCHANGED scripts
  PROVE  Initialised'
BY DEF Initialised, TopicStep, CreateOnUse, KafkaScriptStep, DbScriptStep, KafkaAnswers, KafkaWaits,
       ListTopics, CreateTopics, TopicsFail, CreateTables, DbWaits, dbScript,
       kafkaScript, scripts

(* Only what compose has launched runs.                                    *)
LaunchedAfter ==
  /\ apiProcess # "down" => Initialised
  /\ phase # "created" => Initialised

(* The API is launched by compose alone.                                   *)
LEMMA ApiStaysDown ==
  ASSUME apiProcess = "down", ApiStep \/ UNCHANGED apiVars
  PROVE  apiProcess' = "down"
BY DEF ApiStep, ApiStartOk, ApiStartFails, ApiShutdown, Receive, PublishStep,
       PublishDegraded, PublishOk, PublishFails, PublishUnseen, publisher,
       apiVars

(* So is the worker.                                                       *)
LEMMA WorkerStaysCreated ==
  ASSUME phase = "created", ProcessStep \/ UNCHANGED process
  PROVE  phase' = "created"
BY DEF ProcessStep, StartupStep, CleanupStep, Configure, CreatePool,
       CreatePoolFails, CreateProducer, CreateProducerFails, AwaitConsumer,
       CloseHttp, CloseProducer, ClosePool, Misconfigured, CloseFails,
       ConsumerEnds, ConsumerRaises, Stop, Kill, Relaunch, BeatAges, process

SchemaInv == ScriptsInv /\ LaunchedAfter

(* What the awaits of the scripts know, and who was launched, always       *)
(* holds.                                                                  *)
LEMMA SchemaInvariant == Spec => []SchemaInv
<1>1. Init => SchemaInv
  BY DEF Init, ScriptsInit, ApiInit, ProcessInit, SchemaInv, ScriptsInv,
         LaunchedAfter
<1>2. ASSUME SchemaInv, [Next]_vars PROVE SchemaInv'
  <2>1. TopicStep \/ DbScriptStep \/ UNCHANGED scripts
    BY <1>2, StepCases
  <2>2. ScriptsInv'
    BY <1>2, <2>1, ScriptsInvStep DEF SchemaInv
  <2>3. ASSUME Initialised PROVE Initialised'
    BY <2>1, <2>3, InitialisedStays
  <2>4. ASSUME apiProcess' # "down" PROVE Initialised'
    <3>1. Initialised
      BY <1>2, <2>4, StepCases, ApiStaysDown DEF SchemaInv, LaunchedAfter
    <3> QED
      BY <2>3, <3>1
  <2>5. ASSUME phase' # "created" PROVE Initialised'
    <3>1. Initialised
      BY <1>2, <2>5, StepCases, WorkerStaysCreated DEF SchemaInv, LaunchedAfter
    <3> QED
      BY <2>3, <3>1
  <2> QED
    BY <2>2, <2>4, <2>5 DEF SchemaInv, LaunchedAfter
<1> QED
  BY <1>1, <1>2, PTL DEF Spec

(* Neither a ready API nor a consuming worker is ever without the schema   *)
(* and both topics, those apart that the broker refused: whatever Kafka    *)
(* and Postgres do while the scripts run and however often kafka_init is   *)
(* restarted half way.                                                     *)
THEOREM SchemaFirst == Spec => []TrafficNeedsSchema
<1>1. SchemaInv => TrafficNeedsSchema
  BY DEF SchemaInv, ScriptsInv, LaunchedAfter, TrafficNeedsSchema, Ready,
         Consuming, Initialised
<1> QED
  BY <1>1, SchemaInvariant, PTL

-----------------------------------------------------------------------------
(* The event handlers.                                                     *)

(* A post that has not yet put its job into the outbox still may; an event *)
(* that is rejected never comes to that.                                   *)
Pending(e) == IF handler[e] = "publishing" THEN 1 ELSE 0

EventInv ==
  /\ handler \in [Events -> {"idle", "publishing", "answered"}]
  /\ posts \in [Events -> Nat]
  /\ outbox \in [Events -> Nat]
  /\ \A e \in Events :
       IF Kind[e] = "user_registered"
       THEN outbox[e] + Pending(e) <= posts[e]
       ELSE outbox[e] = 0 /\ handler[e] # "publishing"

(* A handler turns each post into one job at most.                         *)
LEMMA EventInvStep ==
  ASSUME EventInv, ApiStep \/ ApiLaunch \/ UNCHANGED apiVars
  PROVE  EventInv'
<1> USE DEF EventInv, Pending
<1>1. CASE UNCHANGED apiVars
  BY <1>1 DEF apiVars, requests
<1>2. CASE ApiLaunch \/ ApiStartOk \/ ApiStartFails
  BY <1>2 DEF ApiLaunch, ApiStartOk, ApiStartFails, requests
<1>3. CASE ApiShutdown
  BY <1>3 DEF ApiShutdown
<1>4. ASSUME NEW e \in Events, Receive(e) PROVE EventInv'
  <2>1. Kind[e] # "user_registered" => Rejection(e) # 0
    BY ApiAssumption DEF Rejection, Kinds
  <2> QED
    BY <1>4, <2>1 DEF Receive, Answer
<1>5. ASSUME NEW e \in Events, PublishDegraded(e) PROVE EventInv'
  BY <1>5 DEF PublishDegraded, Answer
<1>6. ASSUME NEW e \in Events, PublishOk(e) PROVE EventInv'
  BY <1>6 DEF PublishOk, Answer
<1>7. ASSUME NEW e \in Events, PublishFails(e) PROVE EventInv'
  BY <1>7 DEF PublishFails, Answer
<1>8. ASSUME NEW e \in Events, PublishUnseen(e) PROVE EventInv'
  BY <1>8 DEF PublishUnseen
<1> QED
  BY <1>1, <1>2, <1>3, <1>4, <1>5, <1>6, <1>7, <1>8 DEF ApiStep, PublishStep

(* No event has more jobs in the outbox than it was posted, and a rejected *)
(* one has none, for any number of events, posts, outages and restarts.    *)
THEOREM JobPerPost == Spec => []OneJobPerPost
<1>1. Init => EventInv
  BY DEF Init, ApiInit, EventInv, Pending
<1>2. EventInv /\ [Next]_vars => EventInv'
  BY StepCases, EventInvStep
<1>3. EventInv => OneJobPerPost
  BY DEF EventInv, Pending, OneJobPerPost
<1> QED
  BY <1>1, <1>2, <1>3, PTL DEF Spec

-----------------------------------------------------------------------------
(* Types.                                                                  *)

(* start() begins with a publisher that is enabled and holds nothing.      *)
ApiInv ==
  /\ ApiTypeOK
  /\ apiProcess # "serving" => enabled /\ ~producer

(* No step of the API breaks the order of its startup.                     *)
LEMMA ApiInvStep ==
  ASSUME ApiInv, ApiStep \/ ApiLaunch \/ UNCHANGED apiVars
  PROVE  ApiInv'
<1> USE ApiAssumption DEF ApiInv, ApiTypeOK
<1>1. CASE UNCHANGED apiVars
  BY <1>1 DEF apiVars, requests, publisher
<1>2. CASE ApiLaunch
  BY <1>2 DEF ApiLaunch, requests
<1>3. CASE ApiStartOk
  BY <1>3 DEF ApiStartOk, requests
<1>4. CASE ApiStartFails
  <2>1. CASE apiTries + 1 < StartAttempts
    <3>1. apiTries' = apiTries + 1 /\ UNCHANGED <<apiProcess, enabled>>
      BY <1>4, <2>1, Zenon DEF ApiStartFails
    <3>2. apiTries' \in 0..(StartAttempts - 1)
      BY <2>1, <3>1
    <3> QED
      BY <1>4, <3>1, <3>2, Zenon DEF ApiStartFails, requests
  <2>2. CASE ~(apiTries + 1 < StartAttempts)
    <3>1. apiTries' = 0 /\ apiProcess' = "serving" /\ enabled' = FALSE
      BY <1>4, <2>2, Zenon DEF ApiStartFails
    <3>2. apiTries' \in 0..(StartAttempts - 1)
      BY <3>1
    <3> QED
      BY <1>4, <3>1, <3>2 DEF ApiStartFails, requests
  <2> QED
    BY <2>1, <2>2
<1>5. CASE ApiShutdown
  <2>1. apiTries' \in 0..(StartAttempts - 1) /\ restarts' \in Nat
    BY <1>5 DEF ApiShutdown
  <2>2. handler' \in [Events -> {"idle", "publishing", "answered"}]
    BY <1>5 DEF ApiShutdown
  <2> QED
    BY <1>5, <2>1, <2>2, Zenon DEF ApiShutdown
<1>6. ASSUME NEW e \in Events, Receive(e) PROVE ApiInv'
  <2>1. Rejection(e) \in {0, 400, 422, 501}
    BY DEF Rejection
  <2> QED
    BY <1>6, <2>1 DEF Receive, Answer, publisher
<1>7. ASSUME NEW e \in Events, PublishDegraded(e) PROVE ApiInv'
  BY <1>7 DEF PublishDegraded, Answer, publisher
<1>8. ASSUME NEW e \in Events, PublishOk(e) PROVE ApiInv'
  BY <1>8 DEF PublishOk, Answer, publisher
<1>9. ASSUME NEW e \in Events, PublishFails(e) PROVE ApiInv'
  BY <1>9 DEF PublishFails, Answer, publisher
<1>10. ASSUME NEW e \in Events, PublishUnseen(e) PROVE ApiInv'
  <2>1. apiTries' \in 0..(StartAttempts - 1) /\ restarts' \in Nat
    BY <1>10 DEF PublishUnseen
  <2>2. handler' \in [Events -> {"idle", "publishing", "answered"}]
    BY <1>10 DEF PublishUnseen
  <2>3. outbox' \in [Events -> Nat]
    BY <1>10 DEF PublishUnseen
  <2> QED
    BY <1>10, <2>1, <2>2, <2>3, Zenon DEF PublishUnseen
<1> QED
  BY <1>1, <1>2, <1>3, <1>4, <1>5, <1>6, <1>7, <1>8, <1>9, <1>10
     DEF ApiStep, PublishStep

(* The worker process keeps its types.                                     *)
LEMMA ProcessTypeStep ==
  ASSUME ProcessTypeOK, ProcessStep \/ Deploy \/ UNCHANGED process
  PROVE  ProcessTypeOK'
<1> USE ProcessAssumption DEF ProcessTypeOK, Phases, ConsumerStates, Endings,
                              Connections
<1>1. CASE UNCHANGED process
  BY <1>1 DEF process, files, outcome
<1>2. CASE Deploy
  BY <1>2 DEF Deploy, files, outcome
<1>3. CASE Configure
  BY <1>3 DEF Configure, files, outcome
<1>4. CASE CreatePool
  BY <1>4 DEF CreatePool, files, outcome
<1>5. CASE CreateProducer
  BY <1>5 DEF CreateProducer, outcome
<1>6. CASE CreatePoolFails
  BY <1>6 DEF CreatePoolFails, TryAgain, End, files, outcome
<1>7. CASE CreateProducerFails
  BY <1>7 DEF CreateProducerFails, TryAgain, End, files, outcome
<1>8. CASE AwaitConsumer
  BY <1>8 DEF AwaitConsumer, outcome
<1>9. CASE CloseHttp
  BY <1>9 DEF CloseHttp, files, outcome
<1>10. CASE CloseProducer
  BY <1>10 DEF CloseProducer, files, outcome
<1>11. CASE ClosePool
  BY <1>11 DEF ClosePool, files
<1>12. CASE Misconfigured
  BY <1>12 DEF Misconfigured, Mishap, End, files
<1>13. CASE CloseFails
  BY <1>13 DEF CloseFails, Mishap, End, files
<1>14. CASE Kill
  BY <1>14 DEF Kill, Mishap, End, files
<1>15. CASE ConsumerEnds
  BY <1>15 DEF ConsumerEnds, files, outcome
<1>16. CASE ConsumerRaises
  BY <1>16 DEF ConsumerRaises, Mishap, files, outcome
<1>17. CASE Stop
  BY <1>17 DEF Stop, Mishap, files, outcome
<1>18. CASE Relaunch
  BY <1>18 DEF Relaunch, Mishap, files
<1>19. CASE BeatAges
  BY <1>19 DEF BeatAges, outcome
<1> QED
  BY <1>1, <1>2, <1>3, <1>4, <1>5, <1>6, <1>7, <1>8, <1>9, <1>10, <1>11,
     <1>12, <1>13, <1>14, <1>15, <1>16, <1>17, <1>18, <1>19
     DEF ProcessStep, StartupStep, CleanupStep

(* The scripts keep their types.                                           *)
LEMMA ScriptsTypeStep ==
  ASSUME ScriptsTypeOK, TopicStep \/ DbScriptStep \/ UNCHANGED scripts
  PROVE  ScriptsTypeOK'
<1> USE InitialisationAssumption DEF ScriptsTypeOK, Topics
<1>1. CASE UNCHANGED scripts
  BY <1>1 DEF scripts, kafkaScript, dbScript
<1>2. CASE KafkaAnswers
  BY <1>2 DEF KafkaAnswers, dbScript
<1>3. CASE KafkaWaits
  BY <1>3 DEF KafkaWaits, KafkaInitExits, dbScript
<1>4. CASE ListTopics
  BY <1>4 DEF ListTopics, dbScript
<1>5. CASE CreateTopics
  BY <1>5 DEF CreateTopics, dbScript
<1>6. CASE TopicsFail
  BY <1>6 DEF TopicsFail, KafkaInitExits, dbScript
<1>7. CASE CreateTables
  BY <1>7 DEF CreateTables, kafkaScript
<1>8. CASE DbWaits
  BY <1>8 DEF DbWaits, kafkaScript
<1>9. CASE CreateOnUse
  BY <1>9 DEF CreateOnUse, dbScript
<1> QED
  BY <1>1, <1>2, <1>3, <1>4, <1>5, <1>6, <1>7, <1>8, <1>9
     DEF TopicStep, KafkaScriptStep, DbScriptStep

JobsTypeOK ==
  /\ Contract!TypeOK
  /\ assigned \in BOOLEAN
  /\ skipped \subseteq PipelineJobs

(* The jobs keep the types of the contract.                                *)
LEMMA JobsTypeStep ==
  ASSUME JobsTypeOK, [Next]_vars
  PROVE  JobsTypeOK'
<1> USE DEF JobsTypeOK, Contract!TypeOK, Contract!Stages
<1>1. CASE UNCHANGED jobs
  BY <1>1 DEF jobs, contract, group, PipelineJobs
<1>2. CASE WorkerStep
  <2>1. /\ acked' = acked /\ skipped' = skipped /\ assigned' \in BOOLEAN
        /\ \/ stage' = stage
           \/ stage' = [j \in PipelineJobs |->
                IF stage[j] = "open" THEN "orphaned" ELSE stage[j]]
    BY <1>2 DEF WorkerStep
  <2>2. stage' \in [PipelineJobs -> Contract!Stages]
    BY <2>1
  <2>. QED
    BY <2>1, <2>2
<1>3. CASE Join
  BY <1>3 DEF Join, contract, PipelineJobs
<1>4. ASSUME NEW j \in PipelineJobs, JobStep(j) PROVE JobsTypeOK'
  BY <1>4 DEF JobStep, Take, Settle, Commit, Contract!Take, Contract!Settle,
              Contract!Ack, Contract!Move, group
<1> QED
  BY <1>1, <1>2, <1>3, <1>4 DEF Next, vars, LaunchApi, LaunchWorker

TypeInv == ApiInv /\ ProcessTypeOK /\ ScriptsTypeOK /\ JobsTypeOK

(* Every variable of a deployment keeps its type; a publisher in degraded  *)
(* mode never holds a producer.                                            *)
THEOREM DeploymentTyped == Spec => []TypeOK
<1>1. Init => TypeInv
  <2> SUFFICES ASSUME Init PROVE TypeInv
    OBVIOUS
  <2>1. ApiInv
    <3>1. apiTries \in 0..(StartAttempts - 1) /\ restarts \in Nat
      BY ApiAssumption DEF Init, ApiInit
    <3>2. /\ handler \in [Events -> {"idle", "publishing", "answered"}]
          /\ reply \in [Events -> {0, 202, 400, 422, 501}]
          /\ posts \in [Events -> Nat]
          /\ outbox \in [Events -> Nat]
      BY DEF Init, ApiInit
    <3> QED
      BY <3>1, <3>2, Zenon DEF Init, ApiInit, ApiInv, ApiTypeOK
  <2>2. ProcessTypeOK
    <3>1. tries \in 0..(StartupTries - 1) /\ mishaps \in 0..MaxMishaps
      BY ProcessAssumption DEF Init, ProcessInit
    <3> QED
      BY <3>1, Zenon DEF Init, ProcessInit, ProcessTypeOK, Phases,
         ConsumerStates, Endings, Connections
  <2>3. ScriptsTypeOK
    BY InitialisationAssumption DEF Init, ScriptsInit, ScriptsTypeOK
  <2>4. JobsTypeOK
    BY DEF Init, Contract!Init, JobsTypeOK, Contract!TypeOK, Contract!Stages
  <2> QED
    BY <2>1, <2>2, <2>3, <2>4 DEF TypeInv
<1>2. TypeInv /\ [Next]_vars => TypeInv'
  BY StepCases, ApiInvStep, ProcessTypeStep, ScriptsTypeStep, JobsTypeStep
     DEF TypeInv
<1>3. TypeInv => TypeOK
  BY DEF TypeInv, ApiInv, JobsTypeOK, TypeOK
<1> QED
  BY <1>1, <1>2, <1>3, PTL DEF Spec

=============================================================================
