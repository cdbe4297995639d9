--------------------------- MODULE NotificationApi ---------------------------
(***************************************************************************)
(* The API process between an event and the outbox: the lifespan hook and  *)
(* KafkaNotificationJobPublisher, the event route and NotificationService. *)
(* Events are handled concurrently; the only await of a handler is the     *)
(* publication of its job.  A client that got no answer may post its event *)
(* again; the API makes a new job of it.                                   *)
(***************************************************************************)
EXTENDS Environment

CONSTANTS
  Events,          \* the events clients post
  Kind,            \* what each event is, see Kinds
  StartAttempts,   \* max_attempts of the publisher's start()
  MaxPosts,        \* bound: how often one event is posted
  MaxRestarts      \* bound: shutdowns of the API process

(* A valid user_registered event, one whose payload does not validate, one *)
(* of the types answered with "not implemented", and a body that is not an *)
(* event at all.                                                           *)
Kinds == {"user_registered", "bad_payload", "not_implemented", "malformed"}

ASSUME ApiAssumption ==
  /\ Kind \in [Events -> Kinds]
  /\ StartAttempts \in Nat \ {0}
  /\ {MaxPosts, MaxRestarts} \subseteq Nat

VARIABLES
  apiProcess,  \* "down", "starting" (in lifespan) or "serving"
  apiTries,    \* failed attempts of start()
  producer,    \* the publisher holds a started producer
  enabled,     \* the publisher's _enabled
  handler,     \* per event: "idle", "publishing" or "answered"
  reply,       \* per event: the status of the last answer, 0 if none
  posts,       \* per event: how often it was posted
  outbox,      \* per event: how many jobs of it are in the outbox topic
  restarts     \* shutdowns so far

publisher == <<apiProcess, apiTries, producer, enabled>>
requests  == <<handler, reply, posts, outbox>>
apiVars   == <<publisher, requests, restarts>>

ApiInit ==
  /\ apiProcess = "down"
  /\ apiTries = 0
  /\ producer = FALSE
  /\ enabled = TRUE
  /\ handler = [e \in Events |-> "idle"]
  /\ reply = [e \in Events |-> 0]
  /\ posts = [e \in Events |-> 0]
  /\ outbox = [e \in Events |-> 0]
  /\ restarts = 0

-----------------------------------------------------------------------------
(* The process is launched with a new publisher; lifespan calls start().   *)
ApiLaunch ==
  /\ apiProcess = "down"
  /\ apiProcess' = "starting"
  /\ UNCHANGED <<apiTries, producer, enabled, requests, restarts>>

ApiStartOk ==
  /\ apiProcess = "starting"
  /\ brokerUp
  /\ apiProcess' = "serving"
  /\ apiTries' = 0
  /\ producer' = TRUE
  /\ UNCHANGED <<enabled, requests, restarts>>

(* Mutant of ApiStartFails: the last attempt is not recognised.            *)
ApiStartFailsForever ==
  /\ apiProcess = "starting"
  /\ ~brokerUp
  /\ UNCHANGED apiVars

(* Mutant of ApiStartFails: a retry keeps what the failed attempt left.    *)
ApiStartFailsKeepingProducer ==
  /\ apiProcess = "starting"
  /\ ~brokerUp
  /\ producer' = TRUE
  /\ IF apiTries + 1 < StartAttempts
     THEN apiTries' = apiTries + 1 /\ UNCHANGED <<apiProcess, enabled>>
     ELSE apiTries' = 0 /\ apiProcess' = "serving" /\ enabled' = FALSE
  /\ UNCHANGED <<requests, restarts>>

(* A failed attempt; the last one switches to degraded mode and the API    *)
(* serves without a producer.                                              *)
ApiStartFails ==
  /\ apiProcess = "starting"
  /\ ~brokerUp
  /\ IF apiTries + 1 < StartAttempts
     THEN apiTries' = apiTries + 1 /\ UNCHANGED <<apiProcess, enabled>>
     ELSE apiTries' = 0 /\ apiProcess' = "serving" /\ enabled' = FALSE
  /\ UNCHANGED <<producer, requests, restarts>>

(* The process ends, its publisher and the handlers in flight with it;     *)
(* nobody is answered.                                                     *)
ApiShutdown ==
  /\ apiProcess # "down"
  /\ restarts < MaxRestarts
  /\ restarts' = restarts + 1
  /\ apiProcess' = "down"
  /\ apiTries' = 0
  /\ producer' = FALSE
  /\ enabled' = TRUE
  /\ handler' = [e \in Events |->
       IF handler[e] = "publishing" THEN "idle" ELSE handler[e]]
  /\ UNCHANGED <<reply, posts, outbox>>

-----------------------------------------------------------------------------
(* KafkaNotificationJobPublisher.is_ready.                                 *)
IsReady == enabled /\ producer

(* The /ready route answers 200; SELECT 1 comes first.                     *)
Ready == apiProcess = "serving" /\ dbUp /\ IsReady

Answer(e, status) ==
  /\ handler' = [handler EXCEPT ![e] = "answered"]
  /\ reply' = [reply EXCEPT ![e] = status]

(* Mutant of Rejection: the payload is not validated.                      *)
RejectionUnvalidated(e) ==
  CASE Kind[e] = "malformed"       -> 422
    [] Kind[e] = "not_implemented" -> 501
    [] OTHER                       -> 0

(* The status of the error that receive_event's body model, or             *)
(* _map_event_to_jobs, raises; 0 if none.                                  *)
Rejection(e) ==
  CASE Kind[e] = "malformed"       -> 422
    [] Kind[e] = "bad_payload"     -> 400
    [] Kind[e] = "not_implemented" -> 501
    [] OTHER                       -> 0

(* A client posts an event, for the first time or because it got no answer.*)
Receive(e) ==
  /\ apiProcess = "serving"
  /\ handler[e] = "idle"
  /\ posts[e] < MaxPosts
  /\ posts' = [posts EXCEPT ![e] = @ + 1]
  /\ IF Rejection(e) = 0
     THEN handler' = [handler EXCEPT ![e] = "publishing"] /\ UNCHANGED reply
     ELSE Answer(e, Rejection(e))
  /\ UNCHANGED <<publisher, outbox, restarts>>

(* publish_job in degraded mode: the job is logged, the answer is 202.     *)
PublishDegraded(e) ==
  /\ handler[e] = "publishing"
  /\ ~IsReady
  /\ Answer(e, 202)
  /\ UNCHANGED <<publisher, posts, outbox, restarts>>

(* send_and_wait returns: the record is in the outbox.                     *)
PublishOk(e) ==
  /\ handler[e] = "publishing"
  /\ IsReady
  /\ brokerUp
  /\ "outbox" \in topics
  /\ outbox' = [outbox EXCEPT ![e] = @ + 1]
  /\ Answer(e, 202)
  /\ UNCHANGED <<publisher, posts, restarts>>

(* send_and_wait raises, the record written or not - or for want of the    *)
(* topic: publish_job logs the error and returns, and the answer is 202    *)
(* all the same.                                                           *)
PublishFails(e) ==
  /\ handler[e] = "publishing"
  /\ IsReady
  /\ \/ "outbox" \notin topics /\ UNCHANGED outbox
     \/ /\ ~brokerUp
        /\ "outbox" \in topics
        /\ outbox' \in {outbox, [outbox EXCEPT ![e] = @ + 1]}
  /\ Answer(e, 202)
  /\ UNCHANGED <<publisher, posts, restarts>>

(* The record is in the topic when the process dies over the await.        *)
PublishUnseen(e) ==
  /\ handler[e] = "publishing"
  /\ IsReady
  /\ brokerUp
  /\ "outbox" \in topics
  /\ restarts < MaxRestarts
  /\ outbox' = [outbox EXCEPT ![e] = @ + 1]
  /\ restarts' = restarts + 1
  /\ apiProcess' = "down"
  /\ apiTries' = 0
  /\ producer' = FALSE
  /\ enabled' = TRUE
  /\ handler' = [d \in Events |->
       IF handler[d] = "publishing" THEN "idle" ELSE handler[d]]
  /\ UNCHANGED <<reply, posts>>

PublishStep(e) == PublishDegraded(e) \/ PublishOk(e) \/ PublishFails(e)

ApiStep ==
  \/ ApiStartOk \/ ApiStartFails \/ ApiShutdown
  \/ \E e \in Events : Receive(e) \/ PublishStep(e) \/ PublishUnseen(e)

(* The fairness of the API: start() goes on.                               *)
ApiFairness == WF_apiVars(ApiStartOk \/ ApiStartFails)

-----------------------------------------------------------------------------
(* Every variable holds values of its type, and a producer exists only in  *)
(* a publisher that is not in degraded mode.                               *)
ApiTypeOK ==
  /\ producer \in BOOLEAN /\ enabled \in BOOLEAN
  /\ apiProcess \in {"down", "starting", "serving"}
  /\ apiTries \in 0..(StartAttempts - 1)
  /\ handler \in [Events -> {"idle", "publishing", "answered"}]
  /\ reply \in [Events -> {0, 202, 400, 422, 501}]
  /\ restarts \in Nat
  /\ posts \in [Events -> Nat]
  /\ outbox \in [Events -> Nat]
  /\ producer => enabled

(* An event puts at most one job into the outbox each time it is posted,   *)
(* whatever the broker and the process do; one that is not a valid         *)
(* user_registered event never puts any.                                   *)
OneJobPerPost ==
  \A e \in Events :
    outbox[e] <= IF Kind[e] = "user_registered" THEN posts[e] ELSE 0

(* A started process always comes to serve, with or without Kafka.         *)
ApiStartupEnds == apiProcess = "starting" ~> apiProcess # "starting"

(* NotificationService.handle_event "returns the number of enqueued jobs": *)
(* an answer 202 means that the job is in the outbox.                      *)
AcceptedMeansEnqueued ==
  \A e \in Events : reply[e] = 202 => outbox[e] > 0

=============================================================================
