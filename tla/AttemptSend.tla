----------------------------- MODULE AttemptSend -----------------------------
(***************************************************************************)
(* JobProcessor._attempt_send inside the retry loop, over the templates    *)
(* table while template requests change it: contacts from the auth         *)
(* service, the template by key, rendering, the channel and its sender.    *)
(* Claim, rows and DLQ are in module Worker, whose AttemptOk,              *)
(* AttemptFails and AttemptAckLost this module opens up.                   *)
(***************************************************************************)
EXTENDS Templates

CONSTANTS
  Jobs,            \* the jobs being attempted
  Key,             \* per job: template code, locale and channel, as one key
  Channel,         \* per job: its channel
  Contact,         \* per job: the user's contact for it, NoText if none
  Fits,            \* the pairs <<job, text>> that str.format accepts
  MaxAttempts,     \* settings.max_attempts
  AuthBaseUrl,     \* auth_base_url is set and AuthClient has an HTTP client
  RawDelays,       \* the values of settings.retry_delays_seconds_raw
  MaxAuthFailures, \* bound: auth calls that fail
  Mixes            \* bound: which requests and jobs run side by side

(* The parts of the raw setting: a number, nothing between two commas, or  *)
(* something that float() refuses.                                         *)
Blank == -1
Junk  == -2

(* An address of _fake_contacts, which nobody really has.                  *)
MadeUp == "made up"

ASSUME AttemptAssumption ==
  /\ Channel \in [Jobs -> {"email", "push", "ws", "sms"}]
  /\ MaxAttempts \in Nat \ {0}
  /\ AuthBaseUrl \in BOOLEAN
  /\ \A j \in Jobs : Contact[j] # MadeUp
  /\ RawDelays \subseteq Seq(Nat \cup {Blank, Junk})
  /\ MaxAuthFailures \in Nat
  /\ Mixes \subseteq SUBSET (Requests \cup Jobs)

VARIABLES
  mix,           \* the requests and jobs of this behaviour
  raw,           \* settings.retry_delays_seconds_raw, as its parts
  step,          \* the await each job's attempt stands at
  attempts,      \* `attempts` of attempt_with_retries
  wait,          \* the delay the retry sleep was given
  contact,       \* `contacts`, cut down to the job's channel
  message,       \* `subject` and `body`, rendered
  began,         \* history: versions of the template as the attempt began
  authFailures,  \* history: failed auth calls of each job
  delivered      \* what the senders got out

settings == <<mix, raw>>
sending  == <<step, attempts, wait, contact, message, began>>
svars    == <<settings, sending, authFailures, delivered>>
vars     == <<tvars, svars>>

NoMessage == [subject |-> NoText, body |-> NoText]

-----------------------------------------------------------------------------
(* Settings.retry_delays_seconds: the numbers among the parts.             *)
Numbers(parts) ==
  LET kept == InOrder({n \in DOMAIN parts : parts[n] # Blank},
                      [n \in DOMAIN parts |-> n])
  IN [k \in DOMAIN kept |-> parts[kept[k]]]

(* The property raises ValueError; app() then does not start.              *)
DelaysInvalid(parts) ==
  Numbers(parts) = <<>> \/ \E n \in DOMAIN parts : parts[n] = Junk

Larger(a, b)  == IF a > b THEN a ELSE b
Smaller(a, b) == IF a < b THEN a ELSE b

(* Mutant of RetryDelay: the attempt count is used as the index.           *)
RetryDelayLate(n, delays) == delays[Smaller(n + 1, Len(delays))]

(* _get_retry_delay, with the list's indices from 1.                       *)
RetryDelay(n, delays) ==
  IF delays = <<>>
  THEN 0
  ELSE delays[1 + Larger(0, Smaller(n - 1, Len(delays) - 1))]

-----------------------------------------------------------------------------
Init ==
  /\ TemplatesInit
  /\ mix \in Mixes
  /\ raw \in RawDelays
  /\ step = [j \in Jobs |-> "idle"]
  /\ attempts = [j \in Jobs |-> 0]
  /\ wait = [j \in Jobs |-> 0]
  /\ contact = [j \in Jobs |-> NoText]
  /\ message = [j \in Jobs |-> NoMessage]
  /\ began = [j \in Jobs |-> 0]
  /\ authFailures = [j \in Jobs |-> 0]
  /\ delivered = {}

Goto(j, l) == step' = [step EXCEPT ![j] = l]

Versions(j) == LET i == FindByKey(Key[j]) IN
  IF i = NoId THEN 0 ELSE Len(hist[i])

(* Mutant of BeginAttempt: a retry sends what was rendered before.         *)
BeginAttemptCached(j) ==
  /\ step[j] \in {"idle", "sleep"}
  /\ ~DelaysInvalid(raw)
  /\ attempts' = [attempts EXCEPT ![j] = @ + 1]
  /\ wait' = [wait EXCEPT ![j] = 0]
  /\ began' = [began EXCEPT ![j] = Versions(j)]
  /\ Goto(j, IF message[j] = NoMessage THEN "contacts" ELSE "send")
  /\ UNCHANGED <<tvars, settings, contact, message, authFailures, delivered>>

(* The loop body begins; the settings were valid or there is no worker.    *)
BeginAttempt(j) ==
  /\ step[j] \in {"idle", "sleep"}
  /\ ~DelaysInvalid(raw)
  /\ attempts' = [attempts EXCEPT ![j] = @ + 1]
  /\ wait' = [wait EXCEPT ![j] = 0]
  /\ began' = [began EXCEPT ![j] = Versions(j)]
  /\ Goto(j, "contacts")
  /\ UNCHANGED <<tvars, settings, contact, message, authFailures, delivered>>

(* Mutant of Raised: one attempt too many.                                 *)
RaisedOnceMore(j) ==
  IF attempts[j] <= MaxAttempts
  THEN /\ wait' = [wait EXCEPT ![j] = RetryDelay(attempts[j], Numbers(raw))]
       /\ Goto(j, "sleep")
  ELSE Goto(j, "failed") /\ UNCHANGED wait

(* _attempt_send raises: sleep and try again, or mark_failure and the DLQ. *)
Raised(j) ==
  IF attempts[j] < MaxAttempts
  THEN /\ wait' = [wait EXCEPT ![j] = RetryDelay(attempts[j], Numbers(raw))]
       /\ Goto(j, "sleep")
  ELSE Goto(j, "failed") /\ UNCHANGED wait

(* Mutant of GetContacts: a missing contact is made up too.                *)
GetContactsOrMadeUp(j) ==
  /\ step[j] = "contacts"
  /\ contact' = [contact EXCEPT ![j] =
       IF AuthBaseUrl /\ Contact[j] # NoText THEN Contact[j] ELSE MadeUp]
  /\ Goto(j, "template")
  /\ UNCHANGED <<tvars, settings, attempts, wait, message, began, authFailures,
                 delivered>>

(* get_user_contacts answers; a user without the contact has None there.   *)
GetContacts(j) ==
  /\ step[j] = "contacts"
  /\ contact' = [contact EXCEPT ![j] =
       IF AuthBaseUrl THEN Contact[j] ELSE MadeUp]
  /\ Goto(j, "template")
  /\ UNCHANGED <<tvars, settings, attempts, wait, message, began, authFailures,
                 delivered>>

(* The auth call fails: _fake_contacts, and the attempt goes on.           *)
GetContactsFails(j) ==
  /\ step[j] = "contacts"
  /\ AuthBaseUrl
  /\ authFailures[j] < MaxAuthFailures
  /\ authFailures' = [authFailures EXCEPT ![j] = @ + 1]
  /\ contact' = [contact EXCEPT ![j] = MadeUp]
  /\ Goto(j, "template")
  /\ UNCHANGED <<tvars, settings, attempts, wait, message, began, delivered>>

(* The service answers with JSON that is no object: data.get raises.       *)
GetContactsRaises(j) ==
  /\ step[j] = "contacts"
  /\ AuthBaseUrl
  /\ Raised(j)
  /\ UNCHANGED <<tvars, settings, attempts, contact, message, began, authFailures,
                 delivered>>

Renders(j, text) == text = NoText \/ <<j, text>> \in Fits

(* No template, a variable missing in the data, or an invalid format.      *)
Unrenderable(j, i) ==
  i = NoId \/ \E f \in Fields : ~Renders(j, templates[i][f])

(* One SELECT; then both texts are rendered and the channel is looked at.  *)
GetTemplate(j) ==
  /\ step[j] = "template"
  /\ LET i == FindByKey(Key[j]) IN
       /\ ~Unrenderable(j, i)
       /\ message' = [message EXCEPT
            ![j] = [subject |-> templates[i].subject, body |-> templates[i].body]]
  /\ contact[j] # NoText
  /\ Channel[j] # "sms"
  /\ Goto(j, "send")
  /\ UNCHANGED <<tvars, settings, attempts, wait, contact, began, authFailures,
                 delivered>>

(* Also when the SELECT itself fails.                                      *)
GetTemplateRaises(j) ==
  /\ step[j] = "template"
  /\ Raised(j)
  /\ UNCHANGED <<tvars, settings, attempts, contact, message, began, authFailures,
                 delivered>>

Deliver(j) ==
  delivered' = delivered \cup
    {[job |-> j, to |-> contact[j], message |-> message[j],
      began |-> began[j], attempt |-> attempts[j]]}

Send(j) ==
  /\ step[j] = "send"
  /\ Deliver(j)
  /\ Goto(j, "sent")
  /\ UNCHANGED <<tvars, settings, attempts, wait, contact, message, began,
                 authFailures>>

(* aiosmtplib raises, the mail taken or not.  PushSender and WsSender only *)
(* log and raise for an empty recipient, which was excluded before.        *)
SendRaises(j) ==
  /\ step[j] = "send"
  /\ Channel[j] = "email"
  /\ Deliver(j) \/ UNCHANGED delivered
  /\ Raised(j)
  /\ UNCHANGED <<tvars, settings, attempts, contact, message, began, authFailures>>

AttemptStep(j) ==
  \/ BeginAttempt(j)
  \/ GetContacts(j) \/ GetContactsFails(j) \/ GetContactsRaises(j)
  \/ GetTemplate(j) \/ GetTemplateRaises(j)
  \/ Send(j) \/ SendRaises(j)

Next ==
  \/ \E r \in Requests \cap mix : RequestStep(r) /\ UNCHANGED svars
  \/ \E j \in Jobs \cap mix : AttemptStep(j)

Spec == Init /\ [][Next]_vars

=============================================================================
