-------------------------- MODULE AttemptProperties --------------------------
(***************************************************************************)
(* What the template routes and a delivery attempt promise, stated over    *)
(* the state of modules Templates and AttemptSend.                         *)
(***************************************************************************)
EXTENDS AttemptSend

(* Every variable holds values of its type.                                *)
TypeOK ==
  /\ DOMAIN templates = Ids /\ DOMAIN hist = Ids
  /\ \A i \in Ids : \A f \in Fields : templates[i][f] \in Text
  /\ at \in [Requests -> {"new", "insert", "commit", "refresh", "answered"}]
  /\ status \in [Requests -> {0, 200, 201, 404, 409, 500}]
  /\ clock \in Nat
  /\ since \in [Requests -> Nat]
  /\ present \in [Requests -> SUBSET Ids]
  /\ step \in [Jobs -> {"idle", "contacts", "template", "send", "sleep",
                        "sent", "failed"}]
  /\ attempts \in [Jobs -> 0..MaxAttempts]
  /\ wait \in [Jobs -> Nat]
  /\ began \in [Jobs -> Nat]
  /\ authFailures \in [Jobs -> 0..MaxAuthFailures]

-----------------------------------------------------------------------------
(* Templates.                                                              *)

Update(r) == Ask[r].op = "update"

(* A code, locale and channel name at most one template, so the worker's   *)
(* LIMIT 1 never has a choice, and only one of several concurrent creates  *)
(* is answered with 201.                                                   *)
OneTemplatePerKey ==
  /\ \A i, k \in Stored : templates[i].key = templates[k].key => i = k
  /\ \A r, q \in Requests :
       status[r] = 201 /\ status[q] = 201 /\ Ask[r].key = Ask[q].key => r = q

(* An update that left a field out never takes it back to an older value:  *)
(* a field that one request alone writes has its value once that request   *)
(* is answered, whatever else commits between its read and its write.      *)
SoleWriterWins ==
  \A r \in Requests : Update(r) /\ status[r] = 200 =>
    \A f \in Given(r) :
      (\A q \in Requests \ {r} :
         Update(q) /\ Ask[q].id = Ask[r].id => f \notin Given(q))
      => templates[Ask[r].id][f] = Ask[r][f]

(* Each field of an update answered with 200 was in the row at some moment *)
(* after the update read it - although a field that already had the value  *)
(* is not written and another update may have changed it by then.          *)
UpdateTakesEffect ==
  \A r \in Requests : Update(r) /\ status[r] = 200 =>
    \A f \in Given(r) : \E v \in since[r]..Len(hist[Ask[r].id]) :
      hist[Ask[r].id][v][f] = Ask[r][f]

(* A client that reads the list to its end has met every template there    *)
(* was at its first page, whatever was created or changed between pages.   *)
PagingMissesNothing ==
  \A r \in Requests : Ask[r].op = "list" /\ status[r] = 200 =>
    \A i \in present[r] : \E n \in DOMAIN seen[r] : seen[r][n] = i

-----------------------------------------------------------------------------
(* Attempts.                                                               *)

(* Subject and body of a sent notification are one version of the template *)
(* that was current during the very attempt that sent it: a retry renders  *)
(* again, and an update never shows half.                                  *)
SentCurrentTemplate ==
  \A d \in delivered : LET i == FindByKey(Key[d.job]) IN
    \E v \in Larger(1, d.began)..Len(hist[i]) :
      \A f \in Fields : hist[i][v][f] = d.message[f]

(* A made-up address is used at most once for every auth call that failed: *)
(* while the auth service answers, a user without the contact gets nothing *)
(* and everybody else is reached at the real address.                      *)
MadeUpOnlyInOutage ==
  \A j \in Jobs : LET sent == {d \in delivered : d.job = j} IN
    /\ \A d \in sent : d.to \in {Contact[j], MadeUp} \ {NoText}
    /\ AuthBaseUrl =>
         Cardinality({d \in sent : d.to = MadeUp}) <= authFailures[j]

(* The n-th retry waits for the n-th number of RETRY_DELAYS_SECONDS_RAW,   *)
(* empty parts not counted, and for the last one when there are fewer.     *)
DelayAsConfigured ==
  \A j \in Jobs : step[j] = "sleep" =>
    \E p \in DOMAIN raw :
      LET before == Cardinality({q \in 1..p : raw[q] # Blank})
          after  == Cardinality({q \in p + 1..Len(raw) : raw[q] # Blank})
      IN /\ raw[p] # Blank
         /\ before = attempts[j] \/ (before < attempts[j] /\ after = 0)
         /\ wait[j] = raw[p]

=============================================================================
