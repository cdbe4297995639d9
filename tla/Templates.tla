------------------------------ MODULE Templates ------------------------------
(***************************************************************************)
(* The templates table and the template routes of the API.  Requests run   *)
(* concurrently, each with a session of its own; the control point of a    *)
(* request names the statement it waits for.  An update reads the row,     *)
(* changes the object it got and commits; the session then writes only the *)
(* columns that differ from what was read.                                 *)
(***************************************************************************)
EXTENDS Integers, Sequences, FiniteSets, Ordering

CONSTANTS
  Requests,   \* template requests of clients
  Ask,        \* what each request asks for, see Asks
  Seeds,      \* the rows there are at the start: id -> row
  PageSize    \* `limit` of a client that pages through the list

NoText == "none"   \* None in an optional text
NoId   == "none"
Text   == STRING \cup {NoText}

Fields == {"subject", "body"}

(* A create gives key, subject and body; an update names a row and gives   *)
(* some fields; a list is read page by page until a page is not full.      *)
Asks == [op : {"create", "update", "read", "list"}, key : STRING,
         id : STRING, subject : Text, body : Text]

Rows == [key : STRING, subject : Text, body : Text, created : Int]

NoTemplate == [key |-> "", subject |-> NoText, body |-> NoText, created |-> 0]

(* The rows at the start obey the unique key, were created one by one      *)
(* before the clock starts, and their ids are nobody's fresh ones.         *)
ASSUME TemplatesAssumption ==
  /\ \A r \in Requests : Ask[r] \in Asks
  /\ PageSize \in Nat \ {0}
  /\ IsFiniteSet(DOMAIN Seeds)
  /\ Seeds \in [DOMAIN Seeds -> Rows \ {NoTemplate}]
  /\ \A i \in DOMAIN Seeds : Seeds[i].created <= 0
  /\ \A i, k \in DOMAIN Seeds :
       Seeds[i].key = Seeds[k].key \/ Seeds[i].created = Seeds[k].created
         => i = k
  /\ \A r \in Requests : Ask[r].op = "create" => r \notin DOMAIN Seeds

(* The id of a created row is fresh; here it is the request's own name.    *)
Ids == DOMAIN Seeds \cup {r \in Requests : Ask[r].op = "create"}

VARIABLES
  templates,   \* the table: id -> row, NoTemplate where there is none
  at,          \* the statement each request waits for
  loaded,      \* per update: the row it has read
  seen,        \* per list: the ids of the pages so far, in order
  status,      \* per request: the status of its answer, 0 before
  clock,       \* created_at of the next transaction
  hist,        \* history: the committed versions of each row
  since,       \* history: per update, the version it has read
  present      \* history: per list, the rows there were at its first page

requests == <<at, loaded, seen, status>>
table    == <<templates, clock, hist>>
history  == <<since, present>>
tvars    == <<table, requests, history>>

TemplatesInit ==
  /\ templates = [i \in Ids |-> IF i \in DOMAIN Seeds THEN Seeds[i]
                                                      ELSE NoTemplate]
  /\ at = [r \in Requests |-> "new"]
  /\ loaded = [r \in Requests |-> NoTemplate]
  /\ seen = [r \in Requests |-> <<>>]
  /\ status = [r \in Requests |-> 0]
  /\ clock = 1
  /\ hist = [i \in Ids |-> IF i \in DOMAIN Seeds THEN <<Seeds[i]>> ELSE <<>>]
  /\ since = [r \in Requests |-> 0]
  /\ present = [r \in Requests |-> {}]

-----------------------------------------------------------------------------
Exists(i) == i \in Ids /\ templates[i] # NoTemplate
Stored    == {i \in Ids : Exists(i)}

(* uq_template_code_locale_channel.                                        *)
KeyTaken(k) == \E i \in Stored : templates[i].key = k

(* get_template: the row with the job's code, locale and channel.          *)
FindByKey(k) ==
  IF KeyTaken(k) THEN CHOOSE i \in Stored : templates[i].key = k ELSE NoId

Write(i, row) ==
  /\ templates' = [templates EXCEPT ![i] = row]
  /\ hist' = [hist EXCEPT ![i] = Append(@, row)]

Reply(r, code) ==
  /\ at' = [at EXCEPT ![r] = "answered"]
  /\ status' = [status EXCEPT ![r] = code]

(* create: the INSERT is sent; created_at is the transaction's now().      *)
Begin(r) ==
  /\ at[r] = "new"
  /\ Ask[r].op = "create"
  /\ clock' = clock + 1
  /\ loaded' = [loaded EXCEPT ![r].created = clock]
  /\ at' = [at EXCEPT ![r] = "insert"]
  /\ UNCHANGED <<templates, hist, seen, status, history>>

InsertRow(r) ==
  Write(r, [key |-> Ask[r].key, subject |-> Ask[r].subject,
            body |-> Ask[r].body, created |-> loaded[r].created])

(* Mutant of InsertConflict: no unique key, the row is a second one.       *)
InsertConflictStores(r) ==
  /\ at[r] = "insert"
  /\ KeyTaken(Ask[r].key)
  /\ InsertRow(r)
  /\ at' = [at EXCEPT ![r] = "refresh"]
  /\ UNCHANGED <<clock, loaded, seen, status, history>>

Insert(r) ==
  /\ at[r] = "insert"
  /\ ~KeyTaken(Ask[r].key)
  /\ InsertRow(r)
  /\ at' = [at EXCEPT ![r] = "refresh"]
  /\ UNCHANGED <<clock, loaded, seen, status, history>>

(* IntegrityError: 409.                                                    *)
InsertConflict(r) ==
  /\ at[r] = "insert"
  /\ KeyTaken(Ask[r].key)
  /\ Reply(r, 409)
  /\ UNCHANGED <<table, loaded, seen, history>>

(* find_by_id: None is 404; a read answers, an update goes on.             *)
FindMissing(r) ==
  /\ at[r] = "new"
  /\ Ask[r].op \in {"read", "update"}
  /\ ~Exists(Ask[r].id)
  /\ Reply(r, 404)
  /\ UNCHANGED <<table, loaded, seen, history>>

Read(r) ==
  /\ at[r] = "new"
  /\ Ask[r].op = "read"
  /\ Exists(Ask[r].id)
  /\ Reply(r, 200)
  /\ UNCHANGED <<table, loaded, seen, history>>

FindForUpdate(r) ==
  /\ at[r] = "new"
  /\ Ask[r].op = "update"
  /\ Exists(Ask[r].id)
  /\ loaded' = [loaded EXCEPT ![r] = templates[Ask[r].id]]
  /\ since' = [since EXCEPT ![r] = Len(hist[Ask[r].id])]
  /\ at' = [at EXCEPT ![r] = "commit"]
  /\ UNCHANGED <<table, seen, status, present>>

(* The fields the update gives, and the ones the session writes.           *)
Given(r) == {f \in Fields : Ask[r][f] # NoText}
Dirty(r) == {f \in Given(r) : Ask[r][f] # loaded[r][f]}

(* Mutant of Updated: the whole object is written, as it was read.         *)
UpdatedWhole(r, row) ==
  [f \in DOMAIN row |-> IF f \in Given(r) THEN Ask[r][f] ELSE loaded[r][f]]

(* Mutant of Updated: a row that has changed since it was read is left.    *)
UpdatedIfUnchanged(r, row) ==
  IF row # loaded[r]
  THEN row
  ELSE [f \in DOMAIN row |-> IF f \in Dirty(r) THEN Ask[r][f] ELSE row[f]]

(* The row after the UPDATE of the columns that differ.                    *)
Updated(r, row) ==
  [f \in DOMAIN row |-> IF f \in Dirty(r) THEN Ask[r][f] ELSE row[f]]

UpdateRow(r) ==
  IF Dirty(r) = {}
  THEN UNCHANGED <<templates, hist>>
  ELSE Write(Ask[r].id, Updated(r, templates[Ask[r].id]))

CommitUpdate(r) ==
  /\ at[r] = "commit"
  /\ UpdateRow(r)
  /\ at' = [at EXCEPT ![r] = "refresh"]
  /\ UNCHANGED <<clock, loaded, seen, status, history>>

(* The row is read again for the answer.                                   *)
Refresh(r) ==
  /\ at[r] = "refresh"
  /\ Reply(r, IF Ask[r].op = "create" THEN 201 ELSE 200)
  /\ UNCHANGED <<table, loaded, seen, history>>

(* Mutant of Newest: the rows changed most come first.                     *)
NewestChanges ==
  InOrder(Stored,
          [i \in Stored |-> -(templates[i].created + 9 * Len(hist[i]))])

(* ORDER BY created_at DESC.                                               *)
Newest == InOrder(Stored, [i \in Stored |-> -templates[i].created])

(* The page at offset n.                                                   *)
Page(s, n) == SubSeq(s, n + 1, IF n + PageSize < Len(s) THEN n + PageSize
                                                        ELSE Len(s))

(* A client reads the next page; it stops at one that is not full.         *)
ListPage(r) ==
  /\ at[r] = "new"
  /\ Ask[r].op = "list"
  /\ LET page == Page(Newest, Len(seen[r])) IN
       /\ seen' = [seen EXCEPT ![r] = @ \o page]
       /\ IF Len(page) < PageSize THEN Reply(r, 200)
                                  ELSE UNCHANGED <<at, status>>
  /\ present' = [present EXCEPT ![r] = IF seen[r] = <<>> THEN Stored ELSE @]
  /\ UNCHANGED <<table, loaded, since>>

(* The database fails under a request, its write applied or not: 500.      *)
RequestFails(r) ==
  /\ at[r] # "answered"
  /\ Reply(r, 500)
  /\ \/ at[r] = "insert" /\ ~KeyTaken(Ask[r].key) /\ InsertRow(r)
     \/ at[r] = "commit" /\ UpdateRow(r)
     \/ UNCHANGED <<templates, hist>>
  /\ UNCHANGED <<clock, loaded, seen, history>>

RequestStep(r) ==
  \/ Begin(r) \/ Insert(r) \/ InsertConflict(r)
  \/ FindMissing(r) \/ Read(r) \/ FindForUpdate(r) \/ CommitUpdate(r)
  \/ Refresh(r) \/ ListPage(r) \/ RequestFails(r)

=============================================================================
