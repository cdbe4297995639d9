--------------------------- MODULE TemplateProofs ---------------------------
(***************************************************************************)
(* Proofs about the templates table and its routes, for any requests, any  *)
(* rows at the start and any interleaving of their statements.             *)
(***************************************************************************)
EXTENDS AttemptProperties, OrderingProofs, SequenceTheorems, TLAPS

Creates(r) == Ask[r].op = "create"

(* The row a create inserts.                                               *)
NewRow(r) ==
  [key |-> Ask[r].key, subject |-> Ask[r].subject, body |-> Ask[r].body,
   created |-> loaded[r].created]

TableTypes ==
  /\ templates \in [Ids -> Rows \cup {NoTemplate}]
  /\ hist \in [Ids -> Seq(Rows)]
  /\ at \in [Requests -> {"new", "insert", "commit", "refresh", "answered"}]
  /\ status \in [Requests -> {0, 200, 201, 404, 409, 500}]
  /\ clock \in Nat \ {0}
  /\ since \in [Requests -> Nat]
  /\ present \in [Requests -> SUBSET Ids]
  /\ DOMAIN seen = Requests
  /\ loaded \in [Requests -> Rows \cup {NoTemplate}
                   \cup {[NoTemplate EXCEPT !.created = t] : t \in Nat}]

(* The last version of a row is the row; its key and created never change. *)
HistMatches ==
  \A i \in Ids :
    IF templates[i] = NoTemplate
    THEN hist[i] = <<>>
    ELSE /\ Len(hist[i]) \in Nat \ {0}
         /\ hist[i][Len(hist[i])] = templates[i]

(* Where a request can stand, and what it can be answered.                 *)
RequestFlow ==
  \A r \in Requests :
    /\ at[r] = "new" => loaded[r] = NoTemplate
    /\ at[r] = "insert" => Creates(r)
    /\ at[r] = "commit" => Update(r)
    /\ at[r] = "refresh" => Creates(r) \/ Update(r)
    /\ status[r] # 0 => at[r] = "answered"
    /\ status[r] = 200 => ~Creates(r)
    /\ status[r] = 201 => Creates(r)

KeysUnique ==
  \A i, k \in Stored : templates[i].key = templates[k].key => i = k

(* The row of a create, before and after its INSERT.                       *)
CreatedRows ==
  \A r \in Requests : Creates(r) =>
    /\ at[r] \in {"new", "insert"} => templates[r] = NoTemplate
    /\ at[r] = "insert" => loaded[r].created \in Nat \ {0}
    /\ at[r] = "refresh" \/ status[r] = 201 =>
         Exists(r) /\ templates[r].key = Ask[r].key

(* An update has read a version of a row there is, and keeps it to commit. *)
UpdatesRead ==
  \A r \in Requests :
    Update(r) /\ (at[r] \in {"commit", "refresh"} \/ status[r] = 200) =>
      /\ Exists(Ask[r].id)
      /\ since[r] \in 1..Len(hist[Ask[r].id])
      /\ at[r] = "commit" => loaded[r] = hist[Ask[r].id][since[r]]

TableInv ==
  /\ TableTypes
  /\ HistMatches
  /\ RequestFlow
  /\ KeysUnique
  /\ CreatedRows
  /\ UpdatesRead

-----------------------------------------------------------------------------
(* The two ways a request writes the table.                                *)
InsertsRow(r) ==
  /\ at[r] = "insert"
  /\ ~KeyTaken(Ask[r].key)
  /\ InsertRow(r)
  /\ at'[r] \in {"refresh", "answered"}

UpdatesRow(r) ==
  /\ at[r] = "commit"
  /\ Dirty(r) # {}
  /\ Write(Ask[r].id, Updated(r, templates[Ask[r].id]))
  /\ at'[r] # "commit"

(* A request leaves alone what belongs to the others.                      *)
Touches(r) ==
  \A q \in Requests \ {r} :
    /\ at'[q] = at[q]
    /\ status'[q] = status[q]
    /\ loaded'[q] = loaded[q]
    /\ seen'[q] = seen[q]
    /\ since'[q] = since[q]
    /\ present'[q] = present[q]

(* Every step of the whole is a request's or leaves the templates alone.   *)
LEMMA TemplateSteps ==
  ASSUME [Next]_vars
  PROVE  (\E r \in Requests : RequestStep(r)) \/ UNCHANGED tvars
BY DEF Next, vars, AttemptStep, BeginAttempt, GetContacts, GetContactsFails,
       GetContactsRaises, GetTemplate, GetTemplateRaises, Send, SendRaises

(* A step of a request touches no other request, and writes the table only *)
(* by an insert of a new row or an update of an old one.                   *)
LEMMA RequestTouches ==
  ASSUME NEW r \in Requests, RequestStep(r), TableTypes
  PROVE  /\ Touches(r)
         /\ UNCHANGED <<templates, hist>> \/ InsertsRow(r) \/ UpdatesRow(r)
<1>1. Touches(r)
  BY DEF RequestStep, Begin, Insert, InsertConflict, FindMissing, Read,
         FindForUpdate, CommitUpdate, Refresh, ListPage, RequestFails, Reply,
         Touches, TableTypes, table, history
<1>2. UNCHANGED <<templates, hist>> \/ InsertsRow(r) \/ UpdatesRow(r)
  BY DEF RequestStep, Begin, Insert, InsertConflict, FindMissing, Read,
         FindForUpdate, CommitUpdate, Refresh, ListPage, RequestFails, Reply,
         TableTypes, table, history, UpdateRow, InsertsRow, UpdatesRow
<1>. QED
  BY <1>1, <1>2

(* What a row is after the UPDATE of an update's dirty columns.            *)
LEMMA UpdatedRow ==
  ASSUME NEW row \in Rows, NEW r \in Requests
  PROVE  /\ Updated(r, row) \in Rows
         /\ \A f \in Fields : Updated(r, row)[f] =
              IF f \in Dirty(r) THEN Ask[r][f] ELSE row[f]
         /\ Updated(r, row).key = row.key
         /\ Updated(r, row).created = row.created
         /\ Dirty(r) # {} => Updated(r, row) # NoTemplate
<1> DEFINE new == Updated(r, row)
<1>1. DOMAIN row = {"key", "subject", "body", "created"}
  BY DEF Rows
<1>2. /\ Dirty(r) \subseteq Fields
      /\ \A f \in Dirty(r) : Ask[r][f] # NoText
      /\ \A f \in Fields : Ask[r][f] \in Text
  BY TemplatesAssumption DEF Dirty, Given, Asks, Fields
<1>3. new = [f \in {"key", "subject", "body", "created"} |->
               IF f \in Dirty(r) THEN Ask[r][f] ELSE row[f]]
  BY <1>1 DEF Updated
<1>4. /\ row["key"] \in STRING /\ row["subject"] \in Text
      /\ row["body"] \in Text /\ row["created"] \in Int
  BY DEF Rows
<1>5. new.key = row.key /\ new.created = row.created
  BY <1>2, <1>3 DEF Fields
<1>6. \A f \in Fields :
        new[f] = IF f \in Dirty(r) THEN Ask[r][f] ELSE row[f]
  BY <1>3 DEF Fields
<1>7. new \in Rows
  <2>1. /\ new["key"] \in STRING /\ new["subject"] \in Text
        /\ new["body"] \in Text /\ new["created"] \in Int
    BY <1>2, <1>3, <1>4 DEF Fields
  <2>. QED
    BY <1>3, <2>1 DEF Rows
<1>8. ASSUME Dirty(r) # {}
      PROVE  new # NoTemplate
  <2>1. PICK f \in Dirty(r) : new[f] # NoText
    BY <1>2, <1>6, <1>8
  <2>2. NoTemplate["subject"] = NoText /\ NoTemplate["body"] = NoText
    BY DEF NoTemplate
  <2>. QED
    BY <1>2, <2>1, <2>2 DEF Fields
<1>. QED
  BY <1>5, <1>6, <1>7, <1>8

(* The table after an INSERT.                                              *)
LEMMA RowInserted ==
  ASSUME TableInv, NEW r \in Requests, InsertsRow(r)
  PROVE  /\ r \in Ids /\ Creates(r)
         /\ templates[r] = NoTemplate /\ hist[r] = <<>>
         /\ NewRow(r) \in Rows \ {NoTemplate}
         /\ templates' = [templates EXCEPT ![r] = NewRow(r)]
         /\ hist' = [hist EXCEPT ![r] = <<NewRow(r)>>]
<1>1. Creates(r) /\ r \in Ids
  BY DEF InsertsRow, TableInv, RequestFlow, Creates, Ids
<1>2. templates[r] = NoTemplate /\ loaded[r].created \in Nat \ {0}
  BY <1>1 DEF InsertsRow, TableInv, CreatedRows
<1>3. hist[r] = <<>>
  BY <1>1, <1>2 DEF TableInv, HistMatches
<1>4. NewRow(r) \in Rows
  BY <1>2, TemplatesAssumption DEF NewRow, Rows, Asks
<1>5. NewRow(r) # NoTemplate
  <2>1. NewRow(r).created # NoTemplate.created
    BY <1>2 DEF NewRow, NoTemplate
  <2>. QED
    BY <2>1
<1>6. /\ templates' = [templates EXCEPT ![r] = NewRow(r)]
      /\ hist' = [hist EXCEPT ![r] = Append(hist[r], NewRow(r))]
  BY <1>1 DEF InsertsRow, InsertRow, Write, NewRow, TableInv, TableTypes
<1>7. Append(hist[r], NewRow(r)) = <<NewRow(r)>>
  BY <1>3
<1>. QED
  BY <1>1, <1>2, <1>3, <1>4, <1>5, <1>6, <1>7

(* The table after an UPDATE.                                              *)
LEMMA RowUpdated ==
  ASSUME TableInv, NEW r \in Requests, UpdatesRow(r)
  PROVE  LET i == Ask[r].id
             row == Updated(r, templates[i])
         IN  /\ i \in Ids
             /\ row \in Rows \ {NoTemplate}
             /\ row.key = templates[i].key
             /\ row.created = templates[i].created
             /\ templates[i] # NoTemplate
             /\ templates' = [templates EXCEPT ![i] = row]
             /\ hist' = [hist EXCEPT ![i] = Append(hist[i], row)]
<1>1. Ask[r].id \in Ids /\ templates[Ask[r].id] \in Rows \ {NoTemplate}
  BY DEF UpdatesRow, TableInv, TableTypes, RequestFlow, UpdatesRead, Exists
<1>. QED
  BY <1>1, UpdatedRow DEF UpdatesRow, Write, TableInv, TableTypes

(* Rows are never removed, keep their key and their time of creation, and  *)
(* gather versions.                                                        *)
TableGrows ==
  \A i \in Ids :
    /\ templates[i] # NoTemplate =>
         /\ templates'[i] # NoTemplate
         /\ templates'[i].key = templates[i].key
         /\ templates'[i].created = templates[i].created
    /\ Len(hist[i]) \in Nat /\ Len(hist'[i]) \in Nat
    /\ Len(hist[i]) <= Len(hist'[i])
    /\ \A v \in 1..Len(hist[i]) : hist'[i][v] = hist[i][v]

(* The table only grows: rows keep their key and creation time, and their  *)
(* history gets longer without being rewritten.                            *)
LEMMA Growth ==
  ASSUME TableInv, [Next]_vars
  PROVE  TableGrows
<1>1. \A i \in Ids : hist[i] \in Seq(Rows) /\ Len(hist[i]) \in Nat
  BY DEF TableInv, TableTypes
<1>2. CASE UNCHANGED <<templates, hist>>
  BY <1>1, <1>2 DEF TableGrows
<1>3. ASSUME NEW r \in Requests, InsertsRow(r)
      PROVE  TableGrows
  <2>1. /\ r \in Ids /\ templates[r] = NoTemplate /\ hist[r] = <<>>
        /\ NewRow(r) \in Rows
        /\ templates' = [templates EXCEPT ![r] = NewRow(r)]
        /\ hist' = [hist EXCEPT ![r] = <<NewRow(r)>>]
    BY <1>3, RowInserted
  <2>2. ASSUME NEW i \in Ids, i # r
        PROVE  templates'[i] = templates[i] /\ hist'[i] = hist[i]
    BY <2>1, <2>2 DEF TableInv, TableTypes
  <2>3. hist'[r] = <<NewRow(r)>>
    BY <2>1 DEF TableInv, TableTypes
  <2>4. Len(hist[r]) = 0 /\ Len(hist'[r]) = 1
    BY <2>1, <2>3
  <2>. QED
    BY <1>1, <2>1, <2>2, <2>4 DEF TableGrows
<1>4. ASSUME NEW r \in Requests, UpdatesRow(r)
      PROVE  TableGrows
  <2> DEFINE i == Ask[r].id
             row == Updated(r, templates[i])
  <2>1. /\ i \in Ids
        /\ row \in Rows \ {NoTemplate}
        /\ row.key = templates[i].key
        /\ row.created = templates[i].created
        /\ templates' = [templates EXCEPT ![i] = row]
        /\ hist' = [hist EXCEPT ![i] = Append(hist[i], row)]
    BY <1>4, RowUpdated
  <2>. HIDE DEF row, i
  <2>2. ASSUME NEW k \in Ids, k # i
        PROVE  templates'[k] = templates[k] /\ hist'[k] = hist[k]
    BY <2>1, <2>2 DEF TableInv, TableTypes
  <2>3. templates'[i] = row /\ hist'[i] = Append(hist[i], row)
    BY <2>1 DEF TableInv, TableTypes
  <2>4. /\ Len(hist'[i]) = Len(hist[i]) + 1
        /\ \A v \in 1..Len(hist[i]) : hist'[i][v] = hist[i][v]
    BY <1>1, <2>1, <2>3
  <2>. QED
    BY <1>1, <2>1, <2>2, <2>3, <2>4 DEF TableGrows
<1>5. CASE UNCHANGED tvars
  BY <1>2, <1>5 DEF tvars, table
<1>. QED
  BY <1>2, <1>3, <1>4, <1>5, TemplateSteps, RequestTouches DEF TableInv

-----------------------------------------------------------------------------
(* Every step keeps TableInv, one conjunct at a time.                      *)
LEMMA TableTypesStep ==
  ASSUME TableInv, NEW r \in Requests, RequestStep(r)
  PROVE  TableTypes'
<1>1. /\ templates' \in [Ids -> Rows \cup {NoTemplate}]
      /\ hist' \in [Ids -> Seq(Rows)]
  <2>1. CASE UNCHANGED <<templates, hist>>
    BY <2>1 DEF TableInv, TableTypes
  <2>2. CASE InsertsRow(r)
    <3>1. /\ r \in Ids /\ NewRow(r) \in Rows
          /\ templates' = [templates EXCEPT ![r] = NewRow(r)]
          /\ hist' = [hist EXCEPT ![r] = <<NewRow(r)>>]
      BY <2>2, RowInserted
    <3>2. <<NewRow(r)>> \in Seq(Rows)
      BY <3>1
    <3>. QED
      BY <3>1, <3>2 DEF TableInv, TableTypes
  <2>3. CASE UpdatesRow(r)
    <3> DEFINE i == Ask[r].id
               row == Updated(r, templates[i])
    <3>1. /\ i \in Ids /\ row \in Rows
          /\ templates' = [templates EXCEPT ![i] = row]
          /\ hist' = [hist EXCEPT ![i] = Append(hist[i], row)]
      BY <2>3, RowUpdated
    <3>. HIDE DEF i, row
    <3>2. Append(hist[i], row) \in Seq(Rows)
      BY <3>1, AppendProperties DEF TableInv, TableTypes
    <3>. QED
      BY <3>1, <3>2 DEF TableInv, TableTypes
  <2>. QED
    BY <2>1, <2>2, <2>3, RequestTouches DEF TableInv
<1>2. /\ at' \in [Requests ->
                   {"new", "insert", "commit", "refresh", "answered"}]
      /\ status' \in [Requests -> {0, 200, 201, 404, 409, 500}]
      /\ clock' \in Nat \ {0}
      /\ DOMAIN seen' = Requests
  <2> DEFINE Typed == /\ at' \in [Requests -> {"new", "insert", "commit",
                                               "refresh", "answered"}]
                      /\ status' \in [Requests -> {0, 200, 201, 404, 409, 500}]
  <2>1. ASSUME NEW code \in {200, 201, 404, 409, 500}, Reply(r, code)
        PROVE  Typed
    BY <2>1 DEF Reply, TableInv, TableTypes
  <2>2. Typed
    <3>1. CASE Begin(r) \/ Insert(r) \/ FindForUpdate(r) \/ CommitUpdate(r)
      <4>1. /\ \/ at' = [at EXCEPT ![r] = "insert"]
               \/ at' = [at EXCEPT ![r] = "refresh"]
               \/ at' = [at EXCEPT ![r] = "commit"]
            /\ status' = status
        BY <3>1 DEF Begin, Insert, FindForUpdate, CommitUpdate
      <4>2. /\ at \in [Requests -> {"new", "insert", "commit", "refresh",
                                     "answered"}]
            /\ status \in [Requests -> {0, 200, 201, 404, 409, 500}]
        BY DEF TableInv, TableTypes
      <4>. QED
        BY <4>1, <4>2
    <3>2. CASE ListPage(r)
      <4>1. Reply(r, 200) \/ UNCHANGED <<at, status>>
        BY <3>2 DEF ListPage
      <4>. QED
        BY <2>1, <4>1 DEF TableInv, TableTypes
    <3>3. CASE Refresh(r)
      <4>1. Reply(r, 200) \/ Reply(r, 201)
        BY <3>3 DEF Refresh
      <4>. QED
        BY <2>1, <4>1
    <3>. QED
      BY <2>1, <3>1, <3>2, <3>3
         DEF RequestStep, InsertConflict, FindMissing, Read, RequestFails
  <2>3. clock' \in Nat \ {0}
    BY DEF TableInv, TableTypes, RequestStep, Begin, Insert, InsertConflict,
           FindMissing, Read, FindForUpdate, CommitUpdate, Refresh, ListPage,
           RequestFails, Reply, table, history
  <2>4. DOMAIN seen' = Requests
    BY DEF TableInv, TableTypes, RequestStep, Begin, Insert, InsertConflict,
           FindMissing, Read, FindForUpdate, CommitUpdate, Refresh, ListPage,
           RequestFails, Reply, table, history
  <2>. QED
    BY <2>2, <2>3, <2>4
<1>3. since' \in [Requests -> Nat]
  <2>1. CASE FindForUpdate(r)
    <3>1. Len(hist[Ask[r].id]) \in Nat
      BY <2>1, LenProperties DEF FindForUpdate, Exists, TableInv, TableTypes
    <3>. QED
      BY <2>1, <3>1 DEF FindForUpdate, TableInv, TableTypes
  <2>2. CASE UNCHANGED since
    BY <2>2 DEF TableInv, TableTypes
  <2>. QED
    BY <2>1, <2>2
       DEF RequestStep, Begin, Insert, InsertConflict, FindMissing, Read,
           CommitUpdate, Refresh, ListPage, RequestFails, history
<1>4. present' \in [Requests -> SUBSET Ids]
  <2>1. CASE ListPage(r)
    <3>1. (IF seen[r] = <<>> THEN Stored ELSE present[r]) \in SUBSET Ids
      BY DEF Stored, TableInv, TableTypes
    <3>. QED
      BY <2>1, <3>1 DEF ListPage, TableInv, TableTypes
  <2>2. CASE UNCHANGED present
    BY <2>2 DEF TableInv, TableTypes
  <2>. QED
    BY <2>1, <2>2
       DEF RequestStep, Begin, Insert, InsertConflict, FindMissing, Read,
           FindForUpdate, CommitUpdate, Refresh, RequestFails, history
<1>5. loaded' \in [Requests -> Rows \cup {NoTemplate}
                     \cup {[NoTemplate EXCEPT !.created = t] : t \in Nat}]
  <2>1. CASE Begin(r)
    <3>1. loaded[r] = NoTemplate
      BY <2>1 DEF Begin, TableInv, RequestFlow
    <3>2. loaded' = [loaded EXCEPT ![r] = [NoTemplate EXCEPT !.created = clock]]
      BY <2>1, <3>1 DEF Begin, TableInv, TableTypes
    <3>. QED
      BY <3>2 DEF TableInv, TableTypes
  <2>2. CASE FindForUpdate(r)
    BY <2>2 DEF FindForUpdate, Exists, TableInv, TableTypes
  <2>3. CASE UNCHANGED loaded
    BY <2>3 DEF TableInv, TableTypes
  <2>. QED
    BY <2>1, <2>2, <2>3
       DEF RequestStep, Insert, InsertConflict, FindMissing, Read,
           CommitUpdate, Refresh, ListPage, RequestFails
<1>. QED
  BY <1>1, <1>2, <1>3, <1>4, <1>5 DEF TableTypes

(* Every write to a row is recorded as its next version.                   *)
LEMMA HistMatchesStep ==
  ASSUME TableInv, NEW r \in Requests, RequestStep(r)
  PROVE  HistMatches'
<1>1. CASE UNCHANGED <<templates, hist>>
  BY <1>1 DEF TableInv, HistMatches
<1>2. CASE InsertsRow(r)
  <2>1. /\ r \in Ids /\ NewRow(r) # NoTemplate
        /\ templates' = [templates EXCEPT ![r] = NewRow(r)]
        /\ hist' = [hist EXCEPT ![r] = <<NewRow(r)>>]
    BY <1>2, RowInserted
  <2>2. \A i \in Ids \ {r} : templates'[i] = templates[i] /\ hist'[i] = hist[i]
    BY <2>1 DEF TableInv, TableTypes
  <2>3. templates'[r] = NewRow(r) /\ hist'[r] = <<NewRow(r)>>
    BY <2>1 DEF TableInv, TableTypes
  <2>. QED
    BY <2>1, <2>2, <2>3 DEF TableInv, HistMatches
<1>3. CASE UpdatesRow(r)
  <2> DEFINE i == Ask[r].id
             row == Updated(r, templates[i])
  <2>1. /\ i \in Ids /\ row \in Rows \ {NoTemplate}
        /\ templates' = [templates EXCEPT ![i] = row]
        /\ hist' = [hist EXCEPT ![i] = Append(hist[i], row)]
    BY <1>3, RowUpdated
  <2>. HIDE DEF i, row
  <2>2. \A k \in Ids \ {i} : templates'[k] = templates[k] /\ hist'[k] = hist[k]
    BY <2>1 DEF TableInv, TableTypes
  <2>3. templates'[i] = row /\ hist'[i] = Append(hist[i], row)
    BY <2>1 DEF TableInv, TableTypes
  <2>4. Len(hist'[i]) \in Nat \ {0} /\ hist'[i][Len(hist'[i])] = row
    BY <2>1, <2>3, AppendProperties DEF TableInv, TableTypes
  <2>. QED
    BY <2>1, <2>2, <2>3, <2>4 DEF TableInv, HistMatches
<1>. QED
  BY <1>1, <1>2, <1>3, RequestTouches DEF TableInv

(* A request moves along the statements of its own operation.              *)
LEMMA RequestFlowStep ==
  ASSUME TableInv, NEW r \in Requests, RequestStep(r)
  PROVE  RequestFlow'
<1>1. \A q \in Requests \ {r} :
        at'[q] = at[q] /\ status'[q] = status[q] /\ loaded'[q] = loaded[q]
  BY RequestTouches DEF TableInv, Touches
<1>2. /\ at'[r] # "new" \/ (at[r] = "new" /\ loaded'[r] = loaded[r])
      /\ at'[r] = "insert" => Creates(r)
      /\ at'[r] = "commit" => Update(r)
      /\ at'[r] = "refresh" => Creates(r) \/ Update(r)
      /\ status'[r] # 0 => at'[r] = "answered"
      /\ status'[r] = 200 => ~Creates(r)
      /\ status'[r] = 201 => Creates(r)
  <2>1. /\ at \in [Requests -> {"new", "insert", "commit", "refresh",
                                 "answered"}]
        /\ status \in [Requests -> {0, 200, 201, 404, 409, 500}]
    BY DEF TableInv, TableTypes
  <2>2. /\ at[r] = "insert" => Creates(r)
        /\ at[r] = "commit" => Update(r)
        /\ at[r] = "refresh" => Creates(r) \/ Update(r)
        /\ status[r] # 0 => at[r] = "answered"
    BY DEF TableInv, RequestFlow
  <2>3. CASE Begin(r) \/ FindForUpdate(r)
    BY <2>1, <2>2, <2>3 DEF Begin, FindForUpdate, Creates, Update
  <2>4. CASE Insert(r) \/ CommitUpdate(r)
    BY <2>1, <2>2, <2>4 DEF Insert, CommitUpdate
  <2>5. CASE InsertConflict(r) \/ FindMissing(r) \/ RequestFails(r)
    BY <2>1, <2>5 DEF InsertConflict, FindMissing, RequestFails, Reply
  <2>6. CASE Read(r) \/ Refresh(r)
    BY <2>1, <2>2, <2>6 DEF Read, Refresh, Reply, Creates, Update
  <2>7. CASE ListPage(r)
    <3>1. Ask[r].op = "list" /\ at[r] = "new" /\ loaded' = loaded
      BY <2>7 DEF ListPage
    <3>2. \/ at' = at /\ status' = status
          \/ at'[r] = "answered" /\ status'[r] = 200
      BY <2>1, <2>7 DEF ListPage, Reply
    <3>. QED
      BY <2>2, <3>1, <3>2 DEF Creates
  <2>. QED
    BY <2>3, <2>4, <2>5, <2>6, <2>7 DEF RequestStep
<1>. QED
  BY <1>1, <1>2 DEF TableInv, RequestFlow

(* An INSERT finds its key free, and an UPDATE leaves the key alone.       *)
LEMMA KeysUniqueStep ==
  ASSUME TableInv, NEW r \in Requests, RequestStep(r)
  PROVE  KeysUnique'
<1>1. CASE UNCHANGED <<templates, hist>>
  BY <1>1 DEF TableInv, KeysUnique, Stored, Exists
<1>2. CASE InsertsRow(r)
  <2>1. /\ r \in Ids
        /\ templates' = [templates EXCEPT ![r] = NewRow(r)]
    BY <1>2, RowInserted
  <2>2. \A i \in Ids \ {r} : templates'[i] = templates[i]
    BY <2>1 DEF TableInv, TableTypes
  <2>3. templates'[r].key = Ask[r].key
    BY <2>1 DEF TableInv, TableTypes, NewRow
  <2>4. \A i \in Stored : templates[i].key # Ask[r].key
    BY <1>2 DEF InsertsRow, KeyTaken
  <2>. QED
    BY <2>2, <2>3, <2>4 DEF TableInv, KeysUnique, Stored, Exists
<1>3. CASE UpdatesRow(r)
  <2> DEFINE i == Ask[r].id
  <2>1. /\ i \in Ids /\ templates[i] # NoTemplate
        /\ templates'[i].key = templates[i].key
        /\ \A k \in Ids \ {i} : templates'[k] = templates[k]
    BY <1>3, RowUpdated DEF TableInv, TableTypes
  <2>. HIDE DEF i
  <2>. QED
    BY <2>1 DEF TableInv, KeysUnique, Stored, Exists
<1>. QED
  BY <1>1, <1>2, <1>3, RequestTouches DEF TableInv

(* A row there is stays, with its key; one there is not stays away unless  *)
(* its own create inserts it.                                              *)
LEMMA RowsStay ==
  ASSUME TableInv, NEW r \in Requests, RequestStep(r), NEW i \in Ids
  PROVE  /\ Exists(i) => Exists(i)' /\ templates'[i].key = templates[i].key
         /\ templates[i] = NoTemplate /\ i # r => templates'[i] = NoTemplate
<1>1. CASE UNCHANGED <<templates, hist>>
  BY <1>1 DEF Exists
<1>2. CASE InsertsRow(r)
  <2>1. /\ templates[r] = NoTemplate
        /\ templates' = [templates EXCEPT ![r] = NewRow(r)]
    BY <1>2, RowInserted
  <2>2. i # r => templates'[i] = templates[i]
    BY <2>1 DEF TableInv, TableTypes
  <2>. QED
    BY <2>1, <2>2 DEF Exists
<1>3. CASE UpdatesRow(r)
  <2> DEFINE k == Ask[r].id
             row == Updated(r, templates[k])
  <2>1. /\ row # NoTemplate /\ row.key = templates[k].key
        /\ templates[k] # NoTemplate
        /\ templates' = [templates EXCEPT ![k] = row]
    BY <1>3, RowUpdated
  <2>. HIDE DEF k, row
  <2>2. IF i = k THEN templates'[i] = row ELSE templates'[i] = templates[i]
    BY <2>1 DEF TableInv, TableTypes
  <2>. QED
    BY <2>1, <2>2 DEF Exists
<1>. QED
  BY <1>1, <1>2, <1>3, RequestTouches DEF TableInv

(* A create's row appears with its INSERT and is there ever after.         *)
LEMMA CreatedRowsStep ==
  ASSUME TableInv, NEW r \in Requests, RequestStep(r)
  PROVE  CreatedRows'
<1>. SUFFICES
       ASSUME NEW q \in Requests, Creates(q)
       PROVE  /\ at'[q] \in {"new", "insert"} => templates'[q] = NoTemplate
              /\ at'[q] = "insert" => loaded'[q].created \in Nat \ {0}
              /\ at'[q] = "refresh" \/ status'[q] = 201 =>
                   Exists(q)' /\ templates'[q].key = Ask[q].key
  BY DEF CreatedRows, Creates
<1>1. q \in Ids
  BY DEF Creates, Ids
<1>2. /\ at[q] \in {"new", "insert"} => templates[q] = NoTemplate
      /\ at[q] = "insert" => loaded[q].created \in Nat \ {0}
      /\ at[q] = "refresh" \/ status[q] = 201 =>
           Exists(q) /\ templates[q].key = Ask[q].key
  BY DEF TableInv, CreatedRows
<1>3. CASE q # r
  <2>1. at'[q] = at[q] /\ status'[q] = status[q] /\ loaded'[q] = loaded[q]
    BY <1>3, RequestTouches DEF TableInv, Touches
  <2>. QED
    BY <1>1, <1>2, <1>3, <2>1, RowsStay
<1>4. CASE q = r
  <2>1. /\ at \in [Requests -> {"new", "insert", "commit", "refresh",
                                 "answered"}]
        /\ status \in [Requests -> {0, 200, 201, 404, 409, 500}]
        /\ clock \in Nat \ {0}
        /\ loaded \in [Requests -> Rows \cup {NoTemplate}
                         \cup {[NoTemplate EXCEPT !.created = t] : t \in Nat}]
    BY DEF TableInv, TableTypes
  <2>2. /\ at[r] # "commit"
        /\ status[r] # 0 => at[r] = "answered"
        /\ at[r] = "new" => loaded[r] = NoTemplate
        /\ Ask[r].op = "create"
    BY <1>4 DEF TableInv, RequestFlow, Creates, Update
  <2>3. CASE Begin(r)
    <3>1. /\ at[r] = "new" /\ at'[r] = "insert" /\ status' = status
          /\ loaded'[r].created = clock /\ templates' = templates
      <4>1. loaded'[r] = [NoTemplate EXCEPT !.created = clock]
        BY <2>1, <2>2, <2>3 DEF Begin
      <4>2. [NoTemplate EXCEPT !.created = clock].created = clock
        BY DEF NoTemplate
      <4>. QED
        BY <2>1, <2>3, <4>1, <4>2 DEF Begin
    <3>. QED
      BY <1>2, <1>4, <2>1, <2>2, <3>1
  <2>4. CASE Insert(r)
    <3>1. at'[r] = "refresh" /\ status' = status
      BY <2>1, <2>4 DEF Insert
    <3>2. InsertsRow(r)
      BY <2>4, <3>1 DEF Insert, InsertsRow
    <3>3. templates'[r] = NewRow(r) /\ NewRow(r) # NoTemplate
      BY <1>1, <1>4, <3>2, RowInserted DEF TableInv, TableTypes
    <3>4. NewRow(r).key = Ask[r].key
      BY DEF NewRow
    <3>. QED
      BY <1>1, <1>4, <3>1, <3>3, <3>4 DEF Exists
  <2>5. CASE InsertConflict(r) \/ RequestFails(r)
    BY <1>4, <2>1, <2>5 DEF InsertConflict, RequestFails, Reply
  <2>6. CASE Refresh(r)
    BY <1>2, <1>4, <2>1, <2>6 DEF Refresh, Reply, table, Exists
  <2>. QED
    BY <2>2, <2>3, <2>4, <2>5, <2>6
       DEF RequestStep, FindMissing, Read, FindForUpdate, CommitUpdate,
           ListPage
<1>. QED
  BY <1>3, <1>4

(* The version an update has read stays a version of its row.              *)
LEMMA UpdatesReadStep ==
  ASSUME TableInv, NEW r \in Requests, RequestStep(r), TableGrows
  PROVE  UpdatesRead'
<1>. SUFFICES
       ASSUME NEW q \in Requests, Update(q),
              at'[q] \in {"commit", "refresh"} \/ status'[q] = 200
       PROVE  /\ Exists(Ask[q].id)'
              /\ since'[q] \in 1..Len(hist'[Ask[q].id])
              /\ at'[q] = "commit" =>
                   loaded'[q] = hist'[Ask[q].id][since'[q]]
  BY DEF UpdatesRead, Update
<1>1. ASSUME at[q] \in {"commit", "refresh"} \/ status[q] = 200,
             since'[q] = since[q], loaded'[q] = loaded[q],
             at'[q] = "commit" => at[q] = "commit"
      PROVE  /\ Exists(Ask[q].id)'
             /\ since'[q] \in 1..Len(hist'[Ask[q].id])
             /\ at'[q] = "commit" => loaded'[q] = hist'[Ask[q].id][since'[q]]
  <2>1. /\ Exists(Ask[q].id) /\ since[q] \in 1..Len(hist[Ask[q].id])
        /\ at[q] = "commit" => loaded[q] = hist[Ask[q].id][since[q]]
    BY <1>1 DEF TableInv, UpdatesRead
  <2>2. Ask[q].id \in Ids
    BY <2>1 DEF Exists
  <2>. QED
    BY <1>1, <2>1, <2>2 DEF TableGrows, Exists
<1>2. CASE q # r
  <2>1. /\ at'[q] = at[q] /\ status'[q] = status[q]
        /\ loaded'[q] = loaded[q] /\ since'[q] = since[q]
    BY <1>2, RequestTouches DEF TableInv, Touches
  <2>. QED
    BY <1>1, <2>1
<1>3. CASE q = r
  <2>1. /\ at \in [Requests -> {"new", "insert", "commit", "refresh",
                                 "answered"}]
        /\ status \in [Requests -> {0, 200, 201, 404, 409, 500}]
        /\ since \in [Requests -> Nat]
        /\ DOMAIN loaded = Requests
    BY DEF TableInv, TableTypes
  <2>2. /\ at[r] # "insert" /\ Ask[r].op = "update"
        /\ status[r] # 0 => at[r] = "answered"
    BY <1>3 DEF TableInv, RequestFlow, Creates, Update
  <2>3. CASE FindForUpdate(r)
    <3> DEFINE i == Ask[r].id
    <3>1. /\ Exists(i) /\ UNCHANGED <<templates, hist>>
          /\ since'[r] = Len(hist[i])
      BY <2>1, <2>3 DEF FindForUpdate, table
    <3>2. loaded'[r] = templates[i]
      BY <2>1, <2>3 DEF FindForUpdate, TableInv, TableTypes
    <3>3. Len(hist[i]) \in Nat \ {0} /\ hist[i][Len(hist[i])] = templates[i]
      BY <3>1 DEF TableInv, HistMatches, Exists
    <3>. QED
      BY <1>3, <3>1, <3>2, <3>3 DEF Exists
  <2>4. CASE CommitUpdate(r) \/ Refresh(r)
    <3>1. /\ at[r] \in {"commit", "refresh"}
          /\ at'[r] # "commit" /\ loaded' = loaded /\ since' = since
      BY <2>1, <2>4 DEF CommitUpdate, Refresh, Reply, history
    <3>. QED
      BY <1>1, <1>3, <3>1
  <2>5. CASE FindMissing(r) \/ RequestFails(r)
    <3>1. at'[r] = "answered" /\ status'[r] \in {404, 500}
      BY <2>1, <2>5 DEF FindMissing, RequestFails, Reply
    <3>. QED
      BY <1>3, <3>1
  <2>. QED
    BY <2>2, <2>3, <2>4, <2>5
       DEF RequestStep, Begin, Insert, InsertConflict, Read, ListPage
<1>. QED
  BY <1>2, <1>3

(* The table's invariant: at the start, kept by every step, hence always.  *)
LEMMA TableInvInit == Init => TableInv
<1>. SUFFICES ASSUME Init
              PROVE  TableInv
  OBVIOUS
<1>1. \A i \in DOMAIN Seeds : Seeds[i] \in Rows \ {NoTemplate}
  BY TemplatesAssumption
<1>2. \A i \in Ids :
        /\ templates[i] = IF i \in DOMAIN Seeds THEN Seeds[i] ELSE NoTemplate
        /\ hist[i] = IF i \in DOMAIN Seeds THEN <<Seeds[i]>> ELSE <<>>
  BY DEF Init, TemplatesInit
<1>. DEFINE One(row) == <<row>>
<1>3. \A row \in Rows :
        One(row) \in Seq(Rows) /\ Len(One(row)) = 1 /\ One(row)[1] = row
  OBVIOUS
<1>4. \A i \in DOMAIN Seeds : i \in Ids => hist[i] = One(Seeds[i])
  BY <1>2
<1>5. <<>> \in Seq(Rows)
  BY EmptySeq
<1>. HIDE DEF One
<1>6. TableTypes
  <2>1. templates \in [Ids -> Rows \cup {NoTemplate}]
    BY <1>1 DEF Init, TemplatesInit
  <2>2. \A i \in Ids : hist[i] \in Seq(Rows)
    BY <1>1, <1>2, <1>3, <1>4, <1>5
  <2>3. hist \in [Ids -> Seq(Rows)]
    BY <2>2 DEF Init, TemplatesInit
  <2>. QED
    BY <2>1, <2>3 DEF Init, TemplatesInit, TableTypes
<1>7. HistMatches
  <2>. SUFFICES ASSUME NEW i \in Ids
                PROVE  IF templates[i] = NoTemplate
                       THEN hist[i] = <<>>
                       ELSE /\ Len(hist[i]) \in Nat \ {0}
                            /\ hist[i][Len(hist[i])] = templates[i]
    BY DEF HistMatches
  <2>1. CASE i \in DOMAIN Seeds
    BY <1>1, <1>2, <1>3, <1>4, <2>1
  <2>2. CASE i \notin DOMAIN Seeds
    BY <1>2, <2>2
  <2>. QED
    BY <2>1, <2>2
<1>8. KeysUnique
  BY <1>2, TemplatesAssumption DEF KeysUnique, Stored, Exists
<1>9. RequestFlow /\ UpdatesRead
  BY DEF Init, TemplatesInit, RequestFlow, UpdatesRead
<1>10. CreatedRows
  <2>. SUFFICES ASSUME NEW r \in Requests, Creates(r)
                PROVE  templates[r] = NoTemplate
    BY DEF Init, TemplatesInit, CreatedRows
  <2>1. r \in Ids /\ r \notin DOMAIN Seeds
    BY TemplatesAssumption DEF Ids, Creates
  <2>. QED
    BY <1>2, <2>1
<1>. QED
  BY <1>6, <1>7, <1>8, <1>9, <1>10 DEF TableInv

(* Every step keeps the whole invariant of the table.                      *)
LEMMA TableInvStep == TableInv /\ [Next]_vars => TableInv'
<1>. SUFFICES ASSUME TableInv, [Next]_vars
              PROVE  TableInv'
  OBVIOUS
<1>1. ASSUME NEW r \in Requests, RequestStep(r)
      PROVE  TableInv'
  BY <1>1, TableTypesStep, HistMatchesStep, RequestFlowStep, KeysUniqueStep,
     CreatedRowsStep, UpdatesReadStep, Growth DEF TableInv
<1>2. CASE UNCHANGED tvars
  BY <1>2
     DEF tvars, table, requests, history, TableInv, TableTypes, HistMatches,
         RequestFlow, KeysUnique, CreatedRows, UpdatesRead, Stored, Exists
<1>. QED
  BY <1>1, <1>2, TemplateSteps

(* The invariant of the table always holds.                                *)
LEMMA TableInvHolds == Spec => []TableInv
BY TableInvInit, TableInvStep, PTL DEF Spec

(* A code, locale and channel name at most one template, and of concurrent *)
(* creates of one key at most one is answered with 201: the unique key     *)
(* decides it, not the order in which sessions look.                       *)
THEOREM KeysNameOneTemplate == Spec => []OneTemplatePerKey
<1>1. TableInv => OneTemplatePerKey
  <2>. SUFFICES ASSUME TableInv
                PROVE  OneTemplatePerKey
    OBVIOUS
  <2>1. ASSUME NEW r \in Requests, NEW q \in Requests,
               status[r] = 201, status[q] = 201, Ask[r].key = Ask[q].key
        PROVE  r = q
    <3>1. Creates(r) /\ Creates(q)
      BY <2>1 DEF TableInv, RequestFlow
    <3>2. /\ Exists(r) /\ templates[r].key = Ask[r].key
          /\ Exists(q) /\ templates[q].key = Ask[q].key
      BY <2>1, <3>1 DEF TableInv, CreatedRows
    <3>. QED
      BY <2>1, <3>2 DEF TableInv, KeysUnique, Stored, Exists
  <2>. QED
    BY <2>1 DEF TableInv, KeysUnique, OneTemplatePerKey
<1>. QED
  BY <1>1, TableInvHolds, PTL

-----------------------------------------------------------------------------
(* Updates.  A field an update gives is in a version written or read since *)
(* the update read the row.                                                *)
FieldsTook ==
  \A r \in Requests : Update(r) /\ (at[r] = "refresh" \/ status[r] = 200) =>
    \A f \in Given(r) : \E v \in since[r]..Len(hist[Ask[r].id]) :
      hist[Ask[r].id][v][f] = Ask[r][f]

(* How an update comes to be answered with 200.                            *)
LEMMA UpdateMoves ==
  ASSUME TableInv, NEW r \in Requests, RequestStep(r),
         NEW q \in Requests, Update(q),
         at'[q] = "refresh" \/ status'[q] = 200
  PROVE  /\ since'[q] = since[q]
         /\ \/ at[q] = "refresh" \/ status[q] = 200
            \/ q = r /\ CommitUpdate(r)
<1>1. /\ at \in [Requests -> {"new", "insert", "commit", "refresh",
                               "answered"}]
      /\ status \in [Requests -> {0, 200, 201, 404, 409, 500}]
  BY DEF TableInv, TableTypes
<1>2. CASE q # r
  BY <1>2, RequestTouches DEF TableInv, Touches
<1>3. CASE q = r
  <2>1. /\ at[r] # "insert" /\ Ask[r].op = "update"
        /\ status[r] # 0 => at[r] = "answered"
    BY <1>3 DEF TableInv, RequestFlow, Creates, Update
  <2>2. CASE FindForUpdate(r)
    BY <1>1, <1>3, <2>1, <2>2 DEF FindForUpdate
  <2>3. CASE CommitUpdate(r) \/ Refresh(r)
    BY <1>1, <1>3, <2>1, <2>3 DEF CommitUpdate, Refresh, Reply, history
  <2>4. CASE FindMissing(r) \/ RequestFails(r)
    BY <1>1, <1>3, <2>1, <2>4 DEF FindMissing, RequestFails, Reply
  <2>. QED
    BY <2>1, <2>2, <2>3, <2>4
       DEF RequestStep, Begin, Insert, InsertConflict, Read, ListPage
<1>. QED
  BY <1>2, <1>3

(* What an update has written stays among the versions since its read.     *)
LEMMA FieldsTookStep ==
  ASSUME TableInv, FieldsTook, [Next]_vars
  PROVE  FieldsTook'
<1>1. TableGrows
  BY Growth
<1>2. CASE UNCHANGED tvars
  BY <1>2 DEF tvars, table, requests, history, FieldsTook
<1>3. ASSUME NEW r \in Requests, RequestStep(r)
      PROVE  FieldsTook'
  <2>. SUFFICES
         ASSUME NEW q \in Requests, Update(q),
                at'[q] = "refresh" \/ status'[q] = 200, NEW f \in Given(q)
         PROVE  \E v \in since'[q]..Len(hist'[Ask[q].id]) :
                  hist'[Ask[q].id][v][f] = Ask[q][f]
    BY DEF FieldsTook, Update, Given
  <2> DEFINE i == Ask[q].id
  <2>1. /\ since'[q] = since[q]
        /\ at[q] = "refresh" \/ status[q] = 200 \/ (q = r /\ CommitUpdate(r))
    BY <1>3, UpdateMoves
  <2>2. i \in Ids /\ since[q] \in 1..Len(hist[i])
    <3>1. at[q] \in {"commit", "refresh"} \/ status[q] = 200
      BY <2>1 DEF CommitUpdate
    <3>. QED
      BY <3>1 DEF TableInv, UpdatesRead, Exists
  <2>3. /\ Len(hist[i]) \in Nat /\ Len(hist'[i]) \in Nat
        /\ Len(hist[i]) <= Len(hist'[i])
        /\ \A v \in 1..Len(hist[i]) : hist'[i][v] = hist[i][v]
    BY <1>1, <2>2 DEF TableGrows
  <2>4. ASSUME NEW v \in since[q]..Len(hist[i]), hist[i][v][f] = Ask[q][f]
        PROVE  \E w \in since'[q]..Len(hist'[i]) : hist'[i][w][f] = Ask[q][f]
    <3>1. /\ v \in 1..Len(hist[i])
          /\ v \in since'[q]..Len(hist'[i])
      BY <2>1, <2>2, <2>3
    <3>. QED
      BY <2>3, <2>4, <3>1
  <2>5. CASE at[q] = "refresh" \/ status[q] = 200
    BY <2>4, <2>5 DEF FieldsTook
  <2>6. CASE q = r /\ CommitUpdate(r) /\ f \notin Dirty(r)
    <3>1. loaded[q] = hist[i][since[q]]
      BY <2>6 DEF CommitUpdate, TableInv, UpdatesRead
    <3>2. hist[i][since[q]][f] = Ask[q][f]
      BY <2>6, <3>1 DEF Dirty
    <3>3. since[q] \in since[q]..Len(hist[i])
      BY <2>2, <2>3
    <3>. QED
      BY <2>4, <3>2, <3>3
  <2>7. CASE q = r /\ CommitUpdate(r) /\ f \in Dirty(r)
    <3>1. UpdatesRow(r)
      BY <2>7 DEF CommitUpdate, UpdateRow, UpdatesRow, TableInv, TableTypes
    <3> DEFINE row == Updated(r, templates[i])
    <3>2. /\ row \in Rows
          /\ hist' = [hist EXCEPT ![i] = Append(hist[i], row)]
      BY <2>7, <3>1, RowUpdated
    <3>3. row[f] = Ask[q][f]
      <4>1. templates[i] \in Rows /\ f \in Fields
        BY <2>7, <3>1, RowUpdated
           DEF TableInv, TableTypes, Dirty, Given
      <4>. QED
        BY <2>7, <4>1, UpdatedRow
    <3>. HIDE DEF row, i
    <3>4. hist'[i] = Append(hist[i], row) /\ hist[i] \in Seq(Rows)
      BY <2>2, <3>2 DEF TableInv, TableTypes
    <3>5. Len(hist'[i]) = Len(hist[i]) + 1 /\ hist'[i][Len(hist[i]) + 1] = row
      BY <3>2, <3>4, AppendProperties
    <3>6. Len(hist'[i]) \in since'[q]..Len(hist'[i])
      BY <2>1, <2>2, <2>3
    <3>7. hist'[i][Len(hist'[i])][f] = Ask[q][f]
      BY <3>3, <3>5
    <3>. QED
      BY <3>6, <3>7 DEF i
  <2>. QED
    BY <2>1, <2>5, <2>6, <2>7
<1>. QED
  BY <1>2, <1>3, TemplateSteps

(* Every field of an update answered with 200 was in its row at some       *)
(* moment after the update read it, although SQLAlchemy writes only the    *)
(* columns that differ from what was read.                                 *)
THEOREM UpdatesTakeEffect == Spec => []UpdateTakesEffect
<1>1. Init => FieldsTook
  BY DEF Init, TemplatesInit, FieldsTook
<1>2. TableInv /\ FieldsTook /\ [Next]_vars => FieldsTook'
  BY FieldsTookStep
<1>3. FieldsTook => UpdateTakesEffect
  BY DEF FieldsTook, UpdateTakesEffect
<1>. QED
  BY <1>1, <1>2, <1>3, TableInvHolds, PTL DEF Spec

(* Only an update that gives a field, and a new value for it, changes it.  *)
LEMMA FieldKept ==
  ASSUME TableInv, NEW r \in Requests, RequestStep(r),
         NEW i \in Ids, Exists(i), NEW f \in Fields,
         Update(r) /\ Ask[r].id = i => f \notin Dirty(r)
  PROVE  templates'[i][f] = templates[i][f]
<1>1. CASE UNCHANGED <<templates, hist>>
  BY <1>1
<1>2. CASE InsertsRow(r)
  <2>1. i # r
    BY <1>2, RowInserted DEF Exists
  <2>. QED
    BY <1>2, <2>1, RowInserted DEF TableInv, TableTypes
<1>3. CASE UpdatesRow(r)
  <2> DEFINE k == Ask[r].id
             row == Updated(r, templates[k])
  <2>1. k \in Ids /\ templates' = [templates EXCEPT ![k] = row]
    BY <1>3, RowUpdated
  <2>2. Update(r) /\ (k = i => f \notin Dirty(r))
    BY <1>3 DEF UpdatesRow, TableInv, RequestFlow
  <2>3. k = i => row[f] = templates[i][f]
    <3>1. templates[i] \in Rows
      BY DEF Exists, TableInv, TableTypes
    <3>. QED
      BY <2>2, <3>1, UpdatedRow
  <2>. HIDE DEF k, row
  <2>. QED
    BY <2>1, <2>3 DEF TableInv, TableTypes
<1>. QED
  BY <1>1, <1>2, <1>3, RequestTouches DEF TableInv

(* No other update of the row gives the field.                             *)
Sole(r, f) ==
  \A q \in Requests \ {r} :
    Update(q) /\ Ask[q].id = Ask[r].id => f \notin Given(q)

(* A sole writer's field: as it was read until the update commits, and     *)
(* then as it was asked.                                                   *)
SoleFields ==
  \A r \in Requests : Update(r) =>
    \A f \in Given(r) : Sole(r, f) =>
      /\ at[r] = "commit" => templates[Ask[r].id][f] = loaded[r][f]
      /\ at[r] = "refresh" \/ status[r] = 200 =>
           templates[Ask[r].id][f] = Ask[r][f]

(* Nobody else writes a field that one request alone gives.                *)
LEMMA SoleFieldsStep ==
  ASSUME TableInv, SoleFields, [Next]_vars
  PROVE  SoleFields'
<1>1. CASE UNCHANGED tvars
  BY <1>1 DEF tvars, table, requests, SoleFields
<1>2. ASSUME NEW r \in Requests, RequestStep(r)
      PROVE  SoleFields'
  <2>. SUFFICES
         ASSUME NEW q \in Requests, Update(q), NEW f \in Given(q), Sole(q, f)
         PROVE  /\ at'[q] = "commit" =>
                     templates'[Ask[q].id][f] = loaded'[q][f]
                /\ at'[q] = "refresh" \/ status'[q] = 200 =>
                     templates'[Ask[q].id][f] = Ask[q][f]
    BY DEF SoleFields, Update, Given, Sole
  <2> DEFINE i == Ask[q].id
  <2>1. f \in Fields
    BY DEF Given
  <2>2. /\ at[q] = "commit" => templates[i][f] = loaded[q][f]
        /\ at[q] = "refresh" \/ status[q] = 200 => templates[i][f] = Ask[q][f]
    BY DEF SoleFields
  <2>3. at[q] \in {"commit", "refresh"} \/ status[q] = 200 =>
          i \in Ids /\ Exists(i)
    BY DEF TableInv, UpdatesRead, Exists
  <2>4. CASE q # r
    <3>1. /\ at'[q] = at[q] /\ status'[q] = status[q]
          /\ loaded'[q] = loaded[q]
      BY <1>2, <2>4, RequestTouches DEF TableInv, Touches
    <3>2. Update(r) /\ Ask[r].id = i => f \notin Dirty(r)
      BY <2>4 DEF Sole, Dirty
    <3>3. at[q] \in {"commit", "refresh"} \/ status[q] = 200 =>
            templates'[i][f] = templates[i][f]
      BY <1>2, <2>1, <2>3, <3>2, FieldKept
    <3>. QED
      BY <2>2, <3>1, <3>3
  <2>5. CASE q = r
    <3>1. /\ at \in [Requests -> {"new", "insert", "commit", "refresh",
                                   "answered"}]
          /\ status \in [Requests -> {0, 200, 201, 404, 409, 500}]
          /\ DOMAIN loaded = Requests
      BY DEF TableInv, TableTypes
    <3>2. /\ at[r] # "insert" /\ Ask[r].op = "update"
          /\ status[r] # 0 => at[r] = "answered"
      BY <2>5 DEF TableInv, RequestFlow, Creates, Update
    <3>3. CASE FindForUpdate(r)
      <4>1. at'[r] = "commit" /\ status'[r] = 0 /\ templates' = templates
        BY <3>1, <3>2, <3>3 DEF FindForUpdate, table
      <4>2. loaded'[r] = templates[i]
        BY <2>5, <3>1, <3>3 DEF FindForUpdate
      <4>. QED
        BY <2>5, <4>1, <4>2
    <3>4. CASE CommitUpdate(r)
      <4>1. at'[r] = "refresh" /\ at[r] = "commit"
        BY <3>1, <3>4 DEF CommitUpdate
      <4>2. i \in Ids /\ Exists(i)
        BY <2>3, <2>5, <4>1
      <4>3. CASE f \notin Dirty(r)
        <5>1. templates'[i][f] = templates[i][f]
          BY <1>2, <2>1, <2>5, <4>2, <4>3, FieldKept
        <5>2. loaded[r][f] = Ask[r][f]
          BY <2>5, <4>3 DEF Dirty
        <5>. QED
          BY <2>2, <2>5, <4>1, <5>1, <5>2
      <4>4. CASE f \in Dirty(r)
        <5>1. UpdatesRow(r)
          BY <3>4, <4>1, <4>4 DEF CommitUpdate, UpdateRow, UpdatesRow
        <5>2. templates' = [templates EXCEPT ![i] = Updated(r, templates[i])]
          BY <2>5, <5>1, RowUpdated
        <5>3. templates'[i] = Updated(r, templates[i])
          BY <4>2, <5>2 DEF TableInv, TableTypes
        <5>4. templates[i] \in Rows
          BY <4>2 DEF Exists, TableInv, TableTypes
        <5>5. Updated(r, templates[i])[f] = Ask[r][f]
          BY <2>1, <4>4, <5>4, UpdatedRow
        <5>. QED
          BY <2>5, <4>1, <5>3, <5>5
      <4>. QED
        BY <4>3, <4>4
    <3>5. CASE Refresh(r)
      <4>1. at[r] = "refresh" /\ at'[r] = "answered" /\ templates' = templates
        BY <3>1, <3>5 DEF Refresh, Reply, table
      <4>. QED
        BY <2>2, <2>5, <4>1
    <3>6. CASE FindMissing(r) \/ RequestFails(r)
      <4>1. at'[r] = "answered" /\ status'[r] \in {404, 500}
        BY <3>1, <3>6 DEF FindMissing, RequestFails, Reply
      <4>. QED
        BY <2>5, <4>1
    <3>. QED
      BY <1>2, <3>2, <3>3, <3>4, <3>5, <3>6
         DEF RequestStep, Begin, Insert, InsertConflict, Read, ListPage
  <2>. QED
    BY <2>4, <2>5
<1>. QED
  BY <1>1, <1>2, TemplateSteps

(* A field that one update alone gives has its value once that update is   *)
(* answered with 200, and keeps it: an update that left the field out      *)
(* never takes it back to what it read.                                    *)
THEOREM SoleWritersWin == Spec => []SoleWriterWins
<1>1. Init => SoleFields
  BY DEF Init, TemplatesInit, SoleFields
<1>2. TableInv /\ SoleFields /\ [Next]_vars => SoleFields'
  BY SoleFieldsStep
<1>3. SoleFields => SoleWriterWins
  BY DEF SoleFields, SoleWriterWins, Sole
<1>. QED
  BY <1>1, <1>2, <1>3, TableInvHolds, PTL DEF Spec

-----------------------------------------------------------------------------
(* Paging.  No two rows, and no two transactions that are about to insert  *)
(* one, have the same created_at, and none lies ahead of the clock.        *)
Timestamps ==
  /\ \A i \in Stored : templates[i].created < clock
  /\ \A i, k \in Stored : templates[i].created = templates[k].created => i = k
  /\ \A r \in Requests : at[r] = "insert" =>
       /\ loaded[r].created < clock
       /\ \A i \in Stored : templates[i].created # loaded[r].created
       /\ \A q \in Requests :
            at[q] = "insert" /\ loaded[q].created = loaded[r].created => q = r

StoredFinite == IsFiniteSet(Stored)

(* How the clock, the loaded rows and the stored set move.                 *)
LEMMA TimeMoves ==
  ASSUME TableInv, NEW r \in Requests, RequestStep(r)
  PROVE  /\ clock \in Nat /\ clock' \in Nat /\ clock <= clock'
         /\ \A q \in Requests : at'[q] = "insert" =>
              \/ at[q] = "insert" /\ loaded'[q] = loaded[q]
              \/ /\ q = r
                 /\ loaded'[q].created = clock /\ clock' = clock + 1
                 /\ UNCHANGED templates
         /\ \/ /\ Stored' = Stored
               /\ \A i \in Stored : templates'[i].created = templates[i].created
            \/ /\ at[r] = "insert" /\ at'[r] # "insert"
               /\ Stored' = Stored \cup {r} /\ r \notin Stored
               /\ templates'[r].created = loaded[r].created
               /\ \A i \in Stored : templates'[i] = templates[i]
<1>1. clock \in Nat /\ clock' \in Nat /\ clock <= clock'
  BY DEF RequestStep, Begin, Insert, InsertConflict, FindMissing, Read,
         FindForUpdate, CommitUpdate, Refresh, ListPage, RequestFails,
         TableInv, TableTypes, table
<1>2. ASSUME NEW q \in Requests, at'[q] = "insert"
      PROVE  \/ at[q] = "insert" /\ loaded'[q] = loaded[q]
             \/ /\ q = r
                /\ loaded'[q].created = clock /\ clock' = clock + 1
                /\ UNCHANGED templates
  <2>1. at \in [Requests -> {"new", "insert", "commit", "refresh", "answered"}]
    BY DEF TableInv, TableTypes
  <2>2. CASE q # r
    BY <1>2, <2>2, RequestTouches DEF TableInv, Touches
  <2>3. CASE q = r /\ Begin(r)
    <3>1. loaded[r] = NoTemplate
      BY <2>3 DEF Begin, TableInv, RequestFlow
    <3>2. loaded'[r] = [NoTemplate EXCEPT !.created = clock]
      BY <2>3, <3>1 DEF Begin, TableInv, TableTypes
    <3>3. [NoTemplate EXCEPT !.created = clock].created = clock
      BY DEF NoTemplate
    <3>. QED
      BY <2>3, <3>2, <3>3 DEF Begin
  <2>4. CASE q = r /\ ListPage(r)
    <3>1. at'[r] \in {"new", "answered"}
      BY <2>1, <2>4 DEF ListPage, Reply
    <3>. QED
      BY <1>2, <2>4, <3>1
  <2>5. CASE q = r /\ ~Begin(r) /\ ~ListPage(r)
    <3>1. at'[r] # "insert"
      BY <2>1, <2>5
         DEF RequestStep, Insert, InsertConflict, FindMissing, Read,
             FindForUpdate, CommitUpdate, Refresh, RequestFails, Reply
    <3>. QED
      BY <1>2, <2>5, <3>1
  <2>. QED
    BY <2>2, <2>3, <2>4, <2>5
<1>3. CASE UNCHANGED <<templates, hist>>
  BY <1>1, <1>2, <1>3 DEF Stored, Exists
<1>4. CASE InsertsRow(r)
  <2>1. /\ r \in Ids /\ templates[r] = NoTemplate
        /\ NewRow(r) # NoTemplate
        /\ templates' = [templates EXCEPT ![r] = NewRow(r)]
    BY <1>4, RowInserted
  <2>2. \A i \in Ids \ {r} : templates'[i] = templates[i]
    BY <2>1 DEF TableInv, TableTypes
  <2>3. templates'[r] = NewRow(r) /\ NewRow(r).created = loaded[r].created
    BY <2>1 DEF TableInv, TableTypes, NewRow
  <2>4. Stored' = Stored \cup {r} /\ r \notin Stored
    BY <2>1, <2>2, <2>3 DEF Stored, Exists
  <2>5. \A i \in Stored : templates'[i] = templates[i]
    BY <2>2, <2>4 DEF Stored
  <2>6. at[r] = "insert" /\ at'[r] # "insert"
    BY <1>4 DEF InsertsRow
  <2>. QED
    BY <1>1, <1>2, <2>3, <2>4, <2>5, <2>6
<1>5. CASE UpdatesRow(r)
  <2> DEFINE k == Ask[r].id
             row == Updated(r, templates[k])
  <2>1. /\ k \in Ids /\ templates[k] # NoTemplate /\ row # NoTemplate
        /\ row.created = templates[k].created
        /\ templates' = [templates EXCEPT ![k] = row]
    BY <1>5, RowUpdated
  <2>. HIDE DEF k, row
  <2>2. /\ templates'[k] = row
        /\ \A i \in Ids \ {k} : templates'[i] = templates[i]
    BY <2>1 DEF TableInv, TableTypes
  <2>3. /\ Stored' = Stored
        /\ \A i \in Stored : templates'[i].created = templates[i].created
    BY <2>1, <2>2 DEF Stored, Exists
  <2>. QED
    BY <1>1, <1>2, <2>3
<1>. QED
  BY <1>3, <1>4, <1>5, RequestTouches DEF TableInv

(* The clock runs past every created_at it gave out.                       *)
LEMMA TimestampsStep ==
  ASSUME TableInv, Timestamps, StoredFinite, [Next]_vars
  PROVE  Timestamps' /\ StoredFinite'
<1>1. CASE UNCHANGED tvars
  BY <1>1 DEF tvars, table, requests, Timestamps, StoredFinite, Stored, Exists
<1>2. ASSUME NEW r \in Requests, RequestStep(r)
      PROVE  Timestamps' /\ StoredFinite'
  <2>1. /\ \A i \in Stored : templates[i].created \in Int
        /\ \A q \in Requests : at[q] = "insert" => loaded[q].created \in Int
    BY DEF TableInv, TableTypes, RequestFlow, CreatedRows, Stored, Exists, Rows
  <2>2. clock \in Nat /\ clock' \in Nat /\ clock <= clock'
    BY <1>2, TimeMoves
  <2>3. \A q \in Requests : at'[q] = "insert" =>
          \/ at[q] = "insert" /\ loaded'[q] = loaded[q]
          \/ /\ q = r
             /\ loaded'[q].created = clock /\ clock' = clock + 1
             /\ UNCHANGED templates
    BY <1>2, TimeMoves
  <2>4. CASE /\ Stored' = Stored
             /\ \A i \in Stored : templates'[i].created = templates[i].created
    <3>1. StoredFinite'
      BY <2>4 DEF StoredFinite
    <3>2. /\ \A i \in Stored' : templates'[i].created < clock'
          /\ \A i, k \in Stored' :
               templates'[i].created = templates'[k].created => i = k
      BY <2>1, <2>2, <2>4 DEF Timestamps
    <3>3. ASSUME NEW q \in Requests, at'[q] = "insert"
          PROVE  /\ loaded'[q].created < clock'
                 /\ \A i \in Stored' :
                      templates'[i].created # loaded'[q].created
                 /\ \A p \in Requests :
                      at'[p] = "insert"
                      /\ loaded'[p].created = loaded'[q].created => p = q
      BY <2>1, <2>2, <2>3, <2>4, <3>3 DEF Timestamps
    <3>. QED
      BY <3>1, <3>2, <3>3 DEF Timestamps
  <2>5. CASE /\ at[r] = "insert" /\ at'[r] # "insert"
             /\ Stored' = Stored \cup {r} /\ r \notin Stored
             /\ templates'[r].created = loaded[r].created
             /\ \A i \in Stored : templates'[i] = templates[i]
    <3>1. StoredFinite'
      BY <2>5, FS_AddElement DEF StoredFinite
    <3>2. /\ \A i \in Stored' : templates'[i].created < clock'
          /\ \A i, k \in Stored' :
               templates'[i].created = templates'[k].created => i = k
      BY <2>1, <2>2, <2>5 DEF Timestamps
    <3>3. ASSUME NEW q \in Requests, at'[q] = "insert"
          PROVE  q # r /\ at[q] = "insert" /\ loaded'[q] = loaded[q]
      BY <2>3, <2>5, <3>3
    <3>4. ASSUME NEW q \in Requests, at'[q] = "insert"
          PROVE  /\ loaded'[q].created < clock'
                 /\ \A i \in Stored' :
                      templates'[i].created # loaded'[q].created
                 /\ \A p \in Requests :
                      at'[p] = "insert"
                      /\ loaded'[p].created = loaded'[q].created => p = q
      BY <2>1, <2>2, <2>5, <3>3, <3>4 DEF Timestamps
    <3>. QED
      BY <3>1, <3>2, <3>4 DEF Timestamps
  <2>. QED
    BY <1>2, <2>4, <2>5, TimeMoves
<1>. QED
  BY <1>1, <1>2, TemplateSteps

(* The rows at or before a row in the order of the list, newest first.     *)
Newness    == [i \in Stored |-> -templates[i].created]
NotOlder(i) == {k \in Stored : templates[k].created >= templates[i].created}

(* What is seen of a list, and what is still to come: an unseen row of the *)
(* first page's time stands past the pages read so far.                    *)
PagesSoFar ==
  \A r \in Requests : Ask[r].op = "list" =>
    /\ seen[r] \in Seq(Ids)
    /\ at[r] \in {"new", "answered"}
    /\ \A i \in present[r] :
         /\ i \in Stored
         /\ \/ \E n \in DOMAIN seen[r] : seen[r][n] = i
            \/ status[r] # 200 /\ Len(seen[r]) < Cardinality(NotOlder(i))

(* The list: each stored row once, a row's position being the number of    *)
(* rows that are not older.                                                *)
LEMMA NewestLists ==
  ASSUME TableInv, Timestamps, StoredFinite
  PROVE  /\ Cardinality(Stored) \in Nat
         /\ Newest \in [1..Cardinality(Stored) -> Stored]
         /\ Newest \in Seq(Ids) /\ Len(Newest) = Cardinality(Stored)
         /\ \A i \in Stored :
              /\ Cardinality(NotOlder(i)) \in 1..Cardinality(Stored)
              /\ Newest[Cardinality(NotOlder(i))] = i
<1>1. \A i \in Stored : templates[i].created \in Int
  BY DEF TableInv, TableTypes, Stored, Exists, Rows
<1>2. Ranks(Stored, Newness)
  <2>1. \A i \in Stored : Newness[i] = -templates[i].created
    BY DEF Newness
  <2>. QED
    BY <1>1, <2>1 DEF Ranks, Timestamps
<1>3. Newest = InOrder(Stored, Newness)
  BY DEF Newest, Newness
<1>4. \A i \in Stored : UpTo(Stored, Newness, i) = NotOlder(i)
  <2>1. \A i \in Stored : Newness[i] = -templates[i].created
    BY DEF Newness
  <2>. QED
    BY <1>1, <2>1 DEF UpTo, NotOlder
<1>5. /\ Cardinality(Stored) \in Nat
      /\ Newest \in [1..Cardinality(Stored) -> Stored]
      /\ \A i \in Stored : \E k \in 1..Cardinality(Stored) : Newest[k] = i
      /\ \A k \in 1..Cardinality(Stored) :
           Cardinality(UpTo(Stored, Newness, Newest[k])) = k
  BY <1>2, <1>3, InOrderLists DEF StoredFinite
<1>6. Newest \in Seq(Ids) /\ Len(Newest) = Cardinality(Stored)
  <2>1. Newest \in [1..Cardinality(Stored) -> Ids]
    BY <1>5 DEF Stored
  <2>2. Newest \in Seq(Ids)
    BY <1>5, <2>1, SeqDef
  <2>3. DOMAIN Newest = 1..Len(Newest) /\ Len(Newest) \in Nat
    BY <2>2, LenProperties
  <2>4. 1..Len(Newest) = 1..Cardinality(Stored)
    BY <2>1, <2>3
  <2>. QED
    BY <1>5, <2>2, <2>3, <2>4
<1>7. ASSUME NEW i \in Stored
      PROVE  /\ Cardinality(NotOlder(i)) \in 1..Cardinality(Stored)
             /\ Newest[Cardinality(NotOlder(i))] = i
  <2>1. PICK k \in 1..Cardinality(Stored) : Newest[k] = i
    BY <1>5
  <2>2. Cardinality(NotOlder(i)) = k
    BY <1>4, <1>5, <2>1
  <2>. QED
    BY <2>1, <2>2
<1>. QED
  BY <1>5, <1>6, <1>7

(* A page is what the list holds from the offset on, and is not full only  *)
(* at the end of the list.                                                 *)
LEMMA PageHolds ==
  ASSUME NEW S, NEW s \in Seq(S), NEW n \in Nat
  PROVE  /\ Page(s, n) \in Seq(S)
         /\ Len(Page(s, n)) \in Nat
         /\ Len(Page(s, n)) <= PageSize
         /\ Len(Page(s, n)) < PageSize => n + Len(Page(s, n)) >= Len(s)
         /\ \A k \in n + 1..n + Len(Page(s, n)) :
              k \in 1..Len(s) /\ Page(s, n)[k - n] = s[k]
<1> DEFINE e == IF n + PageSize < Len(s) THEN n + PageSize ELSE Len(s)
<1>1. /\ Len(s) \in Nat /\ PageSize \in Nat \ {0} /\ DOMAIN s = 1..Len(s)
      /\ \A k \in 1..Len(s) : s[k] \in S
  BY TemplatesAssumption, LenProperties, ElementOfSeq
<1>2. e \in Nat /\ e <= Len(s) /\ e <= n + PageSize
  BY <1>1
<1>3. Page(s, n) = SubSeq(s, n + 1, e)
  BY DEF Page
<1>4. e = n + PageSize \/ e = Len(s)
  OBVIOUS
<1>. HIDE DEF e
<1>5. /\ SubSeq(s, n + 1, e) \in Seq(S)
      /\ Len(SubSeq(s, n + 1, e)) =
           IF n + 1 <= e THEN e - (n + 1) + 1 ELSE 0
      /\ \A i \in 1..e - (n + 1) + 1 :
           SubSeq(s, n + 1, e)[i] = s[n + 1 + i - 1]
  <2>1. n + 1 \in Int /\ e \in Int
    BY <1>2
  <2>2. \A i \in n + 1..e : s[i] \in S
    BY <1>1, <1>2
  <2>. QED
    BY <2>1, <2>2, SubSeqProperties
<1>6. ASSUME NEW k \in n + 1..n + Len(Page(s, n))
      PROVE  k \in 1..Len(s) /\ Page(s, n)[k - n] = s[k]
  <2>1. k - n \in 1..e - (n + 1) + 1 /\ n + 1 + (k - n) - 1 = k
    BY <1>2, <1>3, <1>5
  <2>2. k \in 1..Len(s)
    BY <1>1, <1>2, <1>3, <1>5
  <2>3. SubSeq(s, n + 1, e)[k - n] = s[n + 1 + (k - n) - 1]
    BY <1>5, <2>1
  <2>. QED
    BY <1>3, <2>1, <2>2, <2>3
<1>7. /\ Len(Page(s, n)) \in Nat
      /\ Len(Page(s, n)) = IF n + 1 <= e THEN e - n ELSE 0
  BY <1>2, <1>3, <1>5
<1>8. /\ Len(Page(s, n)) <= PageSize
      /\ Len(Page(s, n)) < PageSize => n + Len(Page(s, n)) >= Len(s)
  <2> DEFINE l == Len(Page(s, n))
             m == Len(s)
  <2>1. /\ l \in Nat /\ m \in Nat /\ PageSize \in Nat \ {0}
        /\ l = IF n + 1 <= e THEN e - n ELSE 0
        /\ e = n + PageSize \/ e = m
    BY <1>1, <1>4, <1>7
  <2>. HIDE DEF l, m
  <2>2. l <= PageSize /\ (l < PageSize => n + l >= m)
    BY <1>2, <2>1
  <2>. QED
    BY <2>2 DEF l, m
<1>. QED
  BY <1>3, <1>5, <1>6, <1>7, <1>8

(* Rows that are not older only gain company.                              *)
LEMMA NotOlderGrows ==
  ASSUME TableInv, StoredFinite, StoredFinite', [Next]_vars, NEW i \in Stored
  PROVE  /\ i \in Stored'
         /\ Cardinality(NotOlder(i)) \in Nat
         /\ Cardinality(NotOlder(i)') \in Nat
         /\ Cardinality(NotOlder(i)) <= Cardinality(NotOlder(i)')
<1>1. \A k \in Stored : k \in Stored' /\ templates'[k].created =
                                           templates[k].created
  BY Growth DEF TableGrows, Stored, Exists
<1>2. NotOlder(i) \in SUBSET (NotOlder(i)')
  BY <1>1 DEF NotOlder
<1>3. NotOlder(i) \in SUBSET Stored /\ NotOlder(i)' \in SUBSET Stored'
  BY DEF NotOlder
<1>4. IsFiniteSet(NotOlder(i)) /\ IsFiniteSet(NotOlder(i)')
  BY <1>3, FS_Subset DEF StoredFinite
<1>. QED
  BY <1>1, <1>2, <1>4, FS_Subset, FS_CardinalityType

(* One more page.                                                          *)
LEMMA PagesSoFarPage ==
  ASSUME TableInv, Timestamps, StoredFinite, PagesSoFar,
         NEW r \in Requests, ListPage(r)
  PROVE  /\ seen'[r] \in Seq(Ids)
         /\ at'[r] \in {"new", "answered"}
         /\ \A i \in present'[r] :
              /\ i \in Stored
              /\ \/ \E n \in DOMAIN seen'[r] : seen'[r][n] = i
                 \/ /\ status'[r] # 200
                    /\ Len(seen'[r]) < Cardinality(NotOlder(i))
<1> DEFINE n == Len(seen[r])
           page == Page(Newest, n)
<1>1. /\ at[r] = "new" /\ Ask[r].op = "list"
      /\ seen' = [seen EXCEPT ![r] = seen[r] \o page]
      /\ IF Len(page) < PageSize THEN Reply(r, 200)
                                 ELSE UNCHANGED <<at, status>>
      /\ present' = [present EXCEPT ![r] = IF seen[r] = <<>> THEN Stored
                                                             ELSE present[r]]
  BY DEF ListPage
<1>2. seen[r] \in Seq(Ids) /\ n \in Nat /\ DOMAIN seen[r] = 1..n
  BY <1>1, LenProperties DEF PagesSoFar
<1>3. /\ Newest \in Seq(Ids) /\ Len(Newest) \in Nat
      /\ \A i \in Stored :
           /\ Cardinality(NotOlder(i)) \in 1..Len(Newest)
           /\ Newest[Cardinality(NotOlder(i))] = i
  BY NewestLists
<1>4. /\ page \in Seq(Ids)
      /\ Len(page) \in Nat
      /\ Len(page) < PageSize => n + Len(page) >= Len(Newest)
      /\ \A k \in n + 1..n + Len(page) : page[k - n] = Newest[k]
  BY <1>2, <1>3, PageHolds
<1>5. /\ DOMAIN seen = Requests
      /\ at \in [Requests -> {"new", "insert", "commit", "refresh",
                               "answered"}]
      /\ status \in [Requests -> {0, 200, 201, 404, 409, 500}]
      /\ present \in [Requests -> SUBSET Ids]
      /\ status[r] = 0
  BY <1>1 DEF TableInv, TableTypes, RequestFlow
<1>. HIDE DEF page, n
<1>6. seen'[r] = seen[r] \o page
  BY <1>1, <1>5
<1>7. /\ seen'[r] \in Seq(Ids)
      /\ Len(seen'[r]) = n + Len(page)
      /\ DOMAIN seen'[r] = 1..n + Len(page)
      /\ \A k \in 1..n : seen'[r][k] = seen[r][k]
      /\ \A k \in n + 1..n + Len(page) : seen'[r][k] = Newest[k]
  <2>1. /\ seen'[r] \in Seq(Ids)
        /\ Len(seen'[r]) = n + Len(page)
        /\ \A k \in 1..n + Len(page) :
             seen'[r][k] = IF k <= n THEN seen[r][k] ELSE page[k - n]
    BY <1>2, <1>4, <1>6, ConcatProperties DEF n
  <2>2. DOMAIN seen'[r] = 1..n + Len(page)
    BY <2>1, LenProperties
  <2>3. n \in Nat /\ Len(page) \in Nat
    BY <1>2, <1>4
  <2>4. \A k \in 1..n : seen'[r][k] = seen[r][k]
    BY <2>1, <2>3
  <2>5. ASSUME NEW k \in n + 1..n + Len(page)
        PROVE  seen'[r][k] = Newest[k]
    <3>1. /\ k \in 1..n + Len(page) /\ ~(k <= n)
          /\ k - n \in 1..Len(page) /\ n + (k - n) = k
      BY <2>3
    <3>. QED
      BY <1>4, <2>1, <3>1
  <2>. QED
    BY <2>1, <2>2, <2>4, <2>5
<1>8. at'[r] \in {"new", "answered"}
  BY <1>1, <1>5 DEF Reply
<1>9. status'[r] = 200 => n + Len(page) >= Len(Newest)
  BY <1>1, <1>4, <1>5
<1>10. ASSUME NEW i \in present'[r]
       PROVE  /\ i \in Stored
              /\ \/ \E k \in DOMAIN seen'[r] : seen'[r][k] = i
                 \/ /\ status'[r] # 200
                    /\ Len(seen'[r]) < Cardinality(NotOlder(i))
  <2> DEFINE p == Cardinality(NotOlder(i))
  <2>1. /\ i \in Stored
        /\ (\E k \in DOMAIN seen[r] : seen[r][k] = i) \/ n < p
    <3>1. CASE seen[r] = <<>>
      <4>1. i \in Stored
        BY <1>1, <1>5, <3>1
      <4>2. n = 0
        BY <3>1 DEF n
      <4>. QED
        BY <1>3, <4>1, <4>2
    <3>2. CASE seen[r] # <<>>
      <4>1. i \in present[r]
        BY <1>1, <1>5, <3>2
      <4>. QED
        BY <1>1, <4>1 DEF PagesSoFar, n
    <3>. QED
      BY <3>1, <3>2
  <2>2. p \in 1..Len(Newest) /\ Newest[p] = i
    BY <1>3, <2>1
  <2>. HIDE DEF p
  <2>3. CASE \E k \in DOMAIN seen[r] : seen[r][k] = i
    <3>1. PICK k \in 1..n : seen[r][k] = i
      BY <1>2, <2>3
    <3>2. k \in DOMAIN seen'[r] /\ seen'[r][k] = i
      <4>1. k \in 1..n + Len(page)
        BY <1>2, <1>4
      <4>. QED
        BY <1>7, <3>1, <4>1
    <3>. QED
      BY <2>1, <3>2
  <2>4. CASE n < p /\ p <= n + Len(page)
    <3>1. p \in n + 1..n + Len(page)
      BY <1>2, <1>3, <1>4, <2>2, <2>4
    <3>2. p \in DOMAIN seen'[r] /\ seen'[r][p] = i
      BY <1>2, <1>3, <1>4, <1>7, <2>2, <3>1
    <3>. QED
      BY <2>1, <3>2
  <2>5. CASE n + Len(page) < p
    <3>1. status'[r] # 200
      BY <1>2, <1>3, <1>4, <1>9, <2>2, <2>5
    <3>. QED
      BY <1>7, <2>1, <2>5, <3>1 DEF p
  <2>. QED
    BY <1>2, <1>3, <1>4, <2>1, <2>2, <2>3, <2>4, <2>5
<1>. QED
  BY <1>7, <1>8, <1>10

(* A new row comes before the pages read, so nothing unseen slips past.    *)
LEMMA PagesSoFarStep ==
  ASSUME TableInv, Timestamps, StoredFinite, StoredFinite', PagesSoFar,
         [Next]_vars
  PROVE  PagesSoFar'
<1>1. CASE UNCHANGED tvars
  <2>1. /\ templates' = templates /\ seen' = seen /\ at' = at
        /\ status' = status /\ present' = present
    BY <1>1 DEF tvars, table, requests, history
  <2>2. Stored' = Stored
    BY <2>1 DEF Stored, Exists
  <2>3. \A i : NotOlder(i)' = NotOlder(i)
    BY <2>1, <2>2 DEF NotOlder
  <2>. QED
    BY <2>1, <2>2, <2>3 DEF PagesSoFar
<1>2. ASSUME NEW r \in Requests, RequestStep(r)
      PROVE  PagesSoFar'
  <2>. SUFFICES
         ASSUME NEW q \in Requests, Ask[q].op = "list"
         PROVE  /\ seen'[q] \in Seq(Ids)
                /\ at'[q] \in {"new", "answered"}
                /\ \A i \in present'[q] :
                     /\ i \in Stored'
                     /\ \/ \E n \in DOMAIN seen'[q] : seen'[q][n] = i
                        \/ /\ status'[q] # 200
                           /\ Len(seen'[q]) < Cardinality(NotOlder(i)')
    BY DEF PagesSoFar
  <2>1. \A i \in Stored : /\ i \in Stored'
                          /\ Cardinality(NotOlder(i)) \in Nat
                          /\ Cardinality(NotOlder(i)') \in Nat
                          /\ Cardinality(NotOlder(i)) <=
                               Cardinality(NotOlder(i)')
    BY NotOlderGrows
  <2>2. ASSUME seen'[q] \in Seq(Ids), at'[q] \in {"new", "answered"},
               NEW i \in present'[q], i \in Stored,
               \/ \E n \in DOMAIN seen'[q] : seen'[q][n] = i
               \/ /\ status'[q] # 200
                  /\ Len(seen'[q]) < Cardinality(NotOlder(i))
        PROVE  /\ i \in Stored'
               /\ \/ \E n \in DOMAIN seen'[q] : seen'[q][n] = i
                  \/ /\ status'[q] # 200
                     /\ Len(seen'[q]) < Cardinality(NotOlder(i)')
    <3>1. Len(seen'[q]) \in Nat
      BY <2>2, LenProperties
    <3>. QED
      BY <2>1, <2>2, <3>1
  <2>3. CASE q = r /\ ListPage(r)
    BY <2>2, <2>3, PagesSoFarPage
  <2>4. CASE ~(q = r /\ ListPage(r))
    <3>1. /\ seen[q] \in Seq(Ids) /\ at[q] \in {"new", "answered"}
          /\ \A i \in present[q] :
               /\ i \in Stored
               /\ \/ \E n \in DOMAIN seen[q] : seen[q][n] = i
                  \/ status[q] # 200 /\ Len(seen[q]) < Cardinality(NotOlder(i))
      BY DEF PagesSoFar
    <3>2. /\ seen'[q] = seen[q] /\ present'[q] = present[q]
          /\ \/ at'[q] = at[q] /\ status'[q] = status[q]
             \/ at'[q] = "answered" /\ status'[q] = 500
      <4>1. CASE q # r
        BY <1>2, <4>1, RequestTouches DEF TableInv, Touches
      <4>2. CASE q = r /\ RequestFails(r)
        BY <4>2 DEF RequestFails, Reply, history, TableInv, TableTypes
      <4>3. CASE q = r /\ ~RequestFails(r)
        BY <1>2, <2>4, <3>1, <4>3
           DEF RequestStep, Begin, Insert, InsertConflict, FindMissing, Read,
               FindForUpdate, CommitUpdate, Refresh
      <4>. QED
        BY <4>1, <4>2, <4>3
    <3>. QED
      BY <2>2, <3>1, <3>2
  <2>. QED
    BY <2>3, <2>4
<1>. QED
  BY <1>1, <1>2, TemplateSteps

(* A client that reads the list page by page to its end has met every      *)
(* template there was at its first page, whatever is created or changed    *)
(* between the pages: new rows come first and rows are never removed.      *)
THEOREM PagesMissNothing == Spec => []PagingMissesNothing
<1> DEFINE Inv == Timestamps /\ StoredFinite /\ PagesSoFar
<1>1. Init => Inv
  <2>. SUFFICES ASSUME Init
                PROVE  Inv
    OBVIOUS
  <2>1. /\ Stored \in SUBSET DOMAIN Seeds
        /\ \A i \in Stored : templates[i] = Seeds[i]
        /\ clock = 1
    BY DEF Init, TemplatesInit, Stored, Exists
  <2>2. \A i \in Stored : Seeds[i].created \in Int
    BY <2>1, TemplatesAssumption DEF Rows
  <2>3. Timestamps
    BY <2>1, <2>2, TemplatesAssumption DEF Timestamps, Init, TemplatesInit
  <2>4. StoredFinite
    BY <2>1, TemplatesAssumption, FS_Subset DEF StoredFinite
  <2>5. PagesSoFar
    BY EmptySeq DEF Init, TemplatesInit, PagesSoFar
  <2>. QED
    BY <2>3, <2>4, <2>5
<1>2. TableInv /\ Inv /\ [Next]_vars => Inv'
  BY TimestampsStep, PagesSoFarStep
<1>3. Inv => PagingMissesNothing
  BY DEF PagesSoFar, PagingMissesNothing
<1>. HIDE DEF Inv
<1>. QED
  BY <1>1, <1>2, <1>3, TableInvHolds, PTL DEF Spec

=============================================================================
