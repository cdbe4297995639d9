---------------------------- MODULE AttemptProofs ----------------------------
(***************************************************************************)
(* Proofs about the delivery attempts of module AttemptSend, for any jobs, *)
(* any contacts, any retry setting and any changes of the templates that   *)
(* run beside them.                                                        *)
(***************************************************************************)
EXTENDS TemplateProofs

Steps == {"idle", "contacts", "template", "send", "sleep", "sent", "failed"}
Trying == {"contacts", "template", "send"}

AttemptTypes ==
  /\ step \in [Jobs -> Steps]
  /\ attempts \in [Jobs -> 0..MaxAttempts]
  /\ wait \in [Jobs -> Nat]
  /\ began \in [Jobs -> Nat]
  /\ authFailures \in [Jobs -> 0..MaxAuthFailures]
  /\ DOMAIN contact = Jobs
  /\ DOMAIN message = Jobs
  /\ raw \in RawDelays

(* No attempt runs on an invalid setting; each attempt is counted before   *)
(* it begins; a sleep has the delay of the attempts made so far.           *)
AttemptFlow ==
  \A j \in Jobs :
    /\ step[j] # "idle" => ~DelaysInvalid(raw)
    /\ step[j] = "idle" => attempts[j] = 0
    /\ step[j] \in Trying => attempts[j] \in 1..MaxAttempts
    /\ step[j] = "sleep" =>
         /\ attempts[j] \in 1..MaxAttempts - 1
         /\ wait[j] = RetryDelay(attempts[j], Numbers(raw))

MadeUpSent(j) == {d \in {e \in delivered : e.job = j} : d.to = MadeUp}

(* The made-up address this attempt holds and may yet use.                 *)
MadeUpHeld(j) ==
  IF step[j] \in {"template", "send"} /\ contact[j] = MadeUp THEN 1 ELSE 0

(* Every made-up address, used or held, stems from a failed auth call.     *)
OutagesCover ==
  /\ IsFiniteSet(delivered)
  /\ \A j \in Jobs :
       /\ step[j] \in {"template", "send"} => contact[j] \in {Contact[j], MadeUp}
       /\ step[j] = "send" => contact[j] # NoText
       /\ AuthBaseUrl =>
            Cardinality(MadeUpSent(j)) + MadeUpHeld(j) <= authFailures[j]
  /\ \A d \in delivered :
       d.job \in Jobs /\ d.to \in {Contact[d.job], MadeUp} \ {NoText}

(* m has the texts of a version of key k's template no older than b.       *)
Shows(k, b, m) ==
  /\ FindByKey(k) # NoId
  /\ FindByKey(k) \in Stored
  /\ \E v \in Larger(1, b)..Len(hist[FindByKey(k)]) :
       \A f \in Fields : hist[FindByKey(k)][v][f] = m[f]

(* What is about to be sent, and what was, shows such a version.           *)
MessagesCurrent ==
  /\ \A j \in Jobs :
       /\ step[j] \in Trying => began[j] <= Versions(j)
       /\ step[j] = "send" => Shows(Key[j], began[j], message[j])
  /\ \A d \in delivered :
       d.job \in Jobs /\ d.began \in Nat /\ Shows(Key[d.job], d.began, d.message)

AttemptInv == AttemptTypes /\ AttemptFlow /\ OutagesCover /\ MessagesCurrent

-----------------------------------------------------------------------------
(* The retry setting.                                                      *)
Settings == Seq(Nat \cup {Blank, Junk})

Filled(parts)   == {n \in DOMAIN parts : parts[n] # Blank}
Position(parts) == [n \in DOMAIN parts |-> n]

(* Numbers lists the parts that are not blank, in their order, the k-th    *)
(* one being the part up to which there are k of them.                     *)
LEMMA NumbersKept ==
  ASSUME NEW parts \in Settings
  PROVE  LET S == Filled(parts)
             kept == InOrder(S, Position(parts))
         IN  /\ Cardinality(S) \in Nat
             /\ kept \in [1..Cardinality(S) -> S]
             /\ \A n \in 1..Cardinality(S) :
                  Cardinality({q \in 1..kept[n] : parts[q] # Blank}) = n
             /\ \A x \in S : \E k \in 1..Cardinality(S) : kept[k] = x
             /\ \A m, n \in 1..Cardinality(S) : m < n => kept[m] < kept[n]
             /\ Numbers(parts) = [k \in 1..Cardinality(S) |-> parts[kept[k]]]
             /\ Len(Numbers(parts)) = Cardinality(S)
<1> DEFINE S == Filled(parts)
           rank == Position(parts)
           kept == InOrder(S, rank)
           N == Cardinality(S)
<1>1. DOMAIN parts = 1..Len(parts) /\ Len(parts) \in Nat
  BY DEF Settings
<1>2. IsFiniteSet(S)
  <2>1. IsFiniteSet(1..Len(parts))
    BY <1>1, FS_Interval
  <2>. QED
    BY <1>1, <2>1, FS_Subset DEF Filled
<1>3. \A n \in S : rank[n] = n /\ n \in 1..Len(parts)
  BY <1>1 DEF Filled, Position
<1>4. Ranks(S, rank)
  BY <1>3 DEF Ranks
<1>. HIDE DEF rank
<1>5. /\ N \in Nat
      /\ kept \in [1..N -> S]
      /\ Ascends(kept, rank)
      /\ \A x \in S : \E k \in 1..N : kept[k] = x
      /\ \A k \in 1..N : Cardinality(UpTo(S, rank, kept[k])) = k
  BY <1>2, <1>4, InOrderLists
<1>. HIDE DEF kept, N
<1>6. ASSUME NEW n \in 1..N
      PROVE  Cardinality({q \in 1..kept[n] : parts[q] # Blank}) = n
  <2>1. kept[n] \in S
    BY <1>5
  <2>2. UpTo(S, rank, kept[n]) = {q \in 1..kept[n] : parts[q] # Blank}
    BY <1>1, <1>3, <2>1 DEF UpTo, Filled
  <2>. QED
    BY <1>5, <2>2
<1>7. \A m, n \in 1..N : m < n => kept[m] < kept[n]
  BY <1>3, <1>5 DEF Ascends
<1>8. Numbers(parts) = [k \in 1..N |-> parts[kept[k]]]
  <2>1. Numbers(parts) = [k \in DOMAIN kept |-> parts[kept[k]]]
    BY DEF Numbers, kept, S, rank, Filled, Position
  <2>. QED
    BY <1>5, <2>1
<1>9. Len(Numbers(parts)) = N
  <2>1. \A k \in 1..N : parts[kept[k]] \in Nat \cup {Blank, Junk}
    BY <1>1, <1>3, <1>5 DEF Settings
  <2>2. Numbers(parts) \in [1..N -> Nat \cup {Blank, Junk}]
    BY <1>8, <2>1
  <2>. QED
    BY <1>5, <2>2, LenProperties, SeqDef
<1>. QED
  BY <1>5, <1>6, <1>7, <1>8, <1>9 DEF kept, N, S, rank

(* The delay after n attempts is the n-th number of a valid setting, or    *)
(* the last one there is.                                                  *)
LEMMA DelayChosen ==
  ASSUME NEW parts \in Settings, ~DelaysInvalid(parts), NEW n \in Nat \ {0}
  PROVE  /\ RetryDelay(n, Numbers(parts)) \in Nat
         /\ \E p \in DOMAIN parts :
              LET before == Cardinality({q \in 1..p : parts[q] # Blank})
                  after  == Cardinality({q \in p + 1..Len(parts) :
                                          parts[q] # Blank})
              IN  /\ parts[p] # Blank
                  /\ before = n \/ (before < n /\ after = 0)
                  /\ RetryDelay(n, Numbers(parts)) = parts[p]
<1> DEFINE S == Filled(parts)
           N == Cardinality(S)
           kept == InOrder(S, Position(parts))
           k == Smaller(n, N)
           p == kept[k]
           delays == Numbers(parts)
           before == Cardinality({q \in 1..p : parts[q] # Blank})
           after  == Cardinality({q \in p + 1..Len(parts) : parts[q] # Blank})
<1>1. /\ N \in Nat /\ kept \in [1..N -> S]
      /\ \A m \in 1..N :
           Cardinality({q \in 1..kept[m] : parts[q] # Blank}) = m
      /\ \A x \in S : \E m \in 1..N : kept[m] = x
      /\ \A l, m \in 1..N : l < m => kept[l] < kept[m]
      /\ delays = [m \in 1..N |-> parts[kept[m]]]
      /\ Len(delays) = N
  BY NumbersKept
<1>2. DOMAIN parts = 1..Len(parts) /\ Len(parts) \in Nat
  BY DEF Settings
<1>. HIDE DEF kept, N, delays
<1>3. delays # <<>> /\ \A q \in DOMAIN parts : parts[q] # Junk
  BY DEF DelaysInvalid, delays
<1>4. N # 0
  <2>1. \A m \in 1..N : parts[kept[m]] \in Nat \cup {Blank, Junk}
    BY <1>1, <1>2 DEF Settings, Filled
  <2>2. delays \in Seq(Nat \cup {Blank, Junk})
    BY <1>1, <2>1
  <2>. QED
    BY <1>1, <1>3, <2>2, EmptySeq
<1>5. k \in 1..N /\ (k = n \/ (k = N /\ k < n))
  BY <1>1, <1>4 DEF Smaller
<1>6. p \in S /\ p \in 1..Len(parts) /\ parts[p] # Blank /\ parts[p] \in Nat
  <2>1. p \in S
    BY <1>1, <1>5
  <2>. QED
    BY <1>2, <1>3, <2>1 DEF Settings, Filled
<1>7. RetryDelay(n, delays) = parts[p]
  <2>1. 1 + Larger(0, Smaller(n - 1, N - 1)) = k
    BY <1>1, <1>4 DEF Larger, Smaller
  <2>2. RetryDelay(n, delays) = delays[k]
    BY <1>1, <1>3, <2>1 DEF RetryDelay
  <2>. QED
    BY <1>1, <1>5, <2>2
<1>8. before = k
  BY <1>1, <1>5
<1>9. k = N => after = 0
  <2>. SUFFICES ASSUME k = N, NEW q \in p + 1..Len(parts), parts[q] # Blank
                PROVE  FALSE
    BY FS_EmptySet
  <2>1. q \in S /\ q > p
    BY <1>2, <1>6 DEF Filled
  <2>2. PICK m \in 1..N : kept[m] = q
    BY <1>1, <2>1
  <2>3. m = k \/ m < k
    BY <1>1, <1>5, <2>2
  <2>4. kept[m] = p \/ kept[m] < p
    BY <1>1, <1>5, <2>3
  <2>. QED
    BY <1>6, <2>1, <2>2, <2>4
<1>. HIDE DEF p, k
<1>10. before = n \/ (before < n /\ after = 0)
  BY <1>5, <1>8, <1>9
<1>. QED
  BY <1>2, <1>6, <1>7, <1>10 DEF delays

-----------------------------------------------------------------------------
(* A step of the whole is an attempt's or leaves the attempts alone.       *)
LEMMA AttemptSteps ==
  ASSUME [Next]_vars
  PROVE  (\E j \in Jobs : AttemptStep(j)) \/ UNCHANGED svars
BY DEF Next, vars

(* An attempt's step leaves the templates, the setting and the variables   *)
(* of every other attempt alone.                                           *)
Apart(j) ==
  \A q \in Jobs \ {j} :
    /\ step'[q] = step[q]
    /\ attempts'[q] = attempts[q]
    /\ wait'[q] = wait[q]
    /\ contact'[q] = contact[q]
    /\ message'[q] = message[q]
    /\ began'[q] = began[q]
    /\ authFailures'[q] = authFailures[q]

(* A step of one job's attempt touches no other job, no template and not   *)
(* the setting; it delivers only from the send.                            *)
LEMMA AttemptApart ==
  ASSUME AttemptTypes, NEW j \in Jobs, AttemptStep(j)
  PROVE  /\ UNCHANGED tvars /\ raw' = raw
         /\ Apart(j)
         /\ delivered' # delivered => step[j] = "send" /\ Deliver(j)
<1>1. UNCHANGED tvars /\ raw' = raw
  BY DEF AttemptStep, BeginAttempt, GetContacts, GetContactsFails,
         GetContactsRaises, GetTemplate, GetTemplateRaises, Send, SendRaises,
         settings
<1>2. Apart(j)
  BY DEF AttemptStep, BeginAttempt, GetContacts, GetContactsFails,
         GetContactsRaises, GetTemplate, GetTemplateRaises, Send, SendRaises,
         Raised, Goto, AttemptTypes, Apart
<1>3. delivered' # delivered => step[j] = "send" /\ Deliver(j)
  BY DEF AttemptStep, BeginAttempt, GetContacts, GetContactsFails,
         GetContactsRaises, GetTemplate, GetTemplateRaises, Send, SendRaises
<1>. QED
  BY <1>1, <1>2, <1>3

(* What one step does to the attempt's own position, count and delay.      *)
Moves(j) ==
  \/ /\ step[j] \in {"idle", "sleep"} /\ step'[j] = "contacts"
     /\ ~DelaysInvalid(raw)
     /\ attempts'[j] = attempts[j] + 1 /\ wait'[j] = 0
  \/ /\ step[j] \in Trying /\ step'[j] \in {"template", "send", "sent"}
     /\ attempts'[j] = attempts[j] /\ wait'[j] = wait[j]
  \/ /\ step[j] \in Trying /\ step'[j] = "sleep"
     /\ attempts[j] < MaxAttempts
     /\ attempts'[j] = attempts[j]
     /\ wait'[j] = RetryDelay(attempts[j], Numbers(raw))
  \/ /\ step[j] \in Trying /\ step'[j] = "failed"
     /\ attempts'[j] = attempts[j] /\ wait'[j] = wait[j]

(* Every step of an attempt is one of these four moves.                    *)
LEMMA AttemptMoves ==
  ASSUME AttemptTypes, NEW j \in Jobs, AttemptStep(j)
  PROVE  Moves(j)
<1>1. /\ DOMAIN step = Jobs /\ DOMAIN attempts = Jobs /\ DOMAIN wait = Jobs
  BY DEF AttemptTypes
<1>2. CASE BeginAttempt(j)
  BY <1>1, <1>2 DEF BeginAttempt, Goto, Moves
<1>3. CASE GetContacts(j) \/ GetContactsFails(j)
  BY <1>1, <1>3 DEF GetContacts, GetContactsFails, Goto, Moves, Trying
<1>4. CASE GetTemplate(j) \/ Send(j)
  BY <1>1, <1>4 DEF GetTemplate, Send, Goto, Moves, Trying
<1>5. CASE GetContactsRaises(j) \/ GetTemplateRaises(j) \/ SendRaises(j)
  <2>1. step[j] \in Trying /\ Raised(j) /\ attempts' = attempts
    BY <1>5 DEF GetContactsRaises, GetTemplateRaises, SendRaises, Trying
  <2>. QED
    BY <1>1, <2>1 DEF Raised, Goto, Moves
<1>. QED
  BY <1>2, <1>3, <1>4, <1>5 DEF AttemptStep

(* What the retry loop relies on is kept; the attempt that moves stays     *)
(* within its types.                                                       *)
LEMMA AttemptFlowStep ==
  ASSUME AttemptTypes, AttemptFlow, NEW j \in Jobs, AttemptStep(j)
  PROVE  /\ AttemptFlow'
         /\ attempts'[j] \in 0..MaxAttempts /\ wait'[j] \in Nat
         /\ step'[j] \in Steps
<1>1. raw' = raw /\ Apart(j) /\ Moves(j)
  BY AttemptApart, AttemptMoves
<1>2. \A q \in Jobs : /\ step[q] \in Steps
                      /\ attempts[q] \in 0..MaxAttempts /\ wait[q] \in Nat
  BY DEF AttemptTypes
<1>3. MaxAttempts \in Nat \ {0}
  BY AttemptAssumption
<1>4. DelaysInvalid(raw)' = DelaysInvalid(raw) /\ Numbers(raw)' = Numbers(raw)
  BY <1>1 DEF DelaysInvalid, Numbers
<1>5. (~DelaysInvalid(raw) /\ raw \in Settings) \/ step'[j] = "idle"
  BY <1>1, <1>2, AttemptAssumption
     DEF AttemptFlow, AttemptTypes, Moves, Trying, Settings
<1> DEFINE After ==
             /\ step'[j] \in Steps \ {"idle"}
             /\ ~DelaysInvalid(raw)
             /\ attempts'[j] \in 0..MaxAttempts /\ wait'[j] \in Nat
             /\ step'[j] \in Trying => attempts'[j] \in 1..MaxAttempts
             /\ step'[j] = "sleep" =>
                  /\ attempts'[j] \in 1..MaxAttempts - 1
                  /\ wait'[j] = RetryDelay(attempts'[j], Numbers(raw))
<1>6. ASSUME step'[j] = "sleep"
      PROVE  After
  <2>1. /\ attempts'[j] = attempts[j]
        /\ attempts[j] \in 1..MaxAttempts - 1
        /\ wait'[j] = RetryDelay(attempts[j], Numbers(raw))
    BY <1>1, <1>2, <1>3, <1>6 DEF AttemptFlow, Moves, Trying
  <2>2. wait'[j] \in Nat
    BY <1>3, <1>5, <1>6, <2>1, DelayChosen
  <2>3. wait'[j] = RetryDelay(attempts'[j], Numbers(raw))
    BY <2>1
  <2>. QED
    BY <1>3, <1>5, <1>6, <2>1, <2>2, <2>3 DEF Trying, Steps
<1>7. ASSUME step'[j] # "sleep"
      PROVE  After
  <2>1. step[j] \in {"idle", "sleep"} => attempts[j] \in 0..MaxAttempts - 1
    BY <1>3 DEF AttemptFlow
  <2>2. /\ step'[j] \in Trying => attempts'[j] \in 1..MaxAttempts
        /\ attempts'[j] \in 0..MaxAttempts /\ wait'[j] \in Nat
    BY <1>1, <1>2, <1>3, <1>7, <2>1 DEF AttemptFlow, Moves, Trying
  <2>3. step'[j] \in Steps \ {"idle"}
    BY <1>1, <1>7 DEF Moves, Steps
  <2>. QED
    BY <1>3, <1>5, <1>7, <2>2, <2>3
<1>8. After
  BY <1>6, <1>7
<1>. HIDE DEF After
<1>9. ASSUME NEW q \in Jobs
      PROVE  /\ step'[q] # "idle" => ~DelaysInvalid(raw)
             /\ step'[q] = "idle" => attempts'[q] = 0
             /\ step'[q] \in Trying => attempts'[q] \in 1..MaxAttempts
             /\ step'[q] = "sleep" =>
                  /\ attempts'[q] \in 1..MaxAttempts - 1
                  /\ wait'[q] = RetryDelay(attempts'[q], Numbers(raw))
  <2>1. CASE q = j
    BY <1>8, <2>1 DEF After
  <2>2. CASE q # j
    BY <1>1, <2>2 DEF Apart, AttemptFlow
  <2>. QED
    BY <2>1, <2>2
<1>10. AttemptFlow'
  BY <1>4, <1>9 DEF AttemptFlow, RetryDelay
<1>. QED
  BY <1>8, <1>10 DEF After

-----------------------------------------------------------------------------
(* The lookup of a key: what is found is stored under the key and is found *)
(* from then on, whatever the requests do.                                 *)
LEMMA FoundStored ==
  ASSUME NEW k, FindByKey(k) # NoId
  PROVE  FindByKey(k) \in Stored /\ templates[FindByKey(k)].key = k
BY DEF FindByKey, KeyTaken

(* What a lookup has found, the same lookup finds after the next step.     *)
LEMMA FoundStays ==
  ASSUME TableInv, TableInv', TableGrows, NEW k, FindByKey(k) # NoId
  PROVE  FindByKey(k)' = FindByKey(k) /\ FindByKey(k) \in Stored'
<1> DEFINE i == FindByKey(k)
<1>1. i \in Stored /\ templates[i].key = k
  BY FoundStored
<1>. HIDE DEF i
<1>2. i \in Ids /\ templates[i] # NoTemplate
  BY <1>1 DEF Stored, Exists
<1>3. templates'[i] # NoTemplate /\ templates'[i].key = k
  BY <1>1, <1>2 DEF TableGrows
<1>4. i \in Stored' /\ KeyTaken(k)'
  BY <1>2, <1>3 DEF Stored, Exists, KeyTaken
<1>5. \A l, m \in Stored' : templates'[l].key = templates'[m].key => l = m
  BY DEF TableInv, KeysUnique
<1>6. FindByKey(k)' \in Stored' /\ templates'[FindByKey(k)'].key = k
  BY <1>4 DEF FindByKey, KeyTaken
<1>7. FindByKey(k)' = i
  BY <1>3, <1>4, <1>5, <1>6
<1>. QED
  BY <1>4, <1>7 DEF i

(* The versions of a job's template only become more.                      *)
LEMMA VersionsGrow ==
  ASSUME TableInv, TableInv', TableGrows, NEW j \in Jobs
  PROVE  /\ Versions(j) \in Nat /\ Versions(j)' \in Nat
         /\ Versions(j) <= Versions(j)'
<1>1. FindByKey(Key[j]) # NoId => FindByKey(Key[j]) \in Ids
  BY FoundStored DEF Stored
<1>2. FindByKey(Key[j])' # NoId => FindByKey(Key[j])' \in Ids
  BY DEF FindByKey, KeyTaken, Stored
<1>3. \A i \in Ids : Len(hist[i]) \in Nat /\ Len(hist'[i]) \in Nat
                     /\ Len(hist[i]) <= Len(hist'[i])
  BY DEF TableGrows
<1>4. Versions(j) \in Nat
  BY <1>1, <1>3 DEF Versions
<1>5. Versions(j)' \in Nat
  BY <1>2, <1>3 DEF Versions
<1>6. CASE FindByKey(Key[j]) = NoId
  BY <1>4, <1>5, <1>6 DEF Versions
<1>7. CASE FindByKey(Key[j]) # NoId
  BY <1>1, <1>3, <1>7, FoundStays DEF Versions
<1>. QED
  BY <1>4, <1>5, <1>6, <1>7

(* A step of an attempt keeps the types.                                   *)
LEMMA AttemptTypesStep ==
  ASSUME TableInv, TableInv', TableGrows, AttemptTypes, AttemptFlow,
         NEW j \in Jobs, AttemptStep(j)
  PROVE  AttemptTypes'
<1>1. /\ step' = [step EXCEPT ![j] = step'[j]]
      /\ attempts' = [attempts EXCEPT ![j] = attempts'[j]]
      /\ wait' = [wait EXCEPT ![j] = wait'[j]]
      /\ began' = [began EXCEPT ![j] = began'[j]]
      /\ authFailures' = [authFailures EXCEPT ![j] = authFailures'[j]]
      /\ DOMAIN contact' = DOMAIN contact
      /\ DOMAIN message' = DOMAIN message
  BY DEF AttemptStep, BeginAttempt, GetContacts, GetContactsFails,
         GetContactsRaises, GetTemplate, GetTemplateRaises, Send, SendRaises,
         Raised, Goto, AttemptTypes
<1>2. /\ step'[j] \in Steps /\ attempts'[j] \in 0..MaxAttempts
      /\ wait'[j] \in Nat
  BY AttemptFlowStep
<1>3. began'[j] \in Nat
  <2>1. began'[j] = Versions(j) \/ began'[j] = began[j]
    BY DEF AttemptStep, BeginAttempt, GetContacts, GetContactsFails,
           GetContactsRaises, GetTemplate, GetTemplateRaises, Send, SendRaises,
           AttemptTypes
  <2>. QED
    BY <2>1, VersionsGrow DEF AttemptTypes
<1>4. authFailures'[j] \in 0..MaxAuthFailures
  <2>1. \/ authFailures'[j] = authFailures[j]
        \/ /\ authFailures[j] < MaxAuthFailures
           /\ authFailures'[j] = authFailures[j] + 1
    BY DEF AttemptStep, BeginAttempt, GetContacts, GetContactsFails,
           GetContactsRaises, GetTemplate, GetTemplateRaises, Send, SendRaises,
           AttemptTypes
  <2>. QED
    BY <2>1, AttemptAssumption DEF AttemptTypes
<1>. QED
  BY <1>1, <1>2, <1>3, <1>4, AttemptApart DEF AttemptTypes

-----------------------------------------------------------------------------
(* What one step does to the attempt's contact and to its held address.    *)
LEMMA HeldMoves ==
  ASSUME AttemptTypes, NEW j \in Jobs, AttemptStep(j)
  PROVE  /\ \/ authFailures'[j] = authFailures[j]
            \/ authFailures'[j] = authFailures[j] + 1 /\ MadeUpHeld(j) = 0
         /\ \/ MadeUpHeld(j)' = 0
            \/ MadeUpHeld(j)' = 1
               /\ \/ authFailures'[j] = authFailures[j] + 1
                  \/ MadeUpHeld(j) = 1 \/ ~AuthBaseUrl
         /\ step'[j] = "template" => contact'[j] \in {Contact[j], MadeUp}
         /\ step'[j] = "send" =>
              /\ step[j] = "template"
              /\ contact'[j] = contact[j] /\ contact[j] # NoText
<1>1. /\ DOMAIN step = Jobs /\ DOMAIN contact = Jobs
      /\ DOMAIN authFailures = Jobs
      /\ step[j] \in Steps /\ authFailures[j] \in Nat
  BY DEF AttemptTypes
<1>2. CASE BeginAttempt(j)
  BY <1>1, <1>2 DEF BeginAttempt, Goto, MadeUpHeld
<1>3. CASE GetContacts(j)
  <2>1. /\ authFailures' = authFailures /\ step'[j] = "template"
        /\ contact'[j] = IF AuthBaseUrl THEN Contact[j] ELSE MadeUp
    BY <1>1, <1>3 DEF GetContacts, Goto
  <2>2. Contact[j] # MadeUp
    BY AttemptAssumption
  <2>. QED
    BY <2>1, <2>2 DEF MadeUpHeld
<1>4. CASE GetContactsFails(j)
  <2>1. /\ step[j] = "contacts" /\ step'[j] = "template"
        /\ contact'[j] = MadeUp /\ authFailures'[j] = authFailures[j] + 1
    BY <1>1, <1>4 DEF GetContactsFails, Goto
  <2>. QED
    BY <2>1 DEF MadeUpHeld
<1>5. CASE GetTemplate(j)
  <2>1. /\ step[j] = "template" /\ step'[j] = "send"
        /\ contact' = contact /\ contact[j] # NoText
        /\ authFailures' = authFailures
    BY <1>1, <1>5 DEF GetTemplate, Goto
  <2>. QED
    BY <2>1 DEF MadeUpHeld
<1>6. CASE \/ GetContactsRaises(j) \/ GetTemplateRaises(j)
           \/ Send(j) \/ SendRaises(j)
  <2>1. /\ authFailures' = authFailures
        /\ step'[j] \in {"sleep", "failed", "sent"}
    BY <1>1, <1>6
       DEF GetContactsRaises, GetTemplateRaises, Send, SendRaises, Raised, Goto
  <2>. QED
    BY <2>1 DEF MadeUpHeld
<1>. QED
  BY <1>2, <1>3, <1>4, <1>5, <1>6 DEF AttemptStep

(* A made-up address is used only by the attempt that holds it, and held   *)
(* only after an auth call failed.                                         *)
LEMMA OutagesCoverStep ==
  ASSUME AttemptTypes, AttemptTypes', OutagesCover,
         NEW j \in Jobs, AttemptStep(j)
  PROVE  OutagesCover'
<1> DEFINE e == [job |-> j, to |-> contact[j], message |-> message[j],
                 began |-> began[j], attempt |-> attempts[j]]
<1>1. Apart(j)
  BY AttemptApart
<1>2. \/ delivered' = delivered
      \/ /\ step[j] = "send" /\ delivered' = delivered \cup {e}
         /\ step'[j] \in {"sent", "sleep", "failed"}
  <2>1. step[j] = "send" => step'[j] \in {"sent", "sleep", "failed"}
    BY AttemptMoves DEF Moves, Trying, AttemptStep, BeginAttempt, GetContacts,
       GetContactsFails, GetContactsRaises, GetTemplate, GetTemplateRaises,
       Send, SendRaises, Raised, Goto, AttemptTypes
  <2>. QED
    BY <2>1, AttemptApart DEF Deliver
<1>3. step[j] = "send" => contact[j] \in {Contact[j], MadeUp} \ {NoText}
  BY DEF OutagesCover
<1>4. e.job = j /\ e.to = contact[j]
  OBVIOUS
<1>. HIDE DEF e
<1>5. IsFiniteSet(delivered')
  BY <1>2, FS_AddElement DEF OutagesCover
<1>6. \A d \in delivered' :
        d.job \in Jobs /\ d.to \in {Contact[d.job], MadeUp} \ {NoText}
  BY <1>2, <1>3, <1>4 DEF OutagesCover
<1>7. ASSUME NEW q \in Jobs
      PROVE  /\ step'[q] \in {"template", "send"} =>
                  contact'[q] \in {Contact[q], MadeUp}
             /\ step'[q] = "send" => contact'[q] # NoText
  <2>1. CASE q = j
    BY <2>1, HeldMoves DEF OutagesCover
  <2>2. CASE q # j
    BY <1>1, <2>2 DEF Apart, OutagesCover
  <2>. QED
    BY <2>1, <2>2
<1>8. \A q \in Jobs :
        /\ IsFiniteSet(MadeUpSent(q)) /\ Cardinality(MadeUpSent(q)) \in Nat
        /\ authFailures[q] \in Nat /\ MadeUpHeld(q) \in {0, 1}
  <2>1. \A q \in Jobs : IsFiniteSet(MadeUpSent(q))
    BY FS_Subset DEF MadeUpSent, OutagesCover
  <2>. QED
    BY <2>1, FS_CardinalityType DEF AttemptTypes, MadeUpHeld
<1>9. ASSUME NEW q \in Jobs, AuthBaseUrl
      PROVE  Cardinality(MadeUpSent(q)') + MadeUpHeld(q)' <= authFailures'[q]
  <2>1. Cardinality(MadeUpSent(q)) + MadeUpHeld(q) <= authFailures[q]
    BY <1>9 DEF OutagesCover
  <2>2. CASE q # j
    <3>1. MadeUpSent(q)' = MadeUpSent(q)
      BY <1>2, <1>4, <2>2 DEF MadeUpSent
    <3>2. MadeUpHeld(q)' = MadeUpHeld(q) /\ authFailures'[q] = authFailures[q]
      BY <1>1, <2>2 DEF Apart, MadeUpHeld
    <3>. QED
      BY <2>1, <3>1, <3>2
  <2>3. CASE q = j /\ delivered' = delivered
    <3>1. MadeUpSent(q)' = MadeUpSent(q)
      BY <2>3 DEF MadeUpSent
    <3>. QED
      BY <1>8, <1>9, <2>1, <2>3, <3>1, HeldMoves
  <2>4. CASE /\ q = j /\ step[j] = "send" /\ delivered' = delivered \cup {e}
             /\ step'[j] \in {"sent", "sleep", "failed"}
    <3>1. MadeUpHeld(q)' = 0
      BY <2>4 DEF MadeUpHeld
    <3>2. authFailures'[q] = authFailures[q] \/ authFailures'[q] = authFailures[q] + 1
      BY <2>4, HeldMoves
    <3>3. CASE contact[j] = MadeUp
      <4>1. MadeUpHeld(q) = 1
        BY <2>4, <3>3 DEF MadeUpHeld
      <4>2. MadeUpSent(q)' = MadeUpSent(q) \cup {e}
        BY <1>4, <2>4, <3>3 DEF MadeUpSent
      <4>3. Cardinality(MadeUpSent(q)') <= Cardinality(MadeUpSent(q)) + 1
        <5>1. Cardinality(MadeUpSent(q) \cup {e}) =
                IF e \in MadeUpSent(q) THEN Cardinality(MadeUpSent(q))
                                       ELSE Cardinality(MadeUpSent(q)) + 1
          BY <1>8, FS_AddElement
        <5>. QED
          BY <1>8, <4>2, <5>1
      <4>4. Cardinality(MadeUpSent(q)') \in Nat
        BY <1>8, <4>2, FS_AddElement, FS_CardinalityType
      <4>. QED
        BY <1>8, <2>1, <3>1, <3>2, <4>1, <4>3, <4>4
    <3>4. CASE contact[j] # MadeUp
      <4>1. MadeUpSent(q)' = MadeUpSent(q)
        BY <1>4, <2>4, <3>4 DEF MadeUpSent
      <4>. QED
        BY <1>8, <2>1, <3>1, <3>2, <4>1
    <3>. QED
      BY <3>3, <3>4
  <2>. QED
    BY <1>2, <2>2, <2>3, <2>4
<1>. QED
  BY <1>5, <1>6, <1>7, <1>9 DEF OutagesCover

-----------------------------------------------------------------------------
(* A text that shows a version keeps showing it: versions stay.            *)
LEMMA ShowsStays ==
  ASSUME TableInv, TableInv', TableGrows, NEW k, NEW b \in Nat, NEW m,
         Shows(k, b, m)
  PROVE  Shows(k, b, m)'
<1> DEFINE i == FindByKey(k)
<1>1. i # NoId /\ FindByKey(k)' = i /\ i \in Stored'
  BY FoundStays DEF Shows
<1>2. i \in Ids
  BY FoundStored, <1>1 DEF Stored
<1>3. PICK v \in Larger(1, b)..Len(hist[i]) :
        \A f \in Fields : hist[i][v][f] = m[f]
  BY DEF Shows
<1>. HIDE DEF i
<1>4. /\ Len(hist[i]) \in Nat /\ Len(hist'[i]) \in Nat
      /\ Len(hist[i]) <= Len(hist'[i])
      /\ \A w \in 1..Len(hist[i]) : hist'[i][w] = hist[i][w]
  BY <1>2 DEF TableGrows
<1>5. Larger(1, b) \in Nat \ {0}
  BY DEF Larger
<1>6. v \in 1..Len(hist[i]) /\ v \in Larger(1, b)..Len(hist'[i])
  BY <1>3, <1>4, <1>5
<1>7. \A f \in Fields : hist'[i][v][f] = m[f]
  BY <1>3, <1>4, <1>6
<1>. QED
  BY <1>1, <1>6, <1>7 DEF Shows

(* What an attempt that is left alone holds stays current.                 *)
LEMMA AloneCurrent ==
  ASSUME TableInv, TableInv', TableGrows, AttemptTypes, MessagesCurrent,
         NEW q \in Jobs, step'[q] = step[q], began'[q] = began[q],
         message'[q] = message[q]
  PROVE  /\ step'[q] \in Trying => began'[q] <= Versions(q)'
         /\ step'[q] = "send" => Shows(Key[q], began[q], message[q])'
<1>1. step[q] \in Trying => began[q] <= Versions(q)
  BY DEF MessagesCurrent
<1>2. began[q] \in Nat
  BY DEF AttemptTypes
<1>3. step'[q] \in Trying => began'[q] <= Versions(q)'
  BY <1>1, <1>2, VersionsGrow
<1>4. ASSUME step'[q] = "send"
      PROVE  Shows(Key[q], began[q], message[q])'
  <2>1. PICK b \in Nat : b = began[q]
    BY <1>2
  <2>2. PICK m : m = message[q]
    OBVIOUS
  <2>3. Shows(Key[q], b, m)
    BY <1>4, <2>1, <2>2 DEF MessagesCurrent
  <2>4. Shows(Key[q], b, m)'
    BY <2>3, ShowsStays
  <2>5. began'[q] = b /\ message'[q] = m
    BY <2>1, <2>2
  <2>. QED
    BY <2>4, <2>5 DEF Shows
<1>. QED
  BY <1>3, <1>4

(* What was sent keeps showing the version it showed.                      *)
LEMMA SentCurrent ==
  ASSUME TableInv, TableInv', TableGrows, MessagesCurrent,
         NEW d \in delivered
  PROVE  d.job \in Jobs /\ d.began \in Nat /\ Shows(Key[d.job], d.began, d.message)'
BY ShowsStays DEF MessagesCurrent

(* The row that is found renders to the texts of its last version.         *)
LEMMA RenderedCurrent ==
  ASSUME TableInv, TableInv', TableGrows, AttemptTypes, MessagesCurrent,
         NEW j \in Jobs, GetTemplate(j)
  PROVE  Shows(Key[j], began[j], message[j])' /\ began'[j] <= Versions(j)'
<1> DEFINE i == FindByKey(Key[j])
<1>1. /\ i # NoId /\ step[j] = "template" /\ began' = began
      /\ message'[j] = [subject |-> templates[i].subject,
                        body |-> templates[i].body]
      /\ UNCHANGED tvars
  BY DEF GetTemplate, Unrenderable, AttemptTypes
<1>2. i \in Stored
  BY <1>1, FoundStored
<1>3. began[j] <= Versions(j) /\ Versions(j) = Len(hist[i])
  BY <1>1 DEF MessagesCurrent, Trying, Versions
<1>4. FindByKey(Key[j])' = i /\ i \in Stored'
  BY <1>1, FoundStays
<1>. HIDE DEF i
<1>5. Len(hist[i]) \in Nat \ {0} /\ hist[i][Len(hist[i])] = templates[i]
  BY <1>2 DEF TableInv, HistMatches, Stored, Exists
<1>6. hist' = hist
  BY <1>1 DEF tvars, table
<1>7. \A f \in Fields : hist[i][Len(hist[i])][f] = message'[j][f]
  BY <1>1, <1>5 DEF Fields
<1>8. began[j] \in Nat
  BY DEF AttemptTypes
<1>9. Len(hist[i]) \in Larger(1, began[j])..Len(hist[i])
  BY <1>3, <1>5, <1>8 DEF Larger
<1>10. began'[j] = began[j]
  BY <1>1
<1>11. Shows(Key[j], began[j], message[j])'
  BY <1>1, <1>4, <1>6, <1>7, <1>9, <1>10 DEF Shows
<1>12. Versions(j)' = Len(hist[i])
  BY <1>1, <1>4, <1>6 DEF Versions
<1>. QED
  BY <1>3, <1>10, <1>11, <1>12

(* An attempt renders what is current, and versions only gather.           *)
LEMMA MessagesCurrentStep ==
  ASSUME TableInv, TableInv', TableGrows, AttemptTypes, MessagesCurrent,
         NEW j \in Jobs, AttemptStep(j)
  PROVE  MessagesCurrent'
<1>1. Apart(j) /\ UNCHANGED tvars
  BY AttemptApart
<1>2. DOMAIN step = Jobs /\ DOMAIN began = Jobs /\ began[j] \in Nat
  BY DEF AttemptTypes
<1>3. /\ step'[j] \in Trying => began'[j] <= Versions(j)'
      /\ step'[j] = "send" => Shows(Key[j], began[j], message[j])'
  <2>1. CASE BeginAttempt(j)
    <3>1. began'[j] = Versions(j) /\ step'[j] = "contacts"
      BY <1>2, <2>1 DEF BeginAttempt, Goto
    <3>. QED
      BY <3>1, VersionsGrow
  <2>2. CASE GetContacts(j) \/ GetContactsFails(j)
    <3>1. /\ began' = began /\ step[j] = "contacts" /\ step'[j] = "template"
      BY <1>2, <2>2 DEF GetContacts, GetContactsFails, Goto
    <3>2. began[j] <= Versions(j)
      BY <3>1 DEF MessagesCurrent, Trying
    <3>. QED
      BY <1>2, <3>1, <3>2, VersionsGrow
  <2>3. CASE GetTemplate(j)
    BY <2>3, RenderedCurrent
  <2>4. CASE \/ GetContactsRaises(j) \/ GetTemplateRaises(j)
             \/ Send(j) \/ SendRaises(j)
    <3>1. step'[j] \in {"sleep", "failed", "sent"}
      BY <1>2, <2>4
         DEF GetContactsRaises, GetTemplateRaises, Send, SendRaises, Raised,
             Goto
    <3>. QED
      BY <3>1 DEF Trying
  <2>. QED
    BY <2>1, <2>2, <2>3, <2>4 DEF AttemptStep
<1>4. ASSUME NEW q \in Jobs
      PROVE  /\ step'[q] \in Trying => began'[q] <= Versions(q)'
             /\ step'[q] = "send" => Shows(Key[q], began[q], message[q])'
  <2>1. CASE q = j
    BY <1>3, <2>1
  <2>2. CASE q # j
    BY <1>1, <2>2, AloneCurrent DEF Apart
  <2>. QED
    BY <2>1, <2>2
<1>5. ASSUME NEW d \in delivered'
      PROVE  /\ d.job \in Jobs /\ d.began \in Nat
             /\ Shows(Key[d.job], d.began, d.message)'
  <2>1. CASE d \in delivered
    BY <2>1, SentCurrent
  <2>2. CASE d \notin delivered
    <3>1. /\ step[j] = "send"
          /\ d = [job |-> j, to |-> contact[j], message |-> message[j],
                  began |-> began[j], attempt |-> attempts[j]]
      BY <2>2, AttemptApart DEF Deliver
    <3>2. d.job = j /\ d.began = began[j] /\ d.message = message[j]
      BY <3>1
    <3>3. Shows(Key[d.job], d.began, d.message)
      BY <3>1, <3>2 DEF MessagesCurrent
    <3>. QED
      BY <1>2, <3>2, <3>3, ShowsStays
  <2>. QED
    BY <2>1, <2>2
<1>. QED
  BY <1>4, <1>5 DEF MessagesCurrent

-----------------------------------------------------------------------------
(* The invariant: at the start, kept by every step, hence always.          *)
LEMMA AttemptInvInit == Init => AttemptInv
<1>. SUFFICES ASSUME Init
              PROVE  AttemptInv
  OBVIOUS
<1>1. /\ raw \in RawDelays /\ delivered = {}
      /\ step = [j \in Jobs |-> "idle"] /\ attempts = [j \in Jobs |-> 0]
      /\ wait = [j \in Jobs |-> 0] /\ contact = [j \in Jobs |-> NoText]
      /\ message = [j \in Jobs |-> NoMessage] /\ began = [j \in Jobs |-> 0]
      /\ authFailures = [j \in Jobs |-> 0]
  BY DEF Init
<1>2. AttemptTypes
  BY <1>1, AttemptAssumption DEF AttemptTypes, Steps
<1>3. AttemptFlow
  BY <1>1 DEF AttemptFlow, Trying
<1>4. OutagesCover
  <2>1. \A j \in Jobs : MadeUpSent(j) = {} /\ MadeUpHeld(j) = 0
    BY <1>1 DEF MadeUpSent, MadeUpHeld
  <2>2. \A j \in Jobs : Cardinality(MadeUpSent(j)) + MadeUpHeld(j) <= authFailures[j]
    BY <1>1, <2>1, FS_EmptySet
  <2>. QED
    BY <1>1, <2>2, FS_EmptySet DEF OutagesCover
<1>5. MessagesCurrent
  BY <1>1 DEF MessagesCurrent, Trying
<1>. QED
  BY <1>2, <1>3, <1>4, <1>5 DEF AttemptInv

(* Every step keeps the invariant, be it a request's or an attempt's.      *)
LEMMA AttemptInvStep ==
  TableInv /\ TableInv' /\ AttemptInv /\ [Next]_vars => AttemptInv'
<1>. SUFFICES ASSUME TableInv, TableInv', AttemptInv, [Next]_vars
              PROVE  AttemptInv'
  OBVIOUS
<1>1. TableGrows
  BY Growth
<1>2. ASSUME NEW j \in Jobs, AttemptStep(j)
      PROVE  AttemptInv'
  <2>1. AttemptTypes'
    BY <1>1, <1>2, AttemptTypesStep DEF AttemptInv
  <2>. QED
    BY <1>1, <1>2, <2>1, AttemptFlowStep, OutagesCoverStep,
       MessagesCurrentStep DEF AttemptInv
<1>3. CASE UNCHANGED svars
  <2>1. /\ raw' = raw /\ step' = step /\ attempts' = attempts
        /\ wait' = wait /\ contact' = contact /\ message' = message
        /\ began' = began /\ authFailures' = authFailures
        /\ delivered' = delivered
    BY <1>3 DEF svars, settings, sending
  <2>2. AttemptTypes'
    BY <2>1 DEF AttemptInv, AttemptTypes
  <2>3. AttemptFlow'
    BY <2>1
       DEF AttemptInv, AttemptFlow, RetryDelay, DelaysInvalid, Numbers
  <2>4. OutagesCover'
    BY <2>1 DEF AttemptInv, OutagesCover, MadeUpSent, MadeUpHeld
  <2>5. MessagesCurrent'
    BY <1>1, <2>1, AloneCurrent, SentCurrent DEF AttemptInv, MessagesCurrent
  <2>. QED
    BY <2>2, <2>3, <2>4, <2>5 DEF AttemptInv
<1>. QED
  BY <1>2, <1>3, AttemptSteps

(* Hence it always holds.                                                  *)
LEMMA AttemptInvHolds == Spec => [](TableInv /\ AttemptInv)
<1> DEFINE Inv == TableInv /\ AttemptInv
<1>1. Init => Inv
  BY TableInvInit, AttemptInvInit
<1>2. Inv /\ [Next]_vars => Inv'
  BY TableInvStep, AttemptInvStep
<1>. HIDE DEF Inv
<1>3. Spec => []Inv
  BY <1>1, <1>2, PTL DEF Spec
<1>. QED
  BY <1>3 DEF Inv

-----------------------------------------------------------------------------
(* Type correctness of the template routes and the attempts: no attempt    *)
(* count exceeds MaxAttempts, and every delay is a number of the setting,  *)
(* never a part float() refuses.                                           *)
THEOREM AttemptsTyped == Spec => []TypeOK
<1>1. TableInv /\ AttemptInv => TypeOK
  <2>. SUFFICES ASSUME TableInv, AttemptInv
                PROVE  TypeOK
    OBVIOUS
  <2>1. ASSUME NEW i \in Ids, NEW f \in Fields
        PROVE  templates[i][f] \in Text
    <3>1. templates[i] \in Rows \/ templates[i] = NoTemplate
      BY DEF TableInv, TableTypes
    <3>2. \A row \in Rows : row["subject"] \in Text /\ row["body"] \in Text
      BY DEF Rows
    <3>3. NoTemplate["subject"] = NoText /\ NoTemplate["body"] = NoText
      BY DEF NoTemplate
    <3>4. NoText \in Text
      BY DEF Text
    <3>. QED
      BY <3>1, <3>2, <3>3, <3>4 DEF Fields
  <2>2. DOMAIN templates = Ids /\ DOMAIN hist = Ids
    BY DEF TableInv, TableTypes
  <2>. QED
    BY <2>1, <2>2
       DEF TypeOK, TableInv, TableTypes, AttemptInv, AttemptTypes, Steps
<1>. QED
  BY <1>1, AttemptInvHolds, PTL

(* Every retry waits for the number the setting gives for it, whatever     *)
(* blanks stand between the commas, and for the last one once they are     *)
(* used up; no job sleeps under a setting the settings object refuses.     *)
THEOREM DelaysFollowSetting == Spec => []DelayAsConfigured
<1>1. AttemptInv => DelayAsConfigured
  <2>. SUFFICES ASSUME AttemptInv, NEW j \in Jobs, step[j] = "sleep"
                PROVE  \E p \in DOMAIN raw :
                         LET before == Cardinality({q \in 1..p : raw[q] # Blank})
                             after  == Cardinality({q \in p + 1..Len(raw) :
                                                     raw[q] # Blank})
                         IN /\ raw[p] # Blank
                            /\ \/ before = attempts[j]
                               \/ before < attempts[j] /\ after = 0
                            /\ wait[j] = raw[p]
    BY DEF DelayAsConfigured
  <2>1. /\ raw \in Settings /\ ~DelaysInvalid(raw)
        /\ attempts[j] \in Nat \ {0}
        /\ wait[j] = RetryDelay(attempts[j], Numbers(raw))
    BY AttemptAssumption
       DEF AttemptInv, AttemptTypes, AttemptFlow, Settings
  <2>. QED
    BY <2>1, DelayChosen
<1>. QED
  BY <1>1, AttemptInvHolds, PTL

(* A job's made-up addresses never outnumber the auth calls that failed    *)
(* for it, and every other delivery went to the user's real contact.       *)
THEOREM OutagesBoundMadeUp == Spec => []MadeUpOnlyInOutage
<1>1. AttemptInv => MadeUpOnlyInOutage
  <2>. SUFFICES ASSUME AttemptInv, NEW j \in Jobs
                PROVE  /\ \A d \in {e \in delivered : e.job = j} :
                            d.to \in {Contact[j], MadeUp} \ {NoText}
                       /\ AuthBaseUrl =>
                            Cardinality(MadeUpSent(j)) <= authFailures[j]
    BY DEF MadeUpOnlyInOutage, MadeUpSent
  <2>1. IsFiniteSet(MadeUpSent(j))
    BY FS_Subset DEF MadeUpSent, AttemptInv, OutagesCover
  <2>2. /\ Cardinality(MadeUpSent(j)) \in Nat /\ MadeUpHeld(j) \in {0, 1}
        /\ authFailures[j] \in Nat
    BY <2>1, FS_CardinalityType DEF MadeUpHeld, AttemptInv, AttemptTypes
  <2>. QED
    BY <2>2 DEF AttemptInv, OutagesCover
<1>. QED
  BY <1>1, AttemptInvHolds, PTL

(* What was sent is one version of the template, no older than the one     *)
(* there was when the attempt began: a retry renders anew and a concurrent *)
(* update never shows half.                                                *)
THEOREM CurrentTemplateSent == Spec => []SentCurrentTemplate
<1>1. AttemptInv => SentCurrentTemplate
  BY DEF AttemptInv, MessagesCurrent, Shows, SentCurrentTemplate
<1>. QED
  BY <1>1, AttemptInvHolds, PTL

=============================================================================
