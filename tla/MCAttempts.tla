----------------------------- MODULE MCAttempts -----------------------------
(***************************************************************************)
(* One stored template with two concurrent updates, one of which gives a   *)
(* subject the row already has; two creates of one key; a client that      *)
(* pages through the list; an email job on the stored template and a push  *)
(* job, of a user without a push token, on the one to be created.          *)
(***************************************************************************)
EXTENDS AttemptProperties

MCRequests == {"c1", "c2", "u1", "u2", "g1", "l1"}

Asking(op, key, id, subject, body) ==
  [op |-> op, key |-> key, id |-> id, subject |-> subject, body |-> body]

MCAsk == [r \in MCRequests |->
  CASE r = "c1" -> Asking("create", "welcome push", NoId, NoText, "first")
    [] r = "c2" -> Asking("create", "welcome push", NoId, "hello", "second")
    [] r = "u1" -> Asking("update", "", "s1", "hi", NoText)
    [] r = "u2" -> Asking("update", "", "s1", "hello", "new body")
    [] r = "g1" -> Asking("read", "", "c1", NoText, NoText)
    [] r = "l1" -> Asking("list", "", NoId, NoText, NoText)]

MCSeeds == [i \in {"s1", "s2"} |->
  [key |-> IF i = "s1" THEN "welcome email" ELSE "other",
   subject |-> "hello", body |-> "body", created |-> IF i = "s1" THEN -1 ELSE 0]]

MCJobs    == {"mail", "push"}
MCKey     == [j \in MCJobs |-> "welcome " \o (IF j = "mail" THEN "email" ELSE j)]
MCChannel == [j \in MCJobs |-> IF j = "mail" THEN "email" ELSE "push"]
MCContact == [j \in MCJobs |-> IF j = "mail" THEN "real" ELSE NoText]

(* The push job's data lacks a variable of one of the two texts.           *)
MCFits == {<<"mail", t>> : t \in {"hello", "hi", "body", "new body"}}
          \cup {<<"push", "first">>, <<"push", "hello">>}

MCMixes == {{"c1", "c2", "g1", "l1"}, {"u1", "u2", "l1"}, {"u1", "u2", "mail"},
            {"c1", "c2", "push"}, {"mail", "push"}}

MCRawDelays == {<<1, 3>>, <<Blank, 2>>, <<4, Blank, 5, 6>>, <<Blank>>, <<1, Junk>>}

=============================================================================
