----------------------------- MODULE MCPipeline -----------------------------
(***************************************************************************)
(* A valid event, one whose payload is poor and one the API answers with   *)
(* "not implemented".                                                      *)
(***************************************************************************)
EXTENDS Pipeline

CONSTANTS valid, poor, campaign

MCKind == [e \in Events |-> CASE e = poor     -> "bad_payload"
                              [] e = campaign -> "not_implemented"
                              [] OTHER        -> "user_registered"]

=============================================================================
