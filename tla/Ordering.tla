------------------------------ MODULE Ordering ------------------------------
(***************************************************************************)
(* The elements of a finite set in the order of a rank: what ORDER BY      *)
(* returns, and what a filter leaves of a list.  The rank must tell the    *)
(* elements apart, as serial positions and distinct timestamps do.         *)
(***************************************************************************)
EXTENDS Integers, FiniteSets

InOrder(S, rank) ==
  CHOOSE s \in [1..Cardinality(S) -> S] :
    \A m, n \in DOMAIN s : m < n => rank[s[m]] < rank[s[n]]

=============================================================================
