------------------------------ MODULE Ordering ------------------------------
(***************************************************************************)
(* The order in which the server goes through what it has: players are in  *)
(* a std::map by their ids, bases in the order of theirs.                  *)
(***************************************************************************)
EXTENDS Integers, FiniteSets

\* The elements of a finite set of ids, the lowest first.
Ascending(S) ==
    CHOOSE s \in [1..Cardinality(S) -> S] :
        \A j, k \in 1..Cardinality(S) : j < k => s[j] < s[k]
=============================================================================
