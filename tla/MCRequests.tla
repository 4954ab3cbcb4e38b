----------------------------- MODULE MCRequests -----------------------------
(* Requests with a predicate that has an OR outside parentheses: the text  *)
(* of the operator IsLoopback (sql_gen.rs:454), or one of the caller's.    *)
EXTENDS Requests

MCTable == <<2, 3, 1>>
MCSorted == <<1, 2, 3>>
MCFitting == {1, 2, 3}
MCPredicates == {<<{1}, {2}>>, <<{1, 3}>>}
MCRustPredicates == {{1, 3}}
MCCounts == {1}
MCSoftLimits == {60, 100}
=============================================================================
