--------------------------- MODULE MCRequestQueue ---------------------------
(* Two requests on one node and one or two on another, or all on one.      *)
EXTENDS RequestQueue, TLC

CONSTANTS q1, q2, q3, q4, n1, n2

MCReqs == {q1, q2, q3}
MCMoreReqs == {q1, q2, q3, q4}
MCNodes == {n1, n2}
MCNodeOf == (q1 :> n1) @@ (q2 :> n1) @@ (q3 :> n2)
MCOneNodeOf == [r \in MCReqs |-> n1]
MCMoreNodeOf == (q1 :> n1) @@ (q2 :> n1) @@ (q3 :> n2) @@ (q4 :> n2)
=============================================================================
