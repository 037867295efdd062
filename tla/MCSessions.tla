----------------------------- MODULE MCSessions -----------------------------
(***************************************************************************)
(* Instances of Sessions: two sessions that share, beside a thread that    *)
(* disconnects everything.                                                 *)
(***************************************************************************)
EXTENDS Sessions
=============================================================================
