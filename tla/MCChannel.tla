----------------------------- MODULE MCChannel -----------------------------
(* Two commands, one command of the peer and three channel listeners.      *)
EXTENDS Channel, TLC

CONSTANTS k1, k2, r1, l1, l2, l3

MCCmds == {k1, k2}
MCRCmds == {r1}
MCListeners == <<l1, l2, l3>>
=============================================================================
