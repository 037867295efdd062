----------------------------- MODULE MCTransfers -----------------------------
(* Every kind of transfer, with up to twice as many pieces as fit the      *)
(* window and one more.                                                    *)
EXTENDS Transfers

MCKinds == {"read", "write", "config", "regs"}
=============================================================================
