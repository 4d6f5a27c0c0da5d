----------------------------- MODULE MCCDBEngine -----------------------------
(* Three systems, or the two whose flips come in pairs, or two that read each  *)
(* other's buffers.                                                            *)
EXTENDS CDBEngine

PairSystems == <<"semantic", "integrate">>
TwoSystems  == <<"force", "integrate">>
=============================================================================
