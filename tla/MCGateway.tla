------------------------------ MODULE MCGateway ------------------------------
(* A small instance of IntentFunding for TLC: one task of an application,   *)
(* one key, two bodies it may send with it.                                 *)
EXTENDS IntentFunding

CONSTANTS s1, k1, b1, b2
==============================================================================
