------------------------------ MODULE Optional ------------------------------
(***************************************************************************)
(* The value of a key that is absent, of an optional that is not set.      *)
(***************************************************************************)
CONSTANT None

first_of(a, b) == IF a # None THEN a ELSE b
=============================================================================
