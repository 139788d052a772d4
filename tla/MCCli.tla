------------------------------- MODULE MCCli -------------------------------
(***************************************************************************)
(* Every command of `paybond`, run once from every state of its files.     *)
(***************************************************************************)
EXTENDS Cli, CliRouter
=============================================================================
