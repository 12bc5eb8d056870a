---------------------------- MODULE MCConnector ----------------------------
(***************************************************************************)
(* Connector for TLC: three descriptors, so that an attempt, a connection  *)
(* handed over and a leaked one can be told apart, and delays that reach   *)
(* their limit at the second retry.                                        *)
(***************************************************************************)
EXTENDS Connector
=============================================================================
