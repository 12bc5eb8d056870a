---------------------------- MODULE MCHttpParser ----------------------------
(* HttpParser for TLC: a connection with a few requests.                     *)
EXTENDS HttpParser
=============================================================================
