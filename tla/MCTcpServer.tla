---------------------------- MODULE MCTcpServer ----------------------------
(***************************************************************************)
(* TcpServer for TLC.  The pools: the base loop alone, or one io loop.     *)
(***************************************************************************)
EXTENDS TcpServer

OneOrNone == {<<>>, <<"io1">>}

\* The HTTP server's timing wheel alone; or with it a delayed forceClose and
\* another thread that sends, or one that closes.
HttpCallers == {{"idle"}}
AllCallers == {{"idle", "delay", "sender"}, {"idle", "delay", "closer"}}
=============================================================================
