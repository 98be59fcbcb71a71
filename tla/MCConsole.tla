----------------------------- MODULE MCConsole -----------------------------
(* An instance of Console for TLC.                                         *)
EXTENDS Console

MCResultPage == {"result", "result-table"}
=============================================================================
