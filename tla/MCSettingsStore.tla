-------------------------- MODULE MCSettingsStore --------------------------
(* Instances of SettingsStore for TLC.                                     *)
EXTENDS SettingsStore

CONSTANTS server, embedded, own, local, open

MCName == {server, embedded, own}
MCGeneric == <<server, embedded>>

(* A new installation, one with saved settings and a stored history, and a *)
(* file that only fixes the options.                                       *)
MCInitFiles ==
  {NoFile,
   [settings |-> <<own, server>>, options |-> local, history |-> "h1"],
   [settings |-> <<>>, options |-> open, history |-> None]}
=============================================================================
