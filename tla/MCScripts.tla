----------------------------- MODULE MCScripts -----------------------------
(* The scripts that every page loads: the service client, the scheduler    *)
(* and the translations.  They share no variable, so that one moves while  *)
(* the others have not begun.                                              *)
EXTENDS ServiceClient, VueScheduler, Translations

\* All keys of at most three parts over two names.
MCKeys == UNION {[1 .. n -> Parts] : n \in 1 .. 3}

ScriptsInit == Init /\ SchedulerInit /\ TextsInit

ScriptsNext ==
  \/ read = <<>> /\ Born(sched) = {} /\ Next /\ UNCHANGED <<sched, textVars>>
  \/ read = <<>> /\ calls = <<>> /\ SchedulerNext /\ UNCHANGED <<vars, textVars>>
  \/ Born(sched) = {} /\ calls = <<>> /\ TextsNext /\ UNCHANGED <<vars, sched>>

ScriptsSpec == ScriptsInit /\ [][ScriptsNext]_<<vars, sched, textVars>>
=============================================================================
