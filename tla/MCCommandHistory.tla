------------------------- MODULE MCCommandHistory -------------------------
(* Instances of CommandHistory for TLC.                                    *)
EXTENDS CommandHistory

CONSTANT a

(* Commands the string form could confuse: the separator alone, and either *)
(* special character at the end, where the separator follows.              *)
MCCommand == {<<a>>, <<Semi>>, <<a, Esc>>, <<Esc, Semi>>}

(* The last string is the one of the commands <<a, Esc>> and <<Semi>>.     *)
MCInitStored == {None, <<>>, <<a, Esc, Esc, Semi, Esc, Semi>>}
=============================================================================
