--------------------------- MODULE CommandHistory ---------------------------
(***************************************************************************)
(* The command history: every session keeps a list of its own, read from   *)
(* one stored string when the session is created, and written back to it   *)
(* as a whole, by whichever session ran a command last, if storing is      *)
(* allowed (ServiceSession.addCommand; ServiceConfig                       *)
(* .getCommandHistoryList, saveCommandHistoryList).                        *)
(*                                                                         *)
(* The stored string separates commands by semicolons, which commands may  *)
(* contain; a command is a sequence of the characters the code tells apart.*)
(***************************************************************************)
EXTENDS Integers, Sequences, SequencesExt

CONSTANTS
  Session,      \* ServiceSession objects
  Command,      \* commands, trimmed and not empty: addCommand drops others
  Semi, Esc,    \* the characters ';' and '\'
  MaxHistory,   \* MAX_HISTORY
  InitStored,   \* what the properties file has at the start, or None
  None          \* no stored string: storing is not allowed

VARIABLES
  stored,  \* ServiceConfig.commandHistoryString
  list     \* ServiceSession.commandHistory of each session, None: no session

vars == <<stored, list>>
Live == {s \in Session : list[s] # None}

-----------------------------------------------------------------------------
(* The string form.                                                        *)

\* Mutant: the separator is escaped, the escape character is not.
EscapeSemi(c) == IF c = Semi THEN <<Esc, c>> ELSE <<c>>
Escape(c) == IF c \in {Semi, Esc} THEN <<Esc, c>> ELSE <<c>>

Escaping(sb, c) == sb \o Escape(c)
Escaped(cmd) == FoldLeft(Escaping, <<>>, cmd)

(* saveCommandHistoryList: a separator before every command but the first. *)
Joining(sb, cmd) ==
  (IF sb = <<>> THEN sb ELSE Append(sb, Semi)) \o Escaped(cmd)
Encode(l) == FoldLeft(Joining, <<>>, l)

Flush(d) ==
  [d EXCEPT !.done = IF d.sb = <<>> THEN @ ELSE Append(@, d.sb), !.sb = <<>>]

(* getCommandHistoryList: an escape character takes the next one as it is, *)
(* at the very end it stands for itself; empty commands are skipped.       *)
Reading(d, c) ==
  IF d.esc THEN [d EXCEPT !.sb = Append(@, c), !.esc = FALSE]
  ELSE IF c = Semi THEN Flush(d)
  ELSE IF c = Esc THEN [d EXCEPT !.esc = TRUE]
  ELSE [d EXCEPT !.sb = Append(@, c)]

Decode(str) ==
  LET d == FoldLeft(Reading, [done |-> <<>>, sb |-> <<>>, esc |-> FALSE], str)
  IN  Flush(IF d.esc THEN [d EXCEPT !.sb = Append(@, Esc)] ELSE d).done

(* What a session's history may be.                                        *)
Histories ==
  {l \in Seq(Command) : IsInjective(l) /\ Len(l) <= MaxHistory + 1}

Char == (UNION {ToSet(c) : c \in Command}) \cup {Semi, Esc}

ASSUME HistoryAssumption ==
  /\ MaxHistory \in Nat
  /\ Semi # Esc
  /\ Command \subseteq Seq(Char) \ {<<>>}
  /\ None \notin Seq(Char) \cup Histories
  /\ \A str \in InitStored :
       str # None => str \in Seq(Char) /\ Decode(str) \in Histories

-----------------------------------------------------------------------------
Init ==
  /\ stored \in InitStored
  /\ list = [s \in Session |-> None]

(* The constructor of ServiceSession.                                      *)
Login(s) ==
  /\ list[s] = None
  /\ list' = [list EXCEPT ![s] = IF stored = None THEN <<>> ELSE Decode(stored)]
  /\ UNCHANGED stored

Logout(s) ==
  /\ list[s] # None
  /\ list' = [list EXCEPT ![s] = None]
  /\ UNCHANGED stored

\* Mutants: the limit is one less; a repeated command stays where it was.
TrimEarly(l) == IF Len(l) >= MaxHistory THEN Tail(l) ELSE l
WithoutFirst(l, cmd) == IF l # <<>> /\ Head(l) = cmd THEN Tail(l) ELSE l

(* The oldest command makes room, whether or not the new one is a repeat.  *)
Trim(l) == IF Len(l) > MaxHistory THEN Tail(l) ELSE l

Without(l, cmd) ==
  IF cmd \in ToSet(l)
    THEN RemoveAt(l, CHOOSE i \in DOMAIN l :
                       l[i] = cmd /\ \A j \in 1 .. (i - 1) : l[j] # cmd)
    ELSE l

(* ServiceSession.addCommand.                                              *)
AddCommand(s, cmd) ==
  /\ list[s] # None
  /\ LET l == Append(Without(Trim(list[s]), cmd), cmd)
     IN  /\ list' = [list EXCEPT ![s] = l]
         /\ stored' = IF stored = None THEN None ELSE Encode(l)

(* ServiceConfig.setCommandHistoryAllowed, called by the embedding program.*)
SetAllowed(allowed) ==
  /\ stored' = IF ~allowed THEN None ELSE IF stored = None THEN <<>> ELSE stored
  /\ UNCHANGED list

Next ==
  \/ \E s \in Session : Login(s) \/ Logout(s)
  \/ \E s \in Session, cmd \in Command : AddCommand(s, cmd)
  \/ \E allowed \in BOOLEAN : SetAllowed(allowed)

Spec == Init /\ [][Next]_vars

-----------------------------------------------------------------------------
(* Every history, whoever stored what it was read from, holds commands, no *)
(* one twice, and at most one more than the limit.                         *)
TypeOK ==
  /\ \A s \in Live : list[s] \in Histories
  /\ stored \in Seq(Char) \cup {None}

(* What addCommand stores is the whole history and nothing else: a session *)
(* created next starts with the list of the session that ran a command     *)
(* last, whatever semicolons and backslashes its commands contain.         *)
StoredIsReadBack ==
  [][\A s \in Session : list'[s] # list[s] /\ list'[s] # None /\ stored' # None
       => Decode(stored') = list'[s]]_vars

Before(l, b, c) == \E i, j \in DOMAIN l : i < j /\ l[i] = b /\ l[j] = c

(* A history forgets only its oldest command, and only when it is longer   *)
(* than the limit; the others keep their order, the new one goes last.     *)
ForgetsOldest ==
  [][\A s \in Live, cmd \in Command : AddCommand(s, cmd) =>
       LET old == list[s]
           new == list'[s]
       IN  /\ Last(new) = cmd
           /\ ToSet(new) \subseteq ToSet(old) \cup {cmd}
           /\ \A c \in ToSet(old) \ ToSet(new) :
                Len(old) > MaxHistory /\ c = Head(old)
           /\ \A b, c \in ToSet(new) \ {cmd} :
                Before(old, b, c) => Before(new, b, c)]_vars
=============================================================================
