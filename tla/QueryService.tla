---------------------------- MODULE QueryService ----------------------------
(***************************************************************************)
(* QueryService: scripts of SQL statements and @ commands, run for many    *)
(* sessions by one service object.  The object keeps the session it works  *)
(* for in one field (Service.session), assigned at the start of query and  *)
(* read again at every later use; results collect in the session until the *)
(* answer takes them; editResult works on whatever session the field holds.*)
(*                                                                         *)
(* A call runs in a handler: with one handler calls are serial, with more  *)
(* they interleave at every use of the field that another call can see.    *)
(* A call is named by its number in reqs; rows, columns and history        *)
(* entries are represented by the number of the call that made them.       *)
(***************************************************************************)
EXTENDS Integers, Sequences, SequencesExt

CONSTANTS
  Session,      \* ServiceSession objects, logged in and out elsewhere
  Handler,      \* the concurrent service calls
  Mortal,       \* the sessions that may be logged out or expire
  Scripts,      \* the scripts clients send: sequences of statement kinds
  MaxCalls,     \* bound: calls in a behaviour
  None          \* Java's null

(* What distinguishes statements: a result set ("select", "edit" keeps it  *)
(* updatable, "list" renders it as text only), an update count, and the @  *)
(* commands that answer text without running a statement.  @cancel is one: *)
(* the statement it cancels may fail, as any statement may.                *)
Statement == {"select", "edit", "list", "update", "command"}

ASSUME ScriptsAssumption == Scripts \subseteq Seq(Statement)
ASSUME MaxCallsAssumption == MaxCalls \in Nat
ASSUME MortalAssumption == Mortal \subseteq Session
ASSUME NullAssumption == None \notin Session \cup Handler

VARIABLES
  field,      \* Service.session of the one QueryService object
  alive,      \* sessions ServiceConfig.getSession still finds
  connected,  \* sessions whose connection is open
  executing,  \* ServiceSession.executingStatement: the handler that runs it
  cols,       \* ServiceSession.columnNames: one entry per result set
  rows,       \* ServiceSession.rows: one entry per result set
  text,       \* the session attribute "result"
  result,     \* ServiceSession.result, the updatable result set
  history,    \* ServiceSession.commandHistory
  reqs,       \* the calls made so far
  pc,         \* where each handler is
  cur,        \* the call each handler works on
  conn,       \* query's local variable conn: whose connection it is
  script      \* the statements a handler has still to run

callVars == <<pc, cur, conn, script>>
resultVars == <<cols, rows, text, result>>
vars == <<field, alive, connected, executing, resultVars, history,
          reqs, callVars>>

Call == 1 .. MaxCalls
PC == {"idle", "connection", "statement", "execute", "fetch", "finally"}
Running(h) == pc[h] \in {"execute", "fetch", "finally"}

Init ==
  /\ field = None
  /\ alive = Session
  /\ connected = Session
  /\ executing = [s \in Session |-> None]
  /\ cols = [s \in Session |-> <<>>]
  /\ rows = [s \in Session |-> <<>>]
  /\ text = [s \in Session |-> 0]
  /\ result = [s \in Session |-> 0]
  /\ history = [s \in Session |-> {}]
  /\ reqs = <<>>
  /\ pc = [h \in Handler |-> "idle"]
  /\ cur = [h \in Handler |-> 0]
  /\ conn = [h \in Handler |-> None]
  /\ script = [h \in Handler |-> <<>>]

Goto(h, l) == pc' = [pc EXCEPT ![h] = l]

(* The call is over: it answered, or an exception left it.                 *)
Return(h) ==
  /\ Goto(h, "idle")
  /\ cur' = [cur EXCEPT ![h] = 0]
  /\ conn' = [conn EXCEPT ![h] = None]
  /\ script' = [script EXCEPT ![h] = <<>>]

Begin(h, s, kind) ==
  /\ pc[h] = "idle"
  /\ Len(reqs) < MaxCalls
  /\ reqs' = Append(reqs, [sid |-> s, kind |-> kind])
  /\ cur' = [cur EXCEPT ![h] = Len(reqs) + 1]

-----------------------------------------------------------------------------
\* Mutant: an unknown id leaves the field as it was.
QueryKeepsField(h, s, scr) ==
  /\ Begin(h, s, "query")
  /\ field' = IF s \in alive THEN s ELSE field
  /\ script' = [script EXCEPT ![h] = scr]
  /\ Goto(h, "connection")
  /\ UNCHANGED <<alive, connected, executing, resultVars, history, conn>>

(* query: the script is read, the field assigned what getSession returns.  *)
Query(h, s, scr) ==
  /\ Begin(h, s, "query")
  /\ field' = IF s \in alive THEN s ELSE None
  /\ script' = [script EXCEPT ![h] = scr]
  /\ Goto(h, "connection")
  /\ UNCHANGED <<alive, connected, executing, resultVars, history,
                 conn>>

\* Mutant: a null session is waited for.
ConnectionWaits(h) ==
  /\ pc[h] = "connection" /\ field # None
  /\ conn' = [conn EXCEPT ![h] = field]
  /\ Goto(h, "statement")
  /\ UNCHANGED <<field, alive, connected, executing, resultVars, history, reqs,
                 cur, script>>

(* session.getConnection().  On null the exception handler fails in turn,  *)
(* and the call ends with an exception.                                    *)
Connection(h) ==
  /\ pc[h] = "connection"
  /\ \/ /\ field = None
        /\ Return(h)
     \/ /\ field # None
        /\ conn' = [conn EXCEPT ![h] = field]
        /\ Goto(h, "statement")
        /\ UNCHANGED <<cur, script>>
  /\ UNCHANGED <<field, alive, connected, executing, resultVars,
                 history, reqs>>

ClearExecuting == executing' = [executing EXCEPT ![field] = None]

(* getResult, when it ends without running a statement: the connection is  *)
(* closed, or the statement is a command.  Its finally block resets        *)
(* executingStatement whether or not it had set it: @cancel unregisters    *)
(* the statement it was to cancel.                                         *)
Command(h) ==
  /\ pc[h] = "statement" /\ field # None
  /\ script[h] # <<>>
  /\ conn[h] \notin connected \/ Head(script[h]) = "command"
  /\ ClearExecuting
  /\ script' = [script EXCEPT ![h] = Tail(@)]
  /\ UNCHANGED <<field, alive, connected, resultVars, history, reqs,
                 pc, cur, conn>>

(* A SQL statement is created and registered.                              *)
Start(h) ==
  /\ pc[h] = "statement" /\ field # None
  /\ script[h] # <<>>
  /\ conn[h] \in connected /\ Head(script[h]) # "command"
  /\ executing' = [executing EXCEPT ![field] = h]
  /\ Goto(h, "execute")
  /\ UNCHANGED <<field, alive, connected, resultVars, history, reqs,
                 cur, conn, script>>

(* stat.execute returns, the command joins the history, an update count is *)
(* all there is to show or a result set is to be read.                     *)
Execute(h) ==
  /\ pc[h] = "execute" /\ field # None
  /\ conn[h] \in connected
  /\ history' = [history EXCEPT ![field] = @ \cup {cur[h]}]
  /\ Goto(h, IF Head(script[h]) = "update" THEN "finally" ELSE "fetch")
  /\ UNCHANGED <<field, alive, connected, executing, resultVars,
                 reqs, cur, conn, script>>

(* getResultSet reads the result set to its end.  The list form fills only *)
(* the text; an edited result replaces the session's updatable one.        *)
Fetch(h) ==
  /\ pc[h] = "fetch" /\ field # None
  /\ conn[h] \in connected
  /\ IF Head(script[h]) = "list"
       THEN UNCHANGED <<cols, rows>>
       ELSE /\ cols' = [cols EXCEPT ![field] = Append(@, cur[h])]
            /\ rows' = [rows EXCEPT ![field] = Append(@, cur[h])]
  /\ result' = IF Head(script[h]) = "edit"
                 THEN [result EXCEPT ![field] = cur[h]] ELSE result
  /\ Goto(h, "finally")
  /\ UNCHANGED <<field, alive, connected, executing, text, history,
                 reqs, cur, conn, script>>

(* What a failing statement leaves in the session: nothing, its columns,   *)
(* or its columns and some of its rows.                                    *)
Leftover(h) ==
  /\ pc[h] = "fetch" /\ Head(script[h]) # "list"
  /\ cols' = [cols EXCEPT ![field] = Append(@, cur[h])]
  /\ rows' \in {rows, [rows EXCEPT ![field] = Append(@, cur[h])]}

\* Mutant: a failing statement returns without the finally block.
FailReturns(h) ==
  /\ pc[h] \in {"execute", "fetch"} /\ field # None
  /\ script' = [script EXCEPT ![h] = Tail(@)]
  /\ Goto(h, "statement")
  /\ UNCHANGED <<field, alive, connected, executing, resultVars, history, reqs,
                 cur, conn>>

(* The statement fails before it returns or while its rows are read.  The  *)
(* error is text.                                                          *)
Fail(h) ==
  /\ pc[h] \in {"execute", "fetch"} /\ field # None
  /\ Leftover(h) \/ UNCHANGED <<cols, rows>>
  /\ Goto(h, "finally")
  /\ UNCHANGED <<field, alive, connected, executing, text, result, history,
                 reqs, cur, conn, script>>

(* The finally block of getResult.                                         *)
Finally(h) ==
  /\ pc[h] = "finally" /\ field # None
  /\ ClearExecuting
  /\ script' = [script EXCEPT ![h] = Tail(@)]
  /\ Goto(h, "statement")
  /\ UNCHANGED <<field, alive, connected, resultVars, history, reqs, cur, conn>>

(* Another call made the field null: whatever this one does next fails,    *)
(* and so do its exception handlers, which use the field as well.          *)
FieldGone(h) ==
  /\ pc[h] \notin {"idle", "connection"} /\ field = None
  /\ Return(h)
  /\ UNCHANGED <<field, alive, connected, executing, resultVars, history, reqs>>

\* Mutant: the rows stay in the session.
AnswerKeepsRows(h) ==
  /\ pc[h] = "statement" /\ field # None
  /\ script[h] = <<>> /\ reqs[cur[h]].kind = "query"
  /\ text' = [text EXCEPT ![field] = cur[h]]
  /\ cols' = [cols EXCEPT ![field] = <<>>]
  /\ Return(h)
  /\ UNCHANGED <<field, alive, connected, executing, rows, result, history,
                 reqs>>

(* The end of query: the text becomes an attribute; result sets collected  *)
(* in the session are the answer in its stead, and leave the session.      *)
Answer(h) ==
  /\ pc[h] = "statement" /\ field # None
  /\ script[h] = <<>> /\ reqs[cur[h]].kind = "query"
  /\ text' = [text EXCEPT ![field] = cur[h]]
  /\ IF cols[field] = <<>>
       THEN UNCHANGED <<cols, rows>>
       ELSE /\ cols' = [cols EXCEPT ![field] = <<>>]
            /\ rows' = [rows EXCEPT ![field] = <<>>]
  /\ Return(h)
  /\ UNCHANGED <<field, alive, connected, executing, result, history,
                 reqs>>

-----------------------------------------------------------------------------
(* editResult: jsessionid s is a parameter nothing reads.  The row change  *)
(* goes to the updatable result set of the session in the field (an error  *)
(* there, a null result set included, is text), and the "@edit" statement  *)
(* is then run again.  A null field is an exception.                       *)
EditResult(h, s) ==
  /\ Begin(h, s, "edit")
  /\ field # None
  /\ conn' = [conn EXCEPT ![h] = field]
  /\ script' = [script EXCEPT ![h] = <<"edit">>]
  /\ Goto(h, "statement")
  /\ UNCHANGED <<field, alive, connected, executing, resultVars,
                 history>>

(* Its answer names a page; the result sets stay in the session.           *)
EditAnswer(h) ==
  /\ pc[h] = "statement" /\ field # None
  /\ script[h] = <<>> /\ reqs[cur[h]].kind = "edit"
  /\ text' = [text EXCEPT ![field] = cur[h]]
  /\ Return(h)
  /\ UNCHANGED <<field, alive, connected, executing, cols, rows,
                 result, history, reqs>>

-----------------------------------------------------------------------------
(* What other services do to the sessions, as calls of a handler of theirs:*)
(* logout removes the session and closes its connection, the sweep of a    *)
(* getSession only removes it.                                             *)
Logout(h, s) ==
  /\ pc[h] = "idle" /\ s \in alive \cap Mortal
  /\ alive' = alive \ {s}
  /\ connected' = connected \ {s}
  /\ UNCHANGED <<field, executing, resultVars, history, reqs,
                 callVars>>

Expire(h, s) ==
  /\ pc[h] = "idle" /\ s \in alive \cap Mortal
  /\ alive' = alive \ {s}
  /\ UNCHANGED <<field, connected, executing, resultVars, history,
                 reqs, callVars>>

Step(h) ==
  \/ Connection(h) \/ Command(h) \/ Start(h) \/ Execute(h)
  \/ Fetch(h) \/ Fail(h) \/ Finally(h) \/ FieldGone(h) \/ Answer(h)
  \/ EditAnswer(h)

Next ==
  \/ \E h \in Handler : Step(h)
  \/ \E h \in Handler, s \in Session :
       \/ \E scr \in Scripts : Query(h, s, scr)
       \/ EditResult(h, s) \/ Logout(h, s) \/ Expire(h, s)

(* A call that began is run to its end, and the database answers every     *)
(* statement, if only with an error.                                       *)
Fairness == \A h \in Handler : WF_vars(Step(h))

Spec == Init /\ [][Next]_vars
FairSpec == Spec /\ Fairness

-----------------------------------------------------------------------------
(* The types of the variables; numbers of calls are numbers of calls made. *)
TypeOK ==
  /\ field \in Session \cup {None}
  /\ alive \subseteq Session /\ connected \subseteq Session
  /\ executing \in [Session -> Handler \cup {None}]
  /\ reqs \in Seq([sid : Session, kind : {"query", "edit"}])
  /\ Len(reqs) <= MaxCalls
  /\ cols \in [Session -> Seq(1 .. Len(reqs))]
  /\ rows \in [Session -> Seq(1 .. Len(reqs))]
  /\ text \in [Session -> 0 .. Len(reqs)]
  /\ result \in [Session -> 0 .. Len(reqs)]
  /\ history \in [Session -> SUBSET (1 .. Len(reqs))]
  /\ pc \in [Handler -> PC]
  /\ cur \in [Handler -> 0 .. Len(reqs)]
  /\ conn \in [Handler -> Session \cup {None}]
  /\ script \in [Handler -> Seq(Statement)]

QueryOf(m, s) == reqs[m].kind = "query" => reqs[m].sid = s

(* What a query leaves in a session - result sets, text, the updatable     *)
(* result, history - was asked for with the id of that session, also after *)
(* other sessions were logged out or expired.                              *)
NothingForeign ==
  \A s \in Session :
    /\ \A m \in ToSet(cols[s]) \cup ToSet(rows[s]) \cup history[s] : QueryOf(m, s)
    /\ \A m \in {text[s], result[s]} \ {0} : QueryOf(m, s)

(* The answer of a query shows result sets of its own statements, and of   *)
(* the edits the service did for the same session since, but never of an   *)
(* earlier query: whatever failed in an earlier script, its answer took    *)
(* all it had collected.                                                   *)
AnswerIsOwn ==
  [][\A h \in Handler : Answer(h) =>
       \A m \in ToSet(cols[field]) \cup ToSet(rows[field]) :
         m = cur[h] \/ reqs[m].kind = "edit"]_vars

(* The statement registered with a session is one a handler is running:    *)
(* @cancel never reaches for a finished statement, and the admin page does *)
(* not list an idle session as executing.                                  *)
RegisteredIsRunning ==
  \A s \in Session : executing[s] # None => Running(executing[s])

(* services.sql declares edit_result(jsessionid, ...) and ServiceSession   *)
(* keeps "the current updatable result set" of each session: an edit       *)
(* writes to the result set of the session it names.                       *)
EditsNamedSession ==
  [][\A h \in Handler, s \in Session : EditResult(h, s) => field = s]_vars

(* Every call that begins is answered or fails.                            *)
CallsEnd == \A h \in Handler : pc[h] # "idle" ~> pc[h] = "idle"
=============================================================================
