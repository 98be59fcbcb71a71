-------------------------- MODULE MCQueryService --------------------------
(* An instance of QueryService for TLC with both ways the database runs    *)
(* service calls: one after the other on an event loop, or at once on a    *)
(* pool of worker threads.  Which it is does not change while it runs.     *)
EXTENDS QueryService, FiniteSets

CONSTANT MaxPoolCalls  \* bound: calls in a behaviour of the pool

VARIABLE serial  \* calls run one after the other

(* Scripts that differ in what the answer must do with them: one or two    *)
(* result sets, none, an updatable one, one shown as text only.            *)
SerialScripts ==
  {<<"select">>, <<"select", "update">>, <<"edit">>, <<"list">>,
   <<"command", "select">>}

PoolScripts == {<<"select">>, <<"update">>, <<"command">>}

MCScripts == SerialScripts \cup PoolScripts

EventLoop == CHOOSE h \in Handler : TRUE
Busy == {h \in Handler : pc[h] # "idle"}

MCInit == Init /\ serial \in BOOLEAN

MCNext ==
  /\ Next
  /\ UNCHANGED serial
  /\ serial => Busy' \subseteq {EventLoop}
  /\ ~serial => /\ Len(reqs') <= MaxPoolCalls
                /\ \A h \in Handler : pc'[h] = "connection" => script'[h] \in PoolScripts

MCSpec ==
  /\ MCInit
  /\ [][MCNext]_<<vars, serial>>
  /\ \A h \in Handler : WF_<<vars, serial>>(Step(h) /\ UNCHANGED serial)

(* The properties that need calls in sequence.                             *)

(* What a query leaves in a session was asked for with that session's id.  *)
SerialNothingForeign == serial => NothingForeign

(* A registered statement is one a handler is running.                     *)
SerialRegisteredIsRunning == serial => RegisteredIsRunning

(* An answer shows results of its own script and of edits since, of no     *)
(* earlier query.                                                          *)
SerialAnswerIsOwn ==
  [][\A h \in Handler : serial /\ Answer(h) =>
       \A m \in ToSet(cols[field]) \cup ToSet(rows[field]) :
         m = cur[h] \/ reqs[m].kind = "edit"]_vars
=============================================================================
