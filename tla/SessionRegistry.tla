-------------------------- MODULE SessionRegistry --------------------------
(***************************************************************************)
(* The console's session registry: the map of ServiceConfig from session   *)
(* ids to ServiceSession objects, the clock that ages its entries, and the *)
(* service operations that create, look up, evict and remove them          *)
(* (OpsService.login and logout, ServiceConfig.getSession and              *)
(* createNewSession).                                                      *)
(*                                                                         *)
(* A service call runs in a handler.  With one handler the calls are       *)
(* serial, as on one event loop; with several they interleave between any  *)
(* two accesses to the shared map, as on a pool of worker threads.  Each   *)
(* single access of the map is one step.                                   *)
(***************************************************************************)
EXTENDS Integers, FiniteSets

CONSTANTS
  SessionId,    \* the ids generateSessionId can draw
  Handler,      \* the concurrent service calls
  Timeout,      \* SESSION_TIMEOUT, in clock units
  Pause,        \* how long createNewSession or getSession runs after it read the clock
  ClockStart,   \* the clock when the program starts, counted from the epoch
  MaxTime,      \* bound of the clock
  None          \* Java's null

(* The clock counts from the epoch: it is past the first timeout at once.  *)
(* Neither does more than read a resource of the program and walk the map  *)
(* after it, so a call would have to be stopped for the whole timeout.     *)
ASSUME TimeAssumption ==
  /\ Timeout \in Nat
  /\ Pause \in 0 .. Timeout
  /\ ClockStart \in Nat
  /\ MaxTime \in Nat
  /\ ClockStart > Timeout
ASSUME NoneAssumption == None \notin SessionId

VARIABLES
  now,               \* System.currentTimeMillis()
  lastTimeoutCheck,  \* ServiceConfig.lastTimeoutCheck
  sessions,          \* the keys of ServiceConfig.sessions
  lastAccess,        \* ServiceSession.lastAccess of each session object
  conn,              \* the JDBC connection made for each session
  serverSessions,    \* sessions whose ServerSession login has opened
  pc,                \* where each handler is
  cur,               \* the session id a handler works for
  at,                \* the local reading of the clock it goes by, 0 without one
  todo,              \* the part of the sweep's key snapshot still to visit
  victim,            \* the entry the sweep found expired and is about to drop
  sweptAt            \* history: the reading of the sweep that dropped a session

handlerVars == <<pc, cur, at, todo, victim>>
registryVars == <<lastTimeoutCheck, sessions, lastAccess>>
resourceVars == <<conn, serverSessions>>
vars == <<now, registryVars, resourceVars, handlerVars, sweptAt>>

(* A connection is "opened" while only login's local variable holds it and *)
(* "assigned" from setConnection on.                                       *)
ConnState == {"none", "opened", "assigned", "closed"}
InGetSession(h) ==
  pc[h] \in {"check", "snapshot", "sweep", "evict", "lookup", "touch"}
Timed(h) == pc[h] \in {"publish", "enter"} \/ InGetSession(h)
PC == {"idle", "connect", "publish", "enter", "check", "snapshot", "sweep",
       "evict", "lookup", "touch", "assign", "work", "close"}

(* Session ids a client was given: login returns after setConnection.      *)
Known == {s \in SessionId : conn[s] \in {"assigned", "closed"}}
Expired(s, t) == lastAccess[s] + Timeout < t

Init ==
  /\ now = ClockStart
  /\ lastTimeoutCheck = 0
  /\ sessions = {}
  /\ lastAccess = [s \in SessionId |-> 0]
  /\ conn = [s \in SessionId |-> "none"]
  /\ serverSessions = {}
  /\ pc = [h \in Handler |-> "idle"]
  /\ cur = [h \in Handler |-> None]
  /\ at = [h \in Handler |-> 0]
  /\ todo = [h \in Handler |-> {}]
  /\ victim = [h \in Handler |-> None]
  /\ sweptAt = [s \in SessionId |-> 0]

Goto(h, l) == pc' = [pc EXCEPT ![h] = l]

(* now = System.currentTimeMillis(), a local of the call.                  *)
ReadClock(h) == at' = [at EXCEPT ![h] = now]

(* The call of h is over: it returned, or an exception left it.            *)
Return(h) ==
  /\ Goto(h, "idle")
  /\ cur' = [cur EXCEPT ![h] = None]
  /\ at' = [at EXCEPT ![h] = 0]
  /\ todo' = [todo EXCEPT ![h] = {}]
  /\ victim' = [victim EXCEPT ![h] = None]

-----------------------------------------------------------------------------
(* OpsService.login and ServiceConfig.createNewSession                     *)

(* login opens a server session first; s is the id it will draw, one no    *)
(* login drew before (16 random bytes).  A failing createSession changes   *)
(* nothing and is no step.                                                 *)
LoginStart(h, s) ==
  /\ pc[h] = "idle"
  /\ s \notin serverSessions \cup sessions
  /\ serverSessions' = serverSessions \cup {s}
  /\ Goto(h, "connect")
  /\ cur' = [cur EXCEPT ![h] = s]
  /\ UNCHANGED <<now, registryVars, conn, at, todo, victim, sweptAt>>

(* The connection is made and the new session object dated, by a reading   *)
(* nobody sees before the session is put into the map.                     *)
Connect(h) ==
  /\ pc[h] = "connect"
  /\ conn' = [conn EXCEPT ![cur[h]] = "opened"]
  /\ ReadClock(h)
  /\ Goto(h, "publish")
  /\ UNCHANGED <<now, registryVars, serverSessions, cur, todo, victim, sweptAt>>

(* DriverManager.getConnection throws: login fails and nothing closes the  *)
(* server session it opened.                                               *)
ConnectFails(h) ==
  /\ pc[h] = "connect"
  /\ Return(h)
  /\ UNCHANGED <<now, registryVars, resourceVars, sweptAt>>

\* Mutant: the new session starts with lastAccess 0.
PublishUndated(h) ==
  /\ pc[h] = "publish"
  /\ sessions' = sessions \cup {cur[h]}
  /\ Goto(h, "enter")
  /\ UNCHANGED <<now, lastTimeoutCheck, lastAccess, resourceVars, cur, at, todo,
                 victim, sweptAt>>

(* createNewSession up to its tail call of getSession.                     *)
Publish(h) ==
  /\ pc[h] = "publish"
  /\ lastAccess' = [lastAccess EXCEPT ![cur[h]] = at[h]]
  /\ sessions' = sessions \cup {cur[h]}
  /\ Goto(h, "enter")
  /\ UNCHANGED <<now, lastTimeoutCheck, resourceVars, cur, at, todo, victim,
                 sweptAt>>

(* setConnection, setServerSession and the answer of login.                *)
Assign(h) ==
  /\ pc[h] = "assign"
  /\ conn' = [conn EXCEPT ![cur[h]] = "assigned"]
  /\ Return(h)
  /\ UNCHANGED <<now, registryVars, serverSessions, sweptAt>>

-----------------------------------------------------------------------------
(* ServiceConfig.getSession.  Each call judges by the clock as it read it  *)
(* when it began, whatever the others have read since.                     *)

(* A request of the query or database service starts with getSession.      *)
Request(h, s) ==
  /\ pc[h] = "idle"
  /\ s \in Known
  /\ cur' = [cur EXCEPT ![h] = s]
  /\ ReadClock(h)
  /\ Goto(h, "check")
  /\ UNCHANGED <<now, registryVars, resourceVars, todo, victim, sweptAt>>

(* createNewSession ends with getSession, which reads the clock anew.      *)
Enter(h) ==
  /\ pc[h] = "enter"
  /\ ReadClock(h)
  /\ Goto(h, "check")
  /\ UNCHANGED <<now, registryVars, resourceVars, cur, todo, victim, sweptAt>>

\* Mutant: the sweep waits for twice the timeout.
SweepDueLate(t) == lastTimeoutCheck + 2 * Timeout < t
SweepDue(t) == lastTimeoutCheck + Timeout < t

Check(h) ==
  /\ pc[h] = "check"
  /\ Goto(h, IF SweepDue(at[h]) THEN "snapshot" ELSE "lookup")
  /\ UNCHANGED <<now, registryVars, resourceVars, cur, at, todo, victim, sweptAt>>

(* new ArrayList<>(sessions.keySet()).                                     *)
Snapshot(h) ==
  /\ pc[h] = "snapshot"
  /\ todo' = [todo EXCEPT ![h] = sessions]
  /\ Goto(h, "sweep")
  /\ UNCHANGED <<now, registryVars, resourceVars, cur, at, victim, sweptAt>>

\* Mutant: a missing entry ends the loop instead of the call.
InspectBreaks(h, s) ==
  /\ pc[h] = "sweep"
  /\ s \in todo[h]
  /\ UNCHANGED <<now, registryVars, resourceVars, cur, at, sweptAt>>
  /\ \/ /\ s \notin sessions
        /\ todo' = [todo EXCEPT ![h] = {}]
        /\ UNCHANGED <<pc, victim>>
     \/ /\ s \in sessions /\ Expired(s, at[h])
        /\ victim' = [victim EXCEPT ![h] = s]
        /\ Goto(h, "evict")
        /\ UNCHANGED todo
     \/ /\ s \in sessions /\ ~Expired(s, at[h])
        /\ todo' = [todo EXCEPT ![h] = @ \ {s}]
        /\ UNCHANGED <<pc, victim>>

\* Mutant: a live entry is not stepped over, a missing one blocks the loop.
InspectStuck(h, s) ==
  /\ pc[h] = "sweep"
  /\ s \in todo[h] \cap sessions
  /\ Expired(s, at[h])
  /\ victim' = [victim EXCEPT ![h] = s]
  /\ Goto(h, "evict")
  /\ UNCHANGED <<now, registryVars, resourceVars, cur, at, todo, sweptAt>>

(* sessions.get(id) for one id of the snapshot, in the order of the map,   *)
(* and the look at its lastAccess: what others do between the two matters  *)
(* only to an entry they removed, and that one is removed a second time.   *)
(* An entry another handler removed before is null: its lastAccess raises  *)
(* NullPointerException and the call ends, the check time unchanged.       *)
Inspect(h, s) ==
  /\ pc[h] = "sweep"
  /\ s \in todo[h]
  /\ UNCHANGED <<now, registryVars, resourceVars, sweptAt>>
  /\ \/ /\ s \notin sessions
        /\ Return(h)
     \/ /\ s \in sessions
        /\ Expired(s, at[h])
        /\ victim' = [victim EXCEPT ![h] = s]
        /\ Goto(h, "evict")
        /\ UNCHANGED <<cur, at, todo>>
     \/ /\ s \in sessions
        /\ ~Expired(s, at[h])
        /\ todo' = [todo EXCEPT ![h] = @ \ {s}]
        /\ UNCHANGED <<pc, cur, at, victim>>

(* sessions.remove(id): the session leaves the map, also when another call *)
(* has refreshed it since the look at it; its connection and its server    *)
(* session are not closed.                                                 *)
Evict(h) ==
  /\ pc[h] = "evict"
  /\ sessions' = sessions \ {victim[h]}
  /\ sweptAt' = IF victim[h] \in sessions
                  THEN [sweptAt EXCEPT ![victim[h]] = at[h]]
                  ELSE sweptAt
  /\ todo' = [todo EXCEPT ![h] = @ \ {victim[h]}]
  /\ victim' = [victim EXCEPT ![h] = None]
  /\ Goto(h, "sweep")
  /\ UNCHANGED <<now, lastTimeoutCheck, lastAccess, resourceVars, cur, at>>

(* The call's own reading: the check time may go back.                     *)
SweepDone(h) ==
  /\ pc[h] = "sweep"
  /\ todo[h] = {}
  /\ lastTimeoutCheck' = at[h]
  /\ Goto(h, "lookup")
  /\ UNCHANGED <<now, sessions, lastAccess, resourceVars, cur, at, todo, victim,
                 sweptAt>>

\* Mutant: the session object is used although the map dropped it.
LookupStale(h) ==
  /\ pc[h] = "lookup"
  /\ Goto(h, "touch")
  /\ UNCHANGED <<now, registryVars, resourceVars, cur, at, todo, victim, sweptAt>>

(* sessions.get(sessionId) finds the session object.                       *)
LookupFound(h) ==
  /\ pc[h] = "lookup"
  /\ cur[h] \in sessions
  /\ Goto(h, "touch")
  /\ UNCHANGED <<now, registryVars, resourceVars, cur, at, todo, victim, sweptAt>>

(* getSession returns null, and its caller fails on it.                    *)
LookupMissing(h) ==
  /\ pc[h] = "lookup"
  /\ cur[h] \notin sessions
  /\ Return(h)
  /\ UNCHANGED <<now, registryVars, resourceVars, sweptAt>>

(* The object is refreshed by a reading of its own, in the map or not.     *)
(* Login goes on to setConnection, a request to its work.                  *)
Touch(h) ==
  /\ pc[h] = "touch"
  /\ lastAccess' = [lastAccess EXCEPT ![cur[h]] = now]
  /\ at' = [at EXCEPT ![h] = 0]
  /\ Goto(h, IF conn[cur[h]] = "opened" THEN "assign" ELSE "work")
  /\ UNCHANGED <<now, lastTimeoutCheck, sessions, resourceVars, cur, todo, victim,
                 sweptAt>>

(* The request uses the session it got, and answers.                       *)
Work(h) ==
  /\ pc[h] = "work"
  /\ Return(h)
  /\ UNCHANGED <<now, registryVars, resourceVars, sweptAt>>

-----------------------------------------------------------------------------
(* OpsService.logout: removeSession, then close what it returned.          *)

\* Mutant: the connection is closed while the session is still in the map.
LogoutClosesFirst(h, s) ==
  /\ pc[h] = "idle"
  /\ s \in Known \cap sessions
  /\ conn' = [conn EXCEPT ![s] = "closed"]
  /\ UNCHANGED <<now, registryVars, serverSessions, handlerVars, sweptAt>>

Logout(h, s) ==
  /\ pc[h] = "idle"
  /\ s \in Known \cap sessions
  /\ sessions' = sessions \ {s}
  /\ cur' = [cur EXCEPT ![h] = s]
  /\ Goto(h, "close")
  /\ UNCHANGED <<now, lastTimeoutCheck, lastAccess, resourceVars, at, todo, victim,
                 sweptAt>>

\* Mutant: logout forgets the connection.
CloseNothing(h) ==
  /\ pc[h] = "close"
  /\ Return(h)
  /\ UNCHANGED <<now, registryVars, resourceVars, sweptAt>>

Close(h) ==
  /\ pc[h] = "close"
  /\ conn' = [conn EXCEPT ![cur[h]] = "closed"]
  /\ Return(h)
  /\ UNCHANGED <<now, registryVars, serverSessions, sweptAt>>

-----------------------------------------------------------------------------
(* Time passes between calls, while a call waits for the database, and, up *)
(* to Pause after it read the clock, while it is on its way to or inside   *)
(* getSession.                                                             *)
Tick ==
  /\ now < MaxTime
  /\ \A h \in Handler : Timed(h) => now < at[h] + Pause
  /\ now' = now + 1
  /\ UNCHANGED <<registryVars, resourceVars, handlerVars, sweptAt>>

(* What a handler does once a call has begun.                              *)
Step(h) ==
  \/ Connect(h) \/ ConnectFails(h) \/ Publish(h) \/ Assign(h)
  \/ Enter(h) \/ Check(h) \/ Snapshot(h)
  \/ (\E s \in SessionId : Inspect(h, s)) \/ Evict(h) \/ SweepDone(h)
  \/ LookupFound(h) \/ LookupMissing(h) \/ Touch(h)
  \/ Work(h) \/ Close(h)

(* A call begins: a client's choice.                                       *)
Begin(h, s) == LoginStart(h, s) \/ Request(h, s) \/ Logout(h, s)

Next ==
  \/ Tick
  \/ \E h \in Handler : Step(h)
  \/ \E h \in Handler, s \in SessionId : Begin(h, s)

(* A call that began is run to its end; nobody is obliged to call.         *)
Fairness == \A h \in Handler : WF_vars(Step(h))

Spec == Init /\ [][Next]_vars
FairSpec == Spec /\ Fairness

-----------------------------------------------------------------------------
(* The types of the variables, no reading of the clock ahead of the clock. *)
TypeOK ==
  /\ now \in Nat
  /\ lastTimeoutCheck \in 0 .. now
  /\ sessions \in SUBSET SessionId
  /\ lastAccess \in [SessionId -> 0 .. now]
  /\ conn \in [SessionId -> ConnState]
  /\ serverSessions \in SUBSET SessionId
  /\ pc \in [Handler -> PC]
  /\ cur \in [Handler -> SessionId \cup {None}]
  /\ at \in [Handler -> 0 .. now]
  /\ todo \in [Handler -> SUBSET SessionId]
  /\ victim \in [Handler -> SessionId \cup {None}]
  /\ sweptAt \in [SessionId -> 0 .. now]

(* getSession changes lastTimeoutCheck only when no entry is left that     *)
(* was due at that time, whatever logins, logouts and other sweeps ran     *)
(* during the loop over the snapshot.                                      *)
CheckedMeansSwept ==
  [][lastTimeoutCheck' # lastTimeoutCheck =>
       \A s \in sessions' : lastAccess'[s] + Timeout >= lastTimeoutCheck']_vars

(* getSession never revives an entry idle, when the call began, for more   *)
(* than two timeouts: the sweep runs at most once per timeout, so one      *)
(* timeout is not guaranteed but two are.                                  *)
IdleAtMostTwice ==
  [][\A h \in Handler :
       LookupFound(h) => at[h] - lastAccess[cur[h]] <= 2 * Timeout]_vars

(* The connection of a session some client was given is open, the session  *)
(* in no map and in no logout.                                             *)
Orphan(s) ==
  /\ conn[s] = "assigned"
  /\ s \notin sessions
  /\ \A h \in Handler : pc[h] # "close" \/ cur[h] # s

(* A call had fetched s before a sweep dropped it and dated it afterwards. *)
UsedDuringSweep(s) ==
  sweptAt[s] # 0 /\ lastAccess[s] \in sweptAt[s] .. sweptAt[s] + 2 * Pause

(* The registry never hands out a session whose connection logout closed.  *)
NoClosedSession == \A s \in sessions : conn[s] # "closed"

(* Calls one at a time: a request works on an open connection.             *)
WorkIsConnected == \A h \in Handler : pc[h] = "work" => conn[cur[h]] = "assigned"

(* Calls one at a time: no login dies between opening its connection and   *)
(* answering, so every such connection is some session's or some login's.  *)
NoStrandedLogin ==
  \A s \in SessionId :
    conn[s] = "opened" =>
      \E h \in Handler : cur[h] = s /\ pc[h] # "idle"

(* Every call that begins ends, whichever entries other calls remove under *)
(* its sweep.                                                              *)
CallsEnd == \A h \in Handler : pc[h] # "idle" ~> pc[h] = "idle"
=============================================================================
