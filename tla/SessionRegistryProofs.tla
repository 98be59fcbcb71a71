----------------------- MODULE SessionRegistryProofs -----------------------
(***************************************************************************)
(* Proofs about SessionRegistry for any sets of sessions and handlers and  *)
(* any timeout: the types and that getSession's lazy sweep bounds the idle *)
(* time of the sessions it hands out; then, as MCSessionRegistry runs it,  *)
(* which open connections a removed session leaves behind and, for calls   *)
(* that run one after the other, that a request works on an open           *)
(* connection and that no login leaves one behind that is nobody's.        *)
(***************************************************************************)
EXTENDS MCSessionRegistry, TLAPS

(* Every handler inside a call works for some id, and one about to evict   *)
(* has chosen an entry.                                                    *)
Busy ==
  \A h \in Handler :
    /\ pc[h] # "idle" => cur[h] \in SessionId
    /\ pc[h] = "evict" => victim[h] \in SessionId

(* Entries were all looked at since the last check, or made later.         *)
SweptAtLastCheck ==
  \A s \in sessions : lastAccess[s] + Timeout >= lastTimeoutCheck

(* The clock is never far ahead of the reading a call goes by.             *)
ReadingIsRecent ==
  /\ now > 0
  /\ \A h \in Handler : Timed(h) => at[h] > 0 /\ now <= at[h] + Pause

(* What a running sweep has passed, or was published behind its back, is   *)
(* not due by its reading.                                                 *)
SweptSoFar ==
  \A h \in Handler : pc[h] \in {"sweep", "evict"} =>
    \A s \in sessions \ todo[h] : lastAccess[s] + Timeout >= at[h]

(* Whoever reaches the lookup has made sure that no entry is older.        *)
LookupIsChecked ==
  \A h \in Handler : pc[h] = "lookup" =>
    \A s \in sessions : lastAccess[s] + 2 * Timeout >= at[h]

IdleInv ==
  /\ TypeOK /\ Busy /\ ReadingIsRecent
  /\ SweptAtLastCheck /\ SweptSoFar /\ LookupIsChecked

-----------------------------------------------------------------------------
LEMMA InitIdle == Init => IdleInv
BY TimeAssumption, SMT DEF Init, IdleInv, TypeOK, Busy, ReadingIsRecent,
   SweptAtLastCheck, SweptSoFar, LookupIsChecked, ConnState, PC, Timed, InGetSession

(* Next, with the existential over the handler's steps opened.             *)
LEMMA NextCases ==
  ASSUME Next
  PROVE  \/ Tick
         \/ \E h \in Handler :
              \/ Connect(h) \/ ConnectFails(h) \/ Publish(h) \/ Assign(h)
              \/ Enter(h) \/ Check(h) \/ Snapshot(h) \/ Evict(h)
              \/ SweepDone(h) \/ LookupFound(h) \/ LookupMissing(h)
              \/ Touch(h) \/ Work(h) \/ Close(h)
         \/ \E h \in Handler, s \in SessionId :
              \/ Inspect(h, s) \/ LoginStart(h, s) \/ Request(h, s)
              \/ Logout(h, s)
BY DEF Next, Step, Begin

LEMMA TypeStep ==
  ASSUME TypeOK, Busy, [Next]_vars
  PROVE  TypeOK' /\ Busy'
<1> USE TimeAssumption, NoneAssumption
<1> USE DEF TypeOK, Busy, ConnState, PC, registryVars, resourceVars,
            handlerVars, Goto, Return, ReadClock
<1>1. CASE Tick
  BY <1>1, SMT DEF Tick
<1>2. ASSUME NEW h \in Handler, Connect(h) PROVE TypeOK' /\ Busy'
  BY <1>2, SMT DEF Connect
<1>3. ASSUME NEW h \in Handler, ConnectFails(h) PROVE TypeOK' /\ Busy'
  BY <1>3, SMT DEF ConnectFails
<1>4. ASSUME NEW h \in Handler, Publish(h) PROVE TypeOK' /\ Busy'
  BY <1>4, SMT DEF Publish
<1>5. ASSUME NEW h \in Handler, Assign(h) PROVE TypeOK' /\ Busy'
  BY <1>5, SMT DEF Assign
<1>6. ASSUME NEW h \in Handler, Enter(h) PROVE TypeOK' /\ Busy'
  BY <1>6, SMT DEF Enter
<1>7. ASSUME NEW h \in Handler, Check(h) PROVE TypeOK' /\ Busy'
  BY <1>7, SMT DEF Check
<1>8. ASSUME NEW h \in Handler, Snapshot(h) PROVE TypeOK' /\ Busy'
  BY <1>8, SMT DEF Snapshot
<1>9. ASSUME NEW h \in Handler, Evict(h) PROVE TypeOK' /\ Busy'
  BY <1>9, SMT DEF Evict
<1>10. ASSUME NEW h \in Handler, SweepDone(h) PROVE TypeOK' /\ Busy'
  BY <1>10, SMT DEF SweepDone
<1>11. ASSUME NEW h \in Handler, LookupFound(h) PROVE TypeOK' /\ Busy'
  BY <1>11, SMT DEF LookupFound
<1>12. ASSUME NEW h \in Handler, LookupMissing(h) PROVE TypeOK' /\ Busy'
  BY <1>12, SMT DEF LookupMissing
<1>13. ASSUME NEW h \in Handler, Touch(h) PROVE TypeOK' /\ Busy'
  BY <1>13, SMT DEF Touch
<1>14. ASSUME NEW h \in Handler, Work(h) PROVE TypeOK' /\ Busy'
  BY <1>14, SMT DEF Work
<1>15. ASSUME NEW h \in Handler, Close(h) PROVE TypeOK' /\ Busy'
  BY <1>15, SMT DEF Close
<1>16. ASSUME NEW h \in Handler, NEW s \in SessionId, Inspect(h, s)
     PROVE TypeOK' /\ Busy'
  BY <1>16, SMT DEF Inspect
<1>17. ASSUME NEW h \in Handler, NEW s \in SessionId, LoginStart(h, s)
     PROVE TypeOK' /\ Busy'
  BY <1>17, SMT DEF LoginStart
<1>18. ASSUME NEW h \in Handler, NEW s \in SessionId, Request(h, s)
     PROVE TypeOK' /\ Busy'
  BY <1>18, SMT DEF Request
<1>19. ASSUME NEW h \in Handler, NEW s \in SessionId, Logout(h, s)
     PROVE TypeOK' /\ Busy'
  BY <1>19, SMT DEF Logout
<1>20. CASE UNCHANGED vars
  BY <1>20, SMT DEF vars
<1> QED
  BY NextCases, <1>1, <1>2, <1>3, <1>4, <1>5, <1>6, <1>7, <1>8, <1>9, <1>10,
     <1>11, <1>12, <1>13, <1>14, <1>15, <1>16, <1>17, <1>18, <1>19, <1>20,
     Zenon

(* No reading is further behind the clock than Pause, and Pause is at most *)
(* the timeout: an entry put or refreshed behind a sweep is not due by it. *)
LEMMA IdleStep ==
  ASSUME IdleInv, [Next]_vars
  PROVE  ReadingIsRecent' /\ SweptAtLastCheck' /\ SweptSoFar' /\ LookupIsChecked'
<1> DEFINE SweepFacts ==
             ReadingIsRecent /\ SweptAtLastCheck /\ SweptSoFar /\ LookupIsChecked
<1> USE TimeAssumption
<1> USE DEF IdleInv, TypeOK, Busy, ReadingIsRecent, SweptAtLastCheck, SweptSoFar,
            LookupIsChecked, registryVars, resourceVars, handlerVars, Goto,
            Return, ReadClock, Timed, InGetSession
<1>1. CASE Tick
  BY <1>1, SMT DEF Tick
<1>2. ASSUME NEW h \in Handler, Connect(h) PROVE SweepFacts'
  BY <1>2, SMT DEF Connect
<1>3. ASSUME NEW h \in Handler, ConnectFails(h) PROVE SweepFacts'
  BY <1>3, SMT DEF ConnectFails
<1>4. ASSUME NEW h \in Handler, Publish(h) PROVE SweepFacts'
  BY <1>4, SMT DEF Publish
<1>5. ASSUME NEW h \in Handler, Assign(h) PROVE SweepFacts'
  BY <1>5, SMT DEF Assign
<1>6. ASSUME NEW h \in Handler, Enter(h) PROVE SweepFacts'
  BY <1>6, SMT DEF Enter
<1>7. ASSUME NEW h \in Handler, Check(h) PROVE SweepFacts'
  BY <1>7, SMT DEF Check, SweepDue
<1>8. ASSUME NEW h \in Handler, Snapshot(h) PROVE SweepFacts'
  BY <1>8, SMT DEF Snapshot
<1>9. ASSUME NEW h \in Handler, Evict(h) PROVE SweepFacts'
  BY <1>9, SMT DEF Evict
<1>10. ASSUME NEW h \in Handler, SweepDone(h) PROVE SweepFacts'
  BY <1>10, SMT DEF SweepDone
<1>11. ASSUME NEW h \in Handler, LookupFound(h) PROVE SweepFacts'
  BY <1>11, SMT DEF LookupFound
<1>12. ASSUME NEW h \in Handler, LookupMissing(h) PROVE SweepFacts'
  BY <1>12, SMT DEF LookupMissing
<1>13. ASSUME NEW h \in Handler, Touch(h) PROVE SweepFacts'
  BY <1>13, SMT DEF Touch
<1>14. ASSUME NEW h \in Handler, Work(h) PROVE SweepFacts'
  BY <1>14, SMT DEF Work
<1>15. ASSUME NEW h \in Handler, Close(h) PROVE SweepFacts'
  BY <1>15, SMT DEF Close
<1>16. ASSUME NEW h \in Handler, NEW s \in SessionId, Inspect(h, s)
     PROVE SweepFacts'
  BY <1>16, SMT DEF Inspect, Expired
<1>17. ASSUME NEW h \in Handler, NEW s \in SessionId, LoginStart(h, s)
     PROVE SweepFacts'
  BY <1>17, SMT DEF LoginStart
<1>18. ASSUME NEW h \in Handler, NEW s \in SessionId, Request(h, s)
     PROVE SweepFacts'
  BY <1>18, SMT DEF Request
<1>19. ASSUME NEW h \in Handler, NEW s \in SessionId, Logout(h, s)
     PROVE SweepFacts'
  BY <1>19, SMT DEF Logout
<1>20. CASE UNCHANGED vars
  BY <1>20, SMT DEF vars
<1> QED
  BY NextCases, <1>1, <1>2, <1>3, <1>4, <1>5, <1>6, <1>7, <1>8, <1>9, <1>10,
     <1>11, <1>12, <1>13, <1>14, <1>15, <1>16, <1>17, <1>18, <1>19, <1>20,
     Zenon

LEMMA IdleInductive == Spec => []IdleInv
<1>1. IdleInv /\ [Next]_vars => IdleInv'
  BY TypeStep, IdleStep DEF IdleInv
<1> QED
  BY InitIdle, <1>1, PTL DEF Spec

(* The variables of the registry keep their types; no recorded reading of  *)
(* the clock is ahead of it.                                               *)
THEOREM TypeCorrect == Spec => []TypeOK
<1>1. IdleInv => TypeOK
  BY DEF IdleInv
<1> QED
  BY IdleInductive, <1>1, PTL

(* getSession never hands out a session that was idle for more than twice  *)
(* SESSION_TIMEOUT, for any number of handlers and sessions.               *)
THEOREM IdleBound == Spec => IdleAtMostTwice
<1> DEFINE Bounded == \A h \in Handler :
             LookupFound(h) => at[h] - lastAccess[cur[h]] <= 2 * Timeout
<1>1. IdleInv /\ [Next]_vars => Bounded
  BY TimeAssumption, SMT DEF IdleInv, TypeOK, Busy, LookupIsChecked, LookupFound
<1>2. IdleInv /\ [Next]_vars => [Bounded]_vars
  BY <1>1
<1> QED
  BY IdleInductive, <1>2, PTL DEF Spec, IdleAtMostTwice

(* The time of the last check moves only when every entry left in the map  *)
(* was looked at and found alive at that time.                             *)
THEOREM SweepIsComplete == Spec => CheckedMeansSwept
<1> DEFINE Swept == lastTimeoutCheck' # lastTimeoutCheck =>
             \A s \in sessions' : lastAccess'[s] + Timeout >= lastTimeoutCheck'
<1>1. ASSUME IdleInv, [Next]_vars PROVE Swept
  <2>1. SweptAtLastCheck'
    BY <1>1, IdleStep
  <2> QED
    BY <2>1 DEF SweptAtLastCheck
<1>2. IdleInv /\ [Next]_vars => [Swept]_vars
  BY <1>1
<1> QED
  BY IdleInductive, <1>2, PTL DEF Spec, CheckedMeansSwept

-----------------------------------------------------------------------------
(* Where the connections of sessions that left the map are.                *)

(* Everything a handler or the map mentions was drawn by a login.          *)
Drawn ==
  /\ sessions \subseteq serverSessions
  /\ \A h \in Handler :
       /\ todo[h] \subseteq serverSessions
       /\ pc[h] # "idle" => cur[h] \in serverSessions
       /\ pc[h] = "idle" => cur[h] = None
       /\ pc[h] = "evict" => victim[h] \in serverSessions
       /\ pc[h] # "evict" => victim[h] = None
  /\ \A s \in SessionId :
       conn[s] # "none" \/ sweptAt[s] # 0 => s \in serverSessions

(* Two calls work for the same id only when a client has been given it.    *)
Exclusive ==
  \A g, h \in Handler :
    g # h /\ cur[g] = cur[h] /\ cur[h] # None =>
      conn[cur[h]] \in {"assigned", "closed"}

(* Before it is published the id of a login is nowhere but in its hands.   *)
Unpublished ==
  \A h \in Handler : pc[h] \in {"connect", "publish"} =>
    /\ cur[h] \notin sessions /\ sweptAt[cur[h]] = 0
    /\ conn[cur[h]] = (IF pc[h] = "connect" THEN "none" ELSE "opened")
    /\ \A g \in Handler : cur[h] \notin todo[g] /\ victim[g] # cur[h]

(* Whatever the sweep found expired is so still, or was used since.        *)
VictimWasDue ==
  \A h \in Handler : pc[h] = "evict" =>
    Expired(victim[h], at[h]) \/ lastAccess[victim[h]] >= at[h]

(* What a sweep dropped was due when the sweeping call began.              *)
SweptWasDue ==
  \A s \in SessionId : sweptAt[s] # 0 =>
    s \notin sessions /\ (Expired(s, sweptAt[s]) \/ UsedDuringSweep(s))

(* A call that will still date a dropped session fetched it before.        *)
LateTouch ==
  \A h \in Handler : pc[h] = "touch" /\ sweptAt[cur[h]] # 0 =>
    at[h] <= sweptAt[cur[h]] + Pause

AssignIsRegistered ==
  \A h \in Handler :
    /\ pc[h] = "assign" => conn[cur[h]] = "opened"
    /\ pc[h] \in {"touch", "assign"} /\ conn[cur[h]] = "opened" =>
         cur[h] \in sessions \/ sweptAt[cur[h]] # 0

OrphanIsSwept == \A s \in SessionId : Orphan(s) => sweptAt[s] # 0

CloseIsRemoved ==
  \A h \in Handler : pc[h] = "close" =>
    cur[h] \notin sessions /\ conn[cur[h]] \in {"assigned", "closed"}

OrphanInv ==
  /\ Drawn /\ Exclusive /\ Unpublished /\ VictimWasDue /\ SweptWasDue /\ LateTouch
  /\ AssignIsRegistered /\ CloseIsRemoved /\ NoClosedSession /\ OrphanIsSwept

LEMMA InitOrphan == Init => OrphanInv
BY TimeAssumption, NoneAssumption, SMT
   DEF Init, OrphanInv, Drawn, Exclusive, Unpublished,
   VictimWasDue, SweptWasDue, LateTouch, AssignIsRegistered, CloseIsRemoved,
   NoClosedSession, OrphanIsSwept, Orphan

LEMMA OrphanStep ==
  ASSUME IdleInv, OrphanInv, [Next]_vars
  PROVE  OrphanInv'
<1> USE TimeAssumption, NoneAssumption
<1> USE DEF IdleInv, TypeOK, Busy, ReadingIsRecent, OrphanInv, registryVars,
            resourceVars, handlerVars, Goto, Return, ReadClock, Timed, InGetSession
<1> USE DEF Drawn, Exclusive, Unpublished, VictimWasDue, SweptWasDue, LateTouch,
            AssignIsRegistered, CloseIsRemoved, NoClosedSession, OrphanIsSwept,
            Orphan, UsedDuringSweep, Expired
<1>1. CASE Tick
  BY <1>1, SMT DEF Tick
<1>2. ASSUME NEW h \in Handler, Connect(h) PROVE OrphanInv'
  BY <1>2, SMT DEF Connect
<1>3. ASSUME NEW h \in Handler, ConnectFails(h) PROVE OrphanInv'
  BY <1>3, SMT DEF ConnectFails
<1>4. ASSUME NEW h \in Handler, Publish(h) PROVE OrphanInv'
  BY <1>4, SMT DEF Publish
<1>5. ASSUME NEW h \in Handler, Assign(h) PROVE OrphanInv'
  BY <1>5, SMT DEF Assign
<1>6. ASSUME NEW h \in Handler, Enter(h) PROVE OrphanInv'
  BY <1>6, SMT DEF Enter
<1>7. ASSUME NEW h \in Handler, Check(h) PROVE OrphanInv'
  BY <1>7, SMT DEF Check
<1>8. ASSUME NEW h \in Handler, Snapshot(h) PROVE OrphanInv'
  BY <1>8, SMT DEF Snapshot
<1>9. ASSUME NEW h \in Handler, Evict(h) PROVE OrphanInv'
  BY <1>9, SMT DEF Evict
<1>10. ASSUME NEW h \in Handler, SweepDone(h) PROVE OrphanInv'
  BY <1>10, SMT DEF SweepDone
<1>11. ASSUME NEW h \in Handler, LookupFound(h) PROVE OrphanInv'
  BY <1>11, SMT DEF LookupFound
<1>12. ASSUME NEW h \in Handler, LookupMissing(h) PROVE OrphanInv'
  BY <1>12, SMT DEF LookupMissing
<1>13. ASSUME NEW h \in Handler, Touch(h) PROVE OrphanInv'
  BY <1>13, SMT DEF Touch
<1>14. ASSUME NEW h \in Handler, Work(h) PROVE OrphanInv'
  BY <1>14, SMT DEF Work
<1>15. ASSUME NEW h \in Handler, Close(h) PROVE OrphanInv'
  BY <1>15, SMT DEF Close
<1>16. ASSUME NEW h \in Handler, NEW s \in SessionId, Inspect(h, s)
     PROVE OrphanInv'
  BY <1>16, SMT DEF Inspect, Known
<1>17. ASSUME NEW h \in Handler, NEW s \in SessionId, LoginStart(h, s)
     PROVE OrphanInv'
  BY <1>17, SMT DEF LoginStart, Known
<1>18. ASSUME NEW h \in Handler, NEW s \in SessionId, Request(h, s)
     PROVE OrphanInv'
  BY <1>18, SMT DEF Request, Known
<1>19. ASSUME NEW h \in Handler, NEW s \in SessionId, Logout(h, s)
     PROVE OrphanInv'
  BY <1>19, SMT DEF Logout, Known
<1>20. CASE UNCHANGED vars
  BY <1>20, SMT DEF vars
<1> QED
  BY NextCases, <1>1, <1>2, <1>3, <1>4, <1>5, <1>6, <1>7, <1>8, <1>9, <1>10,
     <1>11, <1>12, <1>13, <1>14, <1>15, <1>16, <1>17, <1>18, <1>19, <1>20,
     Zenon

-----------------------------------------------------------------------------
(* Calls run one after the other.                                          *)
OneBusy == \A g, h \in Handler : pc[g] # "idle" /\ pc[h] # "idle" => g = h

(* Every session in the map has had a connection.                          *)
RegisteredHasConn == \A s \in sessions : conn[s] # "none"

(* A connection that only login knows belongs to a login that is past      *)
(* Connect.                                                                *)
OpenedIsAtWork ==
  \A s \in SessionId : conn[s] = "opened" =>
    \E h \in Handler : cur[h] = s /\ pc[h] \notin {"idle", "connect", "work", "close"}

(* The session of such a login is in the map, just made, and no sweep of   *)
(* its own getSession takes it: less than a timeout passes meanwhile.      *)
FreshIsSafe ==
  \A h \in Handler :
    (pc[h] = "enter" \/ InGetSession(h)) /\ conn[cur[h]] = "opened" =>
      /\ cur[h] \in sessions /\ victim[h] # cur[h]
      /\ lastAccess[cur[h]] + Timeout >= at[h]
      /\ pc[h] = "enter" => lastAccess[cur[h]] >= at[h]

(* The session a call has fetched stays in the map until it has dated it.  *)
TouchIsRegistered ==
  \A h \in Handler : pc[h] = "touch" => cur[h] \in sessions

(* A sweep that runs alone drops nothing that was used since it began.     *)
AloneIsExpired ==
  /\ \A h \in Handler : pc[h] = "evict" => Expired(victim[h], at[h])
  /\ \A s \in SessionId : sweptAt[s] # 0 => Expired(s, sweptAt[s])

(* A sweep that runs alone finds every entry of its snapshot, so that it   *)
(* never ends its call.                                                    *)
SnapshotIsThere ==
  \A h \in Handler : pc[h] \in {"sweep", "evict"} => todo[h] \subseteq sessions

AloneInv ==
  /\ RegisteredHasConn /\ OpenedIsAtWork /\ FreshIsSafe /\ SnapshotIsThere
  /\ TouchIsRegistered /\ AloneIsExpired /\ WorkIsConnected

Inv == IdleInv /\ OrphanInv /\ (serial => OneBusy /\ AloneInv)
-----------------------------------------------------------------------------
LEMMA AloneStep ==
  ASSUME IdleInv, OrphanInv, AloneInv, OneBusy, OneBusy', [Next]_vars
  PROVE  AloneInv'
<1> USE TimeAssumption, NoneAssumption
<1> USE DEF IdleInv, TypeOK, Busy, ReadingIsRecent, OneBusy, registryVars,
            resourceVars, handlerVars, Goto, Return, ReadClock, Timed, InGetSession
<1> USE DEF OrphanInv, Drawn, Unpublished, SweptWasDue, AssignIsRegistered,
            NoClosedSession, Expired
<1> USE DEF AloneInv, RegisteredHasConn, OpenedIsAtWork, FreshIsSafe, SnapshotIsThere,
            TouchIsRegistered, AloneIsExpired, WorkIsConnected
<1>1. CASE Tick
  BY <1>1, SMT DEF Tick
<1>2. ASSUME NEW h \in Handler, Connect(h) PROVE AloneInv'
  BY <1>2, SMT DEF Connect
<1>3. ASSUME NEW h \in Handler, ConnectFails(h) PROVE AloneInv'
  BY <1>3, SMT DEF ConnectFails
<1>4. ASSUME NEW h \in Handler, Publish(h) PROVE AloneInv'
  BY <1>4, SMT DEF Publish
<1>5. ASSUME NEW h \in Handler, Assign(h) PROVE AloneInv'
  BY <1>5, SMT DEF Assign
<1>6. ASSUME NEW h \in Handler, Enter(h) PROVE AloneInv'
  BY <1>6, SMT DEF Enter
<1>7. ASSUME NEW h \in Handler, Check(h) PROVE AloneInv'
  BY <1>7, SMT DEF Check
<1>8. ASSUME NEW h \in Handler, Snapshot(h) PROVE AloneInv'
  BY <1>8, SMT DEF Snapshot
<1>9. ASSUME NEW h \in Handler, Evict(h) PROVE AloneInv'
  BY <1>9, SMT DEF Evict
<1>10. ASSUME NEW h \in Handler, SweepDone(h) PROVE AloneInv'
  BY <1>10, SMT DEF SweepDone
<1>11. ASSUME NEW h \in Handler, LookupFound(h) PROVE AloneInv'
  BY <1>11, SMT DEF LookupFound
<1>12. ASSUME NEW h \in Handler, LookupMissing(h) PROVE AloneInv'
  BY <1>12, SMT DEF LookupMissing
<1>13. ASSUME NEW h \in Handler, Touch(h) PROVE AloneInv'
  BY <1>13, SMT DEF Touch, ConnState
<1>14. ASSUME NEW h \in Handler, Work(h) PROVE AloneInv'
  BY <1>14, SMT DEF Work
<1>15. ASSUME NEW h \in Handler, Close(h) PROVE AloneInv'
  BY <1>15, SMT DEF Close
<1>16. ASSUME NEW h \in Handler, NEW s \in SessionId, Inspect(h, s)
     PROVE AloneInv'
  BY <1>16, SMT DEF Inspect
<1>17. ASSUME NEW h \in Handler, NEW s \in SessionId, LoginStart(h, s)
     PROVE AloneInv'
  BY <1>17, SMT DEF LoginStart
<1>18. ASSUME NEW h \in Handler, NEW s \in SessionId, Request(h, s)
     PROVE AloneInv'
  BY <1>18, SMT DEF Request, Known
<1>19. ASSUME NEW h \in Handler, NEW s \in SessionId, Logout(h, s)
     PROVE AloneInv'
  BY <1>19, SMT DEF Logout, Known
<1>20. CASE UNCHANGED vars
  BY <1>20, SMT DEF vars
<1> QED
  BY NextCases, <1>1, <1>2, <1>3, <1>4, <1>5, <1>6, <1>7, <1>8, <1>9, <1>10,
     <1>11, <1>12, <1>13, <1>14, <1>15, <1>16, <1>17, <1>18, <1>19, <1>20,
     Zenon

LEMMA InitInv == MCInit => Inv
<1> SUFFICES ASSUME MCInit
             PROVE  Inv
  OBVIOUS
<1>1. Init /\ IdleInv /\ OrphanInv
  BY InitIdle, InitOrphan DEF MCInit
<1>2. OneBusy /\ AloneInv
  BY <1>1 DEF Init, OneBusy, AloneInv, RegisteredHasConn, OpenedIsAtWork, FreshIsSafe,
     SnapshotIsThere, TouchIsRegistered, AloneIsExpired, WorkIsConnected, InGetSession
<1> QED
  BY <1>1, <1>2 DEF Inv

LEMMA NextInv == Inv /\ [MCNext]_<<vars, serial>> => Inv'
<1> SUFFICES ASSUME Inv, [MCNext]_<<vars, serial>>
             PROVE  Inv'
  OBVIOUS
<1>1. [Next]_vars /\ serial' = serial
  BY DEF MCNext
<1>2. IdleInv' /\ OrphanInv'
  BY <1>1, TypeStep, IdleStep, OrphanStep DEF Inv, IdleInv
<1>3. ASSUME serial
      PROVE  OneBusy'
  <2>1. CASE MCNext
    <3>1. \A h \in Handler : pc'[h] # "idle" => h = EventLoop
      BY <1>3, <2>1 DEF MCNext, Idle
    <3> QED
      BY <3>1 DEF OneBusy
  <2>2. CASE UNCHANGED <<vars, serial>>
    BY <1>3, <2>2 DEF vars, handlerVars, Inv, OneBusy
  <2> QED
    BY <2>1, <2>2
<1> QED
  BY <1>1, <1>2, <1>3, AloneStep DEF Inv

LEMMA RegistryInvariant == MCSpec => []Inv
<1> QED
  BY InitInv, NextInv, PTL DEF MCSpec

(* A connection nobody can reach any more was left by a sweep, never by a  *)
(* logout or a login; with calls one after the other the session was past  *)
(* its timeout, on the pool it was past it or in use during the sweep.     *)
THEOREM ConnectionsOfRemovedSessions == MCSpec => []OrphanIsExpired
<1>1. Inv => OrphanIsExpired
  <2> SUFFICES ASSUME Inv, NEW s \in SessionId, Orphan(s)
               PROVE  Expired(s, sweptAt[s]) \/ (~serial /\ UsedDuringSweep(s))
    BY DEF OrphanIsExpired
  <2>1. sweptAt[s] # 0
    BY DEF Inv, OrphanInv, OrphanIsSwept
  <2> QED
    BY <2>1 DEF Inv, OrphanInv, SweptWasDue, AloneInv, AloneIsExpired
<1> QED
  BY <1>1, RegistryInvariant, PTL

(* The map never hands out a session whose connection logout closed, on    *)
(* the event loop and on the pool.                                         *)
THEOREM ClosedAreGone == MCSpec => []NoClosedSession
<1>1. Inv => NoClosedSession
  BY DEF Inv, OrphanInv
<1> QED
  BY <1>1, RegistryInvariant, PTL

(* On the event loop a request that was given a session works on an open   *)
(* connection.                                                             *)
THEOREM RequestsAreConnected == MCSpec => []SerialWorkIsConnected
<1>1. Inv => SerialWorkIsConnected
  BY DEF Inv, AloneInv, SerialWorkIsConnected
<1> QED
  BY <1>1, RegistryInvariant, PTL

(* On the event loop no login dies with the connection it opened: its own  *)
(* getSession always finds the session it has just made.                   *)
THEOREM LoginsAreNotStranded == MCSpec => []SerialNoStrandedLogin
<1>1. Inv => SerialNoStrandedLogin
  BY DEF Inv, AloneInv, OpenedIsAtWork, SerialNoStrandedLogin, NoStrandedLogin
<1> QED
  BY <1>1, RegistryInvariant, PTL
=============================================================================
