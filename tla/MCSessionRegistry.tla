------------------------ MODULE MCSessionRegistry ------------------------
(* An instance of SessionRegistry for TLC with both ways the database runs *)
(* service calls: one after the other on an event loop, or at once on a    *)
(* pool of worker threads.  Which it is does not change while it runs.     *)
EXTENDS SessionRegistry, TLC

CONSTANTS
  Extra,     \* bound: ids only calls in sequence draw
  PoolTime   \* bound of the clock with calls at once

VARIABLE serial  \* calls run one after the other

EventLoop == CHOOSE h \in Handler : TRUE
Idle == {h \in Handler : pc[h] = "idle"}

MCInit == Init /\ serial \in BOOLEAN

MCNext ==
  /\ Next
  /\ UNCHANGED serial
  /\ serial => Handler \ Idle' \subseteq {EventLoop}
  /\ ~serial => serverSessions' \cap Extra = {} /\ now' <= PoolTime

MCSpec ==
  /\ MCInit
  /\ [][MCNext]_<<vars, serial>>
  /\ \A h \in Handler : WF_<<vars, serial>>(Step(h) /\ UNCHANGED serial)

(* A connection nobody can reach any more was left by a sweep: logout,     *)
(* also when it races a sweep or another logout, leaks none, and no login  *)
(* does.  With calls one after the other the sweep drops only what was     *)
(* idle for longer than the timeout.  On the pool it may drop a live       *)
(* session, but only one that was due when the sweeping call began and     *)
(* that another call used before the sweep got to remove it.               *)
OrphanIsExpired ==
  \A s \in SessionId :
    Orphan(s) => Expired(s, sweptAt[s]) \/ (~serial /\ UsedDuringSweep(s))

(* Calls one after the other: a request works on an open connection.       *)
SerialWorkIsConnected == serial => WorkIsConnected

(* Calls one after the other: no login dies with its connection open.      *)
SerialNoStrandedLogin == serial => NoStrandedLogin
=============================================================================
