------------------------- MODULE QueryServiceProofs -------------------------
(***************************************************************************)
(* Proofs about QueryService as MCQueryService runs it, for any sessions,  *)
(* handlers, scripts and number of calls: the types of its variables, on   *)
(* the event loop and on the pool, and what calls that run one after the   *)
(* other keep apart.                                                       *)
(***************************************************************************)
EXTENDS MCQueryService, SequenceTheorems, TLAPS

Request == [sid : Session, kind : {"query", "edit"}]
Busily(h) == pc[h] # "idle"

(* A handler that is at work has a call, and one that runs a statement has *)
(* it at the head of its script.                                           *)
CallInv ==
  \A h \in Handler : /\ Busily(h) => cur[h] \in 1 .. Len(reqs)
                     /\ Running(h) => script[h] # <<>>

TypeInv == TypeOK /\ CallInv

(* Calls run one after the other.                                          *)
OneBusy == \A g, h \in Handler : Busily(g) /\ Busily(h) => g = h

(* The field holds, for the length of a call, the session the call works   *)
(* for: the one a query names.                                             *)
FieldInv ==
  \A h \in Handler :
    /\ pc[h] \notin {"idle", "connection"} => field # None
    /\ Busily(h) /\ field # None => QueryOf(cur[h], field)

(* What is collected in a session belongs to the call at work or to edits, *)
(* whose answer leaves it there; no rows are without columns, which is     *)
(* what an answer looks at.                                                *)
Collected(s) == ToSet(cols[s]) \cup ToSet(rows[s])
CollectedInv ==
  \A s \in Session :
    /\ cols[s] = <<>> => rows[s] = <<>>
    /\ \A m \in Collected(s) :
         \/ reqs[m].kind = "edit"
         \/ \E h \in Handler : Busily(h) /\ cur[h] = m /\ field = s

(* What is registered runs, and runs for the session in the field.         *)
RegisteredInv ==
  \A s \in Session : executing[s] # None => Running(executing[s]) /\ field = s

SerialInv == FieldInv /\ CollectedInv /\ RegisteredInv /\ NothingForeign

Inv == TypeInv /\ (serial => OneBusy /\ SerialInv)
-----------------------------------------------------------------------------
(* About sequences and sets of what they hold.                             *)

LEMMA AppendedTo ==
  ASSUME NEW S, NEW f \in [Session -> Seq(S)], NEW s \in Session, NEW m \in S
  PROVE  [f EXCEPT ![s] = Append(@, m)] \in [Session -> Seq(S)]
<1>1. Append(f[s], m) \in Seq(S)
  BY AppendProperties
<1> QED
  BY <1>1

LEMMA ToSetAppend ==
  ASSUME NEW S, NEW q \in Seq(S), NEW m \in S
  PROVE  ToSet(Append(q, m)) = ToSet(q) \cup {m}
<1> DEFINE r == Append(q, m)
<1>1. /\ r \in Seq(S) /\ Len(r) = Len(q) + 1
      /\ \A i \in 1 .. Len(q) : r[i] = q[i]
      /\ r[Len(q) + 1] = m
  BY AppendProperties
<1>2. Len(q) \in Nat /\ DOMAIN q = 1 .. Len(q) /\ DOMAIN r = 1 .. Len(q) + 1
  BY <1>1, LenProperties
<1> HIDE DEF r
<1>3. DOMAIN r = DOMAIN q \cup {Len(q) + 1}
  BY <1>2
<1>4. ToSet(r) = {r[i] : i \in DOMAIN q} \cup {r[Len(q) + 1]}
  BY <1>3 DEF ToSet
<1>5. {r[i] : i \in DOMAIN q} = ToSet(q)
  BY <1>1, <1>2 DEF ToSet
<1> QED
  BY <1>1, <1>4, <1>5 DEF r

LEMMA ToSetEmpty == ToSet(<<>>) = {}
BY DEF ToSet

LEMMA AppendNotEmpty ==
  ASSUME NEW S, NEW q \in Seq(S), NEW m \in S
  PROVE  Append(q, m) # <<>>
BY AppendProperties, EmptySeq, LenProperties

LEMMA CollectedIsNumbered ==
  ASSUME TypeOK, NEW s \in Session
  PROVE  Collected(s) \subseteq 1 .. Len(reqs)
<1>1. cols[s] \in Seq(1 .. Len(reqs)) /\ rows[s] \in Seq(1 .. Len(reqs))
  BY DEF TypeOK
<1>2. ASSUME NEW q \in Seq(1 .. Len(reqs))
      PROVE  ToSet(q) \subseteq 1 .. Len(reqs)
  BY LenProperties, ElementOfSeq DEF ToSet
<1> QED
  BY <1>1, <1>2 DEF Collected

-----------------------------------------------------------------------------
(* A call begins: it gets the next number, the others keep theirs.         *)
LEMMA BeginStep ==
  ASSUME TypeInv, NEW h \in Handler, NEW s \in Session, NEW kind \in {"query", "edit"},
         Begin(h, s, kind)
  PROVE  /\ pc[h] = "idle"
         /\ reqs' \in Seq(Request)
         /\ Len(reqs) \in Nat /\ Len(reqs') = Len(reqs) + 1 /\ Len(reqs') <= MaxCalls
         /\ \A m \in 1 .. Len(reqs) : reqs'[m] = reqs[m]
         /\ reqs'[Len(reqs')] = [sid |-> s, kind |-> kind]
         /\ cur' = [cur EXCEPT ![h] = Len(reqs')]
         /\ cur' \in [Handler -> 0 .. Len(reqs')]
<1> DEFINE new == [sid |-> s, kind |-> kind]
<1>1. /\ pc[h] = "idle" /\ Len(reqs) < MaxCalls
      /\ reqs' = Append(reqs, new)
      /\ cur' = [cur EXCEPT ![h] = Len(reqs) + 1]
  BY DEF Begin
<1>2. new \in Request /\ reqs \in Seq(Request)
  BY DEF TypeInv, TypeOK, Request
<1>3. Len(reqs) \in Nat
  BY <1>2, LenProperties
<1>4. cur \in [Handler -> 0 .. Len(reqs)]
  BY DEF TypeInv, TypeOK
<1> HIDE DEF new
<1>5. /\ reqs' \in Seq(Request)
      /\ Len(reqs') = Len(reqs) + 1
      /\ \A m \in 1 .. Len(reqs) : reqs'[m] = reqs[m]
      /\ reqs'[Len(reqs) + 1] = new
  BY <1>1, <1>2, AppendProperties
<1>6. Len(reqs') <= MaxCalls
  BY <1>1, <1>3, <1>5, MaxCallsAssumption
<1>7. cur' \in [Handler -> 0 .. Len(reqs')]
  BY <1>1, <1>3, <1>4, <1>5
<1> QED
  BY <1>1, <1>3, <1>5, <1>6, <1>7 DEF new

(* What is numbered by a call stays so when calls are added.               *)
LEMMA DataGrows ==
  ASSUME TypeOK, Len(reqs) \in Nat, Len(reqs') = Len(reqs) + 1,
         UNCHANGED <<resultVars, history>>
  PROVE  /\ cols' \in [Session -> Seq(1 .. Len(reqs'))]
         /\ rows' \in [Session -> Seq(1 .. Len(reqs'))]
         /\ text' \in [Session -> 0 .. Len(reqs')]
         /\ result' \in [Session -> 0 .. Len(reqs')]
         /\ history' \in [Session -> SUBSET (1 .. Len(reqs'))]
<1>1. 1 .. Len(reqs) \subseteq 1 .. Len(reqs') /\ 0 .. Len(reqs) \subseteq 0 .. Len(reqs')
  OBVIOUS
<1>2. UNCHANGED <<cols, rows, text, result, history>>
  BY DEF resultVars
<1>3. Seq(1 .. Len(reqs)) \subseteq Seq(1 .. Len(reqs'))
  BY <1>1, SeqMonotonic
<1> QED
  BY <1>1, <1>2, <1>3, Zenon DEF TypeOK
(* Who began a call has one, and the calls at work are not touched.         *)
LEMMA BeganCalls ==
  ASSUME TypeInv, NEW h \in Handler,
         Len(reqs) \in Nat, Len(reqs') = Len(reqs) + 1,
         cur' = [cur EXCEPT ![h] = Len(reqs')],
         pc'[h] \in {"connection", "statement"},
         \A g \in Handler : g # h => pc'[g] = pc[g] /\ script'[g] = script[g]
  PROVE  CallInv'
<1> SUFFICES ASSUME NEW g \in Handler
             PROVE  /\ Busily(g)' => cur'[g] \in 1 .. Len(reqs')
                    /\ Running(g)' => script'[g] # <<>>
  BY DEF CallInv
<1>1. cur \in [Handler -> 0 .. Len(reqs)]
  BY DEF TypeInv, TypeOK
<1>2. CASE g = h
  <2>1. cur'[g] = Len(reqs') /\ ~Running(g)'
    BY <1>1, <1>2 DEF Running
  <2> QED
    BY <2>1
<1>3. CASE g # h
  <2>1. cur'[g] = cur[g] /\ pc'[g] = pc[g] /\ script'[g] = script[g]
    BY <1>1, <1>3
  <2> QED
    BY <2>1 DEF TypeInv, CallInv, Busily, Running
<1> QED
  BY <1>2, <1>3

(* Where a handler goes, and that the others stay where they are.          *)
LEMMA GotoStep ==
  ASSUME TypeOK, NEW h \in Handler, NEW l \in PC, Goto(h, l)
  PROVE  /\ pc' \in [Handler -> PC]
         /\ pc'[h] = l
         /\ \A g \in Handler : g # h => pc'[g] = pc[g]
BY DEF TypeOK, Goto

LEMMA ReturnStep ==
  ASSUME TypeOK, NEW h \in Handler, Return(h)
  PROVE  /\ pc' \in [Handler -> PC]
         /\ cur' \in [Handler -> 0 .. Len(reqs)]
         /\ conn' \in [Handler -> Session \cup {None}]
         /\ script' \in [Handler -> Seq(Statement)]
         /\ pc'[h] = "idle"
         /\ \A g \in Handler : g # h => /\ pc'[g] = pc[g] /\ cur'[g] = cur[g]
                                        /\ script'[g] = script[g]
<1>1. Len(reqs) \in Nat
  BY LenProperties DEF TypeOK
<1>2. << >> \in Seq(Statement)
  BY EmptySeq
<1>3. /\ pc' = [pc EXCEPT ![h] = "idle"]
      /\ cur' = [cur EXCEPT ![h] = 0]
      /\ conn' = [conn EXCEPT ![h] = None]
      /\ script' = [script EXCEPT ![h] = <<>>]
  BY DEF Return, Goto
<1>4. /\ pc' \in [Handler -> PC] /\ pc'[h] = "idle"
      /\ \A g \in Handler : g # h => pc'[g] = pc[g]
  BY <1>3 DEF TypeOK, PC
<1>5. /\ cur' \in [Handler -> 0 .. Len(reqs)]
      /\ \A g \in Handler : g # h => cur'[g] = cur[g]
  BY <1>1, <1>3 DEF TypeOK
<1>6. conn' \in [Handler -> Session \cup {None}]
  BY <1>3 DEF TypeOK
<1> HIDE DEF Statement
<1>7. /\ script' \in [Handler -> Seq(Statement)]
      /\ \A g \in Handler : g # h => script'[g] = script[g]
  BY <1>2, <1>3, Zenon DEF TypeOK
<1> QED
  BY <1>4, <1>5, <1>6, <1>7

(* A statement is done with.                                               *)
LEMMA TailStep ==
  ASSUME TypeOK, NEW h \in Handler, script[h] # <<>>,
         script' = [script EXCEPT ![h] = Tail(@)]
  PROVE  /\ script' \in [Handler -> Seq(Statement)]
         /\ \A g \in Handler : g # h => script'[g] = script[g]
<1>1. script \in [Handler -> Seq(Statement)]
  BY DEF TypeOK
<1>2. Tail(script[h]) \in Seq(Statement)
  BY <1>1, HeadTailProperties
<1> QED
  BY <1>1, <1>2

(* A result set is collected.                                              *)
LEMMA CollectStep ==
  ASSUME TypeInv, NEW h \in Handler, Busily(h), field # None
  PROVE  /\ field \in Session /\ cur[h] \in 1 .. Len(reqs)
         /\ [cols EXCEPT ![field] = Append(@, cur[h])] \in [Session -> Seq(1 .. Len(reqs))]
         /\ [rows EXCEPT ![field] = Append(@, cur[h])] \in [Session -> Seq(1 .. Len(reqs))]
<1>1. field \in Session /\ cur[h] \in 1 .. Len(reqs)
  BY DEF TypeInv, TypeOK, CallInv
<1>2. cols \in [Session -> Seq(1 .. Len(reqs))] /\ rows \in [Session -> Seq(1 .. Len(reqs))]
  BY DEF TypeInv, TypeOK
<1> QED
  BY <1>1, <1>2, AppendedTo

-----------------------------------------------------------------------------
(* Each step keeps the types.                                              *)

LEMMA QueryTypes ==
  ASSUME TypeInv, NEW h \in Handler, NEW s \in Session, NEW scr \in Scripts, Query(h, s, scr)
  PROVE  TypeInv'
<1>1. /\ Begin(h, s, "query")
      /\ field' = IF s \in alive THEN s ELSE None
      /\ script' = [script EXCEPT ![h] = scr]
      /\ Goto(h, "connection")
      /\ UNCHANGED <<alive, connected, executing, resultVars, history, conn>>
  BY DEF Query
<1>2. /\ pc[h] = "idle"
      /\ reqs' \in Seq(Request)
      /\ Len(reqs) \in Nat /\ Len(reqs') = Len(reqs) + 1 /\ Len(reqs') <= MaxCalls
      /\ cur' = [cur EXCEPT ![h] = Len(reqs')]
      /\ cur' \in [Handler -> 0 .. Len(reqs')]
  BY <1>1, BeginStep
<1>3. /\ pc' \in [Handler -> PC] /\ pc'[h] = "connection"
      /\ \A g \in Handler : g # h => pc'[g] = pc[g]
  BY <1>1, GotoStep DEF TypeInv, PC
<1>4. /\ script' \in [Handler -> Seq(Statement)]
      /\ \A g \in Handler : g # h => script'[g] = script[g]
  <2>1. scr \in Seq(Statement) /\ script \in [Handler -> Seq(Statement)]
    BY ScriptsAssumption DEF TypeInv, TypeOK
  <2> QED
    BY <1>1, <2>1
<1>5. TypeOK'
  BY <1>1, <1>2, <1>3, <1>4, DataGrows DEF TypeInv, TypeOK, Request
<1>6. CallInv'
  BY <1>2, <1>3, <1>4, BeganCalls
<1> QED
  BY <1>5, <1>6 DEF TypeInv

LEMMA EditResultTypes ==
  ASSUME TypeInv, NEW h \in Handler, NEW s \in Session, EditResult(h, s)
  PROVE  TypeInv'
<1>1. /\ Begin(h, s, "edit")
      /\ field # None
      /\ conn' = [conn EXCEPT ![h] = field]
      /\ script' = [script EXCEPT ![h] = <<"edit">>]
      /\ Goto(h, "statement")
      /\ UNCHANGED <<field, alive, connected, executing, resultVars, history>>
  BY DEF EditResult
<1>2. /\ pc[h] = "idle"
      /\ reqs' \in Seq(Request)
      /\ Len(reqs) \in Nat /\ Len(reqs') = Len(reqs) + 1 /\ Len(reqs') <= MaxCalls
      /\ cur' = [cur EXCEPT ![h] = Len(reqs')]
      /\ cur' \in [Handler -> 0 .. Len(reqs')]
  BY <1>1, BeginStep
<1>3. /\ pc' \in [Handler -> PC] /\ pc'[h] = "statement"
      /\ \A g \in Handler : g # h => pc'[g] = pc[g]
  BY <1>1, GotoStep DEF TypeInv, PC
<1>4. /\ script' \in [Handler -> Seq(Statement)]
      /\ \A g \in Handler : g # h => script'[g] = script[g]
  <2>1. <<"edit">> \in Seq(Statement) /\ script \in [Handler -> Seq(Statement)]
    BY DEF TypeInv, TypeOK, Statement
  <2> QED
    BY <1>1, <2>1
<1>5. conn' \in [Handler -> Session \cup {None}]
  BY <1>1 DEF TypeInv, TypeOK
<1>6. TypeOK'
  BY <1>1, <1>2, <1>3, <1>4, <1>5, DataGrows DEF TypeInv, TypeOK, Request
<1>7. CallInv'
  BY <1>2, <1>3, <1>4, BeganCalls
<1> QED
  BY <1>6, <1>7 DEF TypeInv
(* The calls at work keep theirs when one of them moves on.                *)
LEMMA SameCalls ==
  ASSUME TypeInv, NEW h \in Handler, Busily(h), UNCHANGED <<reqs, cur>>,
         Running(h)' => script'[h] # <<>>,
         \A g \in Handler : g # h => pc'[g] = pc[g] /\ script'[g] = script[g]
  PROVE  CallInv'
<1> SUFFICES ASSUME NEW g \in Handler
             PROVE  /\ Busily(g)' => cur'[g] \in 1 .. Len(reqs')
                    /\ Running(g)' => script'[g] # <<>>
  BY DEF CallInv
<1>1. CASE g = h
  BY <1>1 DEF TypeInv, CallInv
<1>2. CASE g # h
  <2>1. pc'[g] = pc[g] /\ script'[g] = script[g]
    BY <1>2
  <2> QED
    BY <2>1 DEF TypeInv, CallInv, Busily, Running
<1> QED
  BY <1>1, <1>2

LEMMA ReturnCalls ==
  ASSUME TypeInv, NEW h \in Handler, Return(h), UNCHANGED reqs
  PROVE  CallInv'
<1> SUFFICES ASSUME NEW g \in Handler
             PROVE  /\ Busily(g)' => cur'[g] \in 1 .. Len(reqs')
                    /\ Running(g)' => script'[g] # <<>>
  BY DEF CallInv
<1>1. /\ pc'[h] = "idle"
      /\ \A i \in Handler : i # h => /\ pc'[i] = pc[i] /\ cur'[i] = cur[i]
                                     /\ script'[i] = script[i]
  BY ReturnStep DEF TypeInv
<1>2. CASE g = h
  BY <1>1, <1>2 DEF Busily, Running
<1>3. CASE g # h
  <2>1. pc'[g] = pc[g] /\ cur'[g] = cur[g] /\ script'[g] = script[g]
    BY <1>1, <1>3
  <2> QED
    BY <2>1 DEF TypeInv, CallInv, Busily, Running
<1> QED
  BY <1>2, <1>3

LEMMA ConnectionTypes == ASSUME TypeInv, NEW h \in Handler, Connection(h) PROVE TypeInv'
<1>1. /\ pc[h] = "connection"
      /\ UNCHANGED <<field, alive, connected, executing, resultVars, history, reqs>>
  BY DEF Connection
<1>2. CASE Return(h)
  <2>1. TypeOK'
    BY <1>1, <1>2, ReturnStep DEF TypeInv, TypeOK, resultVars
  <2> QED
    BY <1>1, <1>2, <2>1, ReturnCalls DEF TypeInv
<1>3. CASE /\ field # None
           /\ conn' = [conn EXCEPT ![h] = field]
           /\ Goto(h, "statement")
           /\ UNCHANGED <<cur, script>>
  <2>1. /\ pc' \in [Handler -> PC] /\ pc'[h] = "statement"
        /\ \A g \in Handler : g # h => pc'[g] = pc[g]
    BY <1>3, GotoStep DEF TypeInv, PC
  <2>2. conn' \in [Handler -> Session \cup {None}]
    BY <1>3 DEF TypeInv, TypeOK
  <2>3. TypeOK'
    BY <1>1, <1>3, <2>1, <2>2 DEF TypeInv, TypeOK, resultVars
  <2>4. CallInv'
    <3>1. ~Running(h)' /\ Busily(h)
      BY <1>1, <2>1 DEF Running, Busily
    <3> QED
      BY <1>1, <1>3, <2>1, <3>1, SameCalls
  <2> QED
    BY <2>3, <2>4 DEF TypeInv
<1> QED
  BY <1>2, <1>3 DEF Connection

LEMMA CommandTypes == ASSUME TypeInv, NEW h \in Handler, Command(h) PROVE TypeInv'
<1>1. /\ pc[h] = "statement" /\ field # None /\ script[h] # <<>>
      /\ executing' = [executing EXCEPT ![field] = None]
      /\ script' = [script EXCEPT ![h] = Tail(@)]
      /\ UNCHANGED <<field, alive, connected, resultVars, history, reqs, pc, cur, conn>>
  BY DEF Command, ClearExecuting
<1>2. /\ script' \in [Handler -> Seq(Statement)]
      /\ \A g \in Handler : g # h => script'[g] = script[g]
  BY <1>1, TailStep DEF TypeInv
<1>3. executing' \in [Session -> Handler \cup {None}]
  BY <1>1 DEF TypeInv, TypeOK
<1>4. TypeOK'
  BY <1>1, <1>2, <1>3 DEF TypeInv, TypeOK, resultVars
<1>5. CallInv'
  <2>1. ~Running(h)' /\ Busily(h)
    BY <1>1 DEF Running, Busily
  <2> QED
    BY <1>1, <1>2, <2>1, SameCalls
<1> QED
  BY <1>4, <1>5 DEF TypeInv

LEMMA StartTypes == ASSUME TypeInv, NEW h \in Handler, Start(h) PROVE TypeInv'
<1>1. /\ pc[h] = "statement" /\ field # None /\ script[h] # <<>>
      /\ executing' = [executing EXCEPT ![field] = h]
      /\ Goto(h, "execute")
      /\ UNCHANGED <<field, alive, connected, resultVars, history, reqs, cur, conn, script>>
  BY DEF Start
<1>2. /\ pc' \in [Handler -> PC]
      /\ \A g \in Handler : g # h => pc'[g] = pc[g]
  BY <1>1, GotoStep DEF TypeInv, PC
<1>3. executing' \in [Session -> Handler \cup {None}]
  BY <1>1 DEF TypeInv, TypeOK
<1>4. TypeOK'
  BY <1>1, <1>2, <1>3 DEF TypeInv, TypeOK, resultVars
<1>5. CallInv'
  <2>1. Busily(h)
    BY <1>1 DEF Busily
  <2> QED
    BY <1>1, <1>2, <2>1, SameCalls
<1> QED
  BY <1>4, <1>5 DEF TypeInv

LEMMA ExecuteTypes == ASSUME TypeInv, NEW h \in Handler, Execute(h) PROVE TypeInv'
<1> DEFINE l == IF Head(script[h]) = "update" THEN "finally" ELSE "fetch"
<1>1. /\ pc[h] = "execute" /\ field # None
      /\ history' = [history EXCEPT ![field] = @ \cup {cur[h]}]
      /\ Goto(h, l)
      /\ UNCHANGED <<field, alive, connected, executing, resultVars, reqs, cur, conn, script>>
  BY DEF Execute
<1>2. l \in PC
  BY DEF PC
<1> HIDE DEF l
<1>3. /\ pc' \in [Handler -> PC]
      /\ \A g \in Handler : g # h => pc'[g] = pc[g]
  BY <1>1, <1>2, GotoStep DEF TypeInv
<1>4. Busily(h) /\ Running(h)
  BY <1>1 DEF Busily, Running
<1>5. history' \in [Session -> SUBSET (1 .. Len(reqs))]
  <2>1. field \in Session /\ cur[h] \in 1 .. Len(reqs)
    BY <1>1, <1>4 DEF TypeInv, TypeOK, CallInv
  <2> QED
    BY <1>1, <2>1 DEF TypeInv, TypeOK
<1>6. TypeOK'
  BY <1>1, <1>3, <1>5 DEF TypeInv, TypeOK, resultVars
<1>7. CallInv'
  BY <1>1, <1>3, <1>4, SameCalls DEF TypeInv, CallInv
<1> QED
  BY <1>6, <1>7 DEF TypeInv
LEMMA FetchTypes == ASSUME TypeInv, NEW h \in Handler, Fetch(h) PROVE TypeInv'
<1>1. /\ pc[h] = "fetch" /\ field # None
      /\ \/ UNCHANGED <<cols, rows>>
         \/ /\ cols' = [cols EXCEPT ![field] = Append(@, cur[h])]
            /\ rows' = [rows EXCEPT ![field] = Append(@, cur[h])]
      /\ \/ result' = result
         \/ result' = [result EXCEPT ![field] = cur[h]]
      /\ Goto(h, "finally")
      /\ UNCHANGED <<field, alive, connected, executing, text, history, reqs, cur, conn, script>>
  BY DEF Fetch
<1>2. /\ pc' \in [Handler -> PC]
      /\ \A g \in Handler : g # h => pc'[g] = pc[g]
  BY <1>1, GotoStep DEF TypeInv, PC
<1>3. Busily(h) /\ Running(h)
  BY <1>1 DEF Busily, Running
<1>4. /\ field \in Session /\ cur[h] \in 1 .. Len(reqs)
      /\ [cols EXCEPT ![field] = Append(@, cur[h])] \in [Session -> Seq(1 .. Len(reqs))]
      /\ [rows EXCEPT ![field] = Append(@, cur[h])] \in [Session -> Seq(1 .. Len(reqs))]
  BY <1>1, <1>3, CollectStep
<1>5. cols' \in [Session -> Seq(1 .. Len(reqs))] /\ rows' \in [Session -> Seq(1 .. Len(reqs))]
  BY <1>1, <1>4 DEF TypeInv, TypeOK
<1>6. result' \in [Session -> 0 .. Len(reqs)]
  <2>1. cur[h] \in 0 .. Len(reqs)
    BY DEF TypeInv, TypeOK
  <2> QED
    BY <1>1, <1>4, <2>1 DEF TypeInv, TypeOK
<1>7. TypeOK'
  BY <1>1, <1>2, <1>5, <1>6 DEF TypeInv, TypeOK
<1>8. CallInv'
  BY <1>1, <1>2, <1>3, SameCalls DEF TypeInv, CallInv
<1> QED
  BY <1>7, <1>8 DEF TypeInv

LEMMA FailTypes == ASSUME TypeInv, NEW h \in Handler, Fail(h) PROVE TypeInv'
<1>1. /\ pc[h] \in {"execute", "fetch"} /\ field # None
      /\ cols' \in {cols, [cols EXCEPT ![field] = Append(@, cur[h])]}
      /\ rows' \in {rows, [rows EXCEPT ![field] = Append(@, cur[h])]}
      /\ Goto(h, "finally")
      /\ UNCHANGED <<field, alive, connected, executing, text, result, history,
                     reqs, cur, conn, script>>
  BY DEF Fail, Leftover
<1>2. /\ pc' \in [Handler -> PC]
      /\ \A g \in Handler : g # h => pc'[g] = pc[g]
  BY <1>1, GotoStep DEF TypeInv, PC
<1>3. Busily(h) /\ Running(h)
  BY <1>1 DEF Busily, Running
<1>4. /\ [cols EXCEPT ![field] = Append(@, cur[h])] \in [Session -> Seq(1 .. Len(reqs))]
      /\ [rows EXCEPT ![field] = Append(@, cur[h])] \in [Session -> Seq(1 .. Len(reqs))]
  BY <1>1, <1>3, CollectStep
<1>5. cols' \in [Session -> Seq(1 .. Len(reqs))] /\ rows' \in [Session -> Seq(1 .. Len(reqs))]
  BY <1>1, <1>4 DEF TypeInv, TypeOK
<1>6. TypeOK'
  BY <1>1, <1>2, <1>5 DEF TypeInv, TypeOK
<1>7. CallInv'
  BY <1>1, <1>2, <1>3, SameCalls DEF TypeInv, CallInv
<1> QED
  BY <1>6, <1>7 DEF TypeInv

LEMMA FinallyTypes == ASSUME TypeInv, NEW h \in Handler, Finally(h) PROVE TypeInv'
<1>1. /\ pc[h] = "finally" /\ field # None
      /\ executing' = [executing EXCEPT ![field] = None]
      /\ script' = [script EXCEPT ![h] = Tail(@)]
      /\ Goto(h, "statement")
      /\ UNCHANGED <<field, alive, connected, resultVars, history, reqs, cur, conn>>
  BY DEF Finally, ClearExecuting
<1>2. Busily(h) /\ script[h] # <<>>
  BY <1>1 DEF Busily, Running, TypeInv, CallInv
<1>3. /\ pc' \in [Handler -> PC] /\ pc'[h] = "statement"
      /\ \A g \in Handler : g # h => pc'[g] = pc[g]
  BY <1>1, GotoStep DEF TypeInv, PC
<1>4. /\ script' \in [Handler -> Seq(Statement)]
      /\ \A g \in Handler : g # h => script'[g] = script[g]
  BY <1>1, <1>2, TailStep DEF TypeInv
<1>5. executing' \in [Session -> Handler \cup {None}]
  BY <1>1 DEF TypeInv, TypeOK
<1>6. TypeOK'
  BY <1>1, <1>3, <1>4, <1>5 DEF TypeInv, TypeOK, resultVars
<1>7. CallInv'
  <2>1. ~Running(h)'
    BY <1>3 DEF Running
  <2> QED
    BY <1>1, <1>2, <1>3, <1>4, <2>1, SameCalls
<1> QED
  BY <1>6, <1>7 DEF TypeInv

LEMMA FieldGoneTypes == ASSUME TypeInv, NEW h \in Handler, FieldGone(h) PROVE TypeInv'
<1>1. /\ Return(h)
      /\ UNCHANGED <<field, alive, connected, executing, resultVars, history, reqs>>
  BY DEF FieldGone
<1>2. TypeOK'
  BY <1>1, ReturnStep DEF TypeInv, TypeOK, resultVars
<1> QED
  BY <1>1, <1>2, ReturnCalls DEF TypeInv

LEMMA AnswerTypes == ASSUME TypeInv, NEW h \in Handler, Answer(h) PROVE TypeInv'
<1>1. /\ text' = [text EXCEPT ![field] = cur[h]]
      /\ cols' \in {cols, [cols EXCEPT ![field] = <<>>]}
      /\ rows' \in {rows, [rows EXCEPT ![field] = <<>>]}
      /\ Return(h)
      /\ UNCHANGED <<field, alive, connected, executing, result, history, reqs>>
  BY DEF Answer
<1>2. << >> \in Seq(1 .. Len(reqs)) /\ cur[h] \in 0 .. Len(reqs)
  BY EmptySeq DEF TypeInv, TypeOK
<1>3. text' \in [Session -> 0 .. Len(reqs)]
  BY <1>1, <1>2 DEF TypeInv, TypeOK
<1>4. cols' \in [Session -> Seq(1 .. Len(reqs))] /\ rows' \in [Session -> Seq(1 .. Len(reqs))]
  BY <1>1, <1>2, Zenon DEF TypeInv, TypeOK
<1>5. TypeOK'
  BY <1>1, <1>3, <1>4, ReturnStep DEF TypeInv, TypeOK
<1> QED
  BY <1>1, <1>5, ReturnCalls DEF TypeInv

LEMMA EditAnswerTypes == ASSUME TypeInv, NEW h \in Handler, EditAnswer(h) PROVE TypeInv'
<1>1. /\ text' = [text EXCEPT ![field] = cur[h]]
      /\ Return(h)
      /\ UNCHANGED <<field, alive, connected, executing, cols, rows, result, history, reqs>>
  BY DEF EditAnswer
<1>2. text' \in [Session -> 0 .. Len(reqs)]
  BY <1>1 DEF TypeInv, TypeOK
<1>3. TypeOK'
  BY <1>1, <1>2, ReturnStep DEF TypeInv, TypeOK
<1> QED
  BY <1>1, <1>3, ReturnCalls DEF TypeInv

(* Logout and Expire, and stuttering: no call is touched.                  *)
LEMMA SessionTypes ==
  ASSUME TypeInv, alive' \subseteq Session, connected' \subseteq Session,
         UNCHANGED <<field, executing, resultVars, history, reqs, callVars>>
  PROVE  TypeInv'
BY DEF TypeInv, TypeOK, CallInv, Busily, Running, resultVars, callVars

LEMMA InitTypes == Init => TypeInv
<1> SUFFICES ASSUME Init
             PROVE  TypeInv
  OBVIOUS
<1>1. Len(reqs) = 0 /\ reqs \in Seq(Request)
  <2>1. reqs = << >>
    BY DEF Init
  <2> QED
    BY <2>1, EmptySeq
<1>2. << >> \in Seq(1 .. Len(reqs)) /\ << >> \in Seq(Statement)
  BY EmptySeq
<1>3. 0 \in 0 .. Len(reqs) /\ {} \in SUBSET (1 .. Len(reqs)) /\ Len(reqs) <= MaxCalls
  BY <1>1, MaxCallsAssumption
<1>4. /\ cols \in [Session -> Seq(1 .. Len(reqs))]
      /\ rows \in [Session -> Seq(1 .. Len(reqs))]
      /\ text \in [Session -> 0 .. Len(reqs)]
      /\ result \in [Session -> 0 .. Len(reqs)]
      /\ history \in [Session -> SUBSET (1 .. Len(reqs))]
  BY <1>2, <1>3, Zenon DEF Init
<1>5. /\ pc \in [Handler -> PC]
      /\ cur \in [Handler -> 0 .. Len(reqs)]
      /\ conn \in [Handler -> Session \cup {None}]
      /\ script \in [Handler -> Seq(Statement)]
  BY <1>2, <1>3, Zenon DEF Init, PC
<1>6. /\ field \in Session \cup {None}
      /\ alive \subseteq Session /\ connected \subseteq Session
      /\ executing \in [Session -> Handler \cup {None}]
  BY DEF Init
<1>7. CallInv
  BY DEF Init, CallInv, Busily, Running
<1> QED
  BY <1>1, <1>3, <1>4, <1>5, <1>6, <1>7 DEF TypeInv, TypeOK, Request

LEMMA NextTypes == TypeInv /\ [Next]_vars => TypeInv'
<1> SUFFICES ASSUME TypeInv, [Next]_vars
             PROVE  TypeInv'
  OBVIOUS
<1>1. ASSUME NEW h \in Handler, Step(h)
      PROVE  TypeInv'
  BY <1>1, ConnectionTypes, CommandTypes, StartTypes, ExecuteTypes, FetchTypes, FailTypes,
     FinallyTypes, FieldGoneTypes, AnswerTypes, EditAnswerTypes DEF Step
<1>2. ASSUME NEW h \in Handler, NEW s \in Session, NEW scr \in Scripts, Query(h, s, scr)
      PROVE  TypeInv'
  BY <1>2, QueryTypes
<1>3. ASSUME NEW h \in Handler, NEW s \in Session, EditResult(h, s)
      PROVE  TypeInv'
  BY <1>3, EditResultTypes
<1>4. ASSUME NEW h \in Handler, NEW s \in Session, Logout(h, s) \/ Expire(h, s)
      PROVE  TypeInv'
  <2>1. /\ alive' \subseteq Session /\ connected' \subseteq Session
        /\ UNCHANGED <<field, executing, resultVars, history, reqs, callVars>>
    BY <1>4 DEF Logout, Expire, TypeInv, TypeOK
  <2> QED
    BY <2>1, SessionTypes
<1>5. CASE UNCHANGED vars
  <2>1. /\ alive' \subseteq Session /\ connected' \subseteq Session
        /\ UNCHANGED <<field, executing, resultVars, history, reqs, callVars>>
    BY <1>5 DEF vars, TypeInv, TypeOK
  <2> QED
    BY <2>1, SessionTypes
<1> QED
  BY <1>1, <1>2, <1>3, <1>4, <1>5 DEF Next
-----------------------------------------------------------------------------
(* Calls one after the other: what a step that leaves a part alone keeps.  *)

LEMMA FieldKeeps ==
  ASSUME FieldInv, NEW h \in Handler, Busily(h), field # None, UNCHANGED <<field, reqs>>,
         \A g \in Handler : g # h => pc'[g] = pc[g] /\ cur'[g] = cur[g],
         Busily(h)' => cur'[h] = cur[h]
  PROVE  FieldInv'
BY DEF FieldInv, Busily, QueryOf

LEMMA RegisteredKeeps ==
  ASSUME TypeInv, RegisteredInv, NEW h \in Handler, UNCHANGED <<field, executing>>,
         \A g \in Handler : g # h => pc'[g] = pc[g],
         Running(h) => Running(h)'
  PROVE  RegisteredInv'
<1> SUFFICES ASSUME NEW s \in Session, executing[s] # None
             PROVE  Running(executing[s])' /\ field' = s
  BY DEF RegisteredInv, Running
<1>1. executing[s] \in Handler /\ Running(executing[s]) /\ field = s
  BY DEF TypeInv, TypeOK, RegisteredInv
<1>2. CASE executing[s] = h
  BY <1>1, <1>2 DEF Running
<1>3. CASE executing[s] # h
  BY <1>1, <1>3 DEF Running
<1> QED
  BY <1>2, <1>3

LEMMA CollectedKeeps ==
  ASSUME CollectedInv, UNCHANGED <<field, reqs, cols, rows>>,
         \A g \in Handler : Busily(g) => Busily(g)' /\ cur'[g] = cur[g]
  PROVE  CollectedInv'
BY DEF CollectedInv, Collected

LEMMA ForeignKeeps ==
  ASSUME NothingForeign, UNCHANGED <<resultVars, history, reqs>>
  PROVE  NothingForeign'
BY DEF NothingForeign, QueryOf, resultVars

(* A call begins when nobody is at work.                                   *)
LEMMA BeginKeeps ==
  ASSUME TypeInv, SerialInv, OneBusy',
         NEW h \in Handler, NEW s \in Session, NEW kind \in {"query", "edit"},
         Begin(h, s, kind), Busily(h)',
         \A g \in Handler : g # h => pc'[g] = pc[g],
         UNCHANGED <<executing, resultVars, history>>
  PROVE  /\ \A g \in Handler : g # h => ~Busily(g)'
         /\ CollectedInv' /\ RegisteredInv' /\ NothingForeign'
<1>1. /\ pc[h] = "idle"
      /\ Len(reqs) \in Nat /\ Len(reqs') = Len(reqs) + 1
      /\ \A m \in 1 .. Len(reqs) : reqs'[m] = reqs[m]
  BY BeginStep
<1>2. \A g \in Handler : g # h => ~Busily(g)'
  BY DEF OneBusy
<1>3. \A g \in Handler : pc[g] = "idle"
  BY <1>1, <1>2 DEF Busily
<1>4. UNCHANGED <<cols, rows, text, result, history>>
  BY DEF resultVars
<1>5. \A t \in Session : Collected(t) \subseteq 1 .. Len(reqs) /\ Collected(t)' = Collected(t)
  BY <1>4, CollectedIsNumbered DEF TypeInv, Collected
<1>6. CollectedInv'
  <2>1. \A t \in Session : \A m \in Collected(t) : reqs[m].kind = "edit"
    BY <1>3 DEF SerialInv, CollectedInv, Busily
  <2>2. \A t \in Session : \A m \in Collected(t)' : reqs'[m].kind = "edit"
    BY <1>1, <1>5, <2>1
  <2> QED
    BY <1>4, <2>2 DEF SerialInv, CollectedInv
<1>7. RegisteredInv'
  <2>1. ASSUME NEW t \in Session, executing[t] # None
        PROVE  FALSE
    <3>1. executing[t] \in Handler
      BY <2>1 DEF TypeInv, TypeOK
    <3> QED
      BY <1>3, <2>1, <3>1 DEF SerialInv, RegisteredInv, Running
  <2> QED
    BY <2>1 DEF RegisteredInv
<1>8. NothingForeign'
  <2> SUFFICES ASSUME NEW t \in Session
               PROVE  /\ \A m \in Collected(t)' \cup history'[t] : QueryOf(m, t)'
                      /\ \A m \in {text'[t], result'[t]} \ {0} : QueryOf(m, t)'
    BY DEF NothingForeign, Collected
  <2>1. \A m \in 1 .. Len(reqs) : QueryOf(m, t) => QueryOf(m, t)'
    BY <1>1 DEF QueryOf
  <2>2. \A m \in Collected(t) \cup history[t] : QueryOf(m, t) /\ m \in 1 .. Len(reqs)
    BY <1>5 DEF SerialInv, NothingForeign, Collected, TypeInv, TypeOK
  <2>3. \A m \in {text[t], result[t]} \ {0} : QueryOf(m, t) /\ m \in 1 .. Len(reqs)
    <3>1. \A m \in {text[t], result[t]} \ {0} : QueryOf(m, t)
      BY DEF SerialInv, NothingForeign
    <3>2. text[t] \in 0 .. Len(reqs) /\ result[t] \in 0 .. Len(reqs)
      BY DEF TypeInv, TypeOK
    <3> QED
      BY <1>1, <3>1, <3>2
  <2> QED
    BY <1>4, <1>5, <2>1, <2>2, <2>3
<1> QED
  BY <1>2, <1>6, <1>7, <1>8

LEMMA QuerySerial ==
  ASSUME TypeInv, SerialInv, OneBusy',
         NEW h \in Handler, NEW s \in Session, NEW scr \in Scripts, Query(h, s, scr)
  PROVE  SerialInv'
<1>1. /\ Begin(h, s, "query") /\ Goto(h, "connection")
      /\ field' = IF s \in alive THEN s ELSE None
      /\ UNCHANGED <<executing, resultVars, history>>
  BY DEF Query
<1>2. /\ pc'[h] = "connection"
      /\ \A g \in Handler : g # h => pc'[g] = pc[g]
  BY <1>1, GotoStep DEF TypeInv, PC
<1>3. Busily(h)'
  BY <1>2 DEF Busily
<1>4. /\ \A g \in Handler : g # h => ~Busily(g)'
      /\ CollectedInv' /\ RegisteredInv' /\ NothingForeign'
  BY <1>1, <1>2, <1>3, BeginKeeps
<1>5. /\ reqs'[Len(reqs')] = [sid |-> s, kind |-> "query"]
      /\ cur' = [cur EXCEPT ![h] = Len(reqs')]
  BY <1>1, BeginStep
<1>6. cur'[h] = Len(reqs')
  BY <1>5 DEF TypeInv, TypeOK
<1>7. FieldInv'
  <2>1. field' # None => QueryOf(cur[h], field)'
    BY <1>1, <1>5, <1>6 DEF QueryOf
  <2> QED
    BY <1>2, <1>4, <2>1 DEF FieldInv, Busily
<1> QED
  BY <1>4, <1>7 DEF SerialInv

LEMMA EditResultSerial ==
  ASSUME TypeInv, SerialInv, OneBusy', NEW h \in Handler, NEW s \in Session, EditResult(h, s)
  PROVE  SerialInv'
<1>1. /\ Begin(h, s, "edit") /\ Goto(h, "statement")
      /\ field # None /\ field' = field
      /\ UNCHANGED <<executing, resultVars, history>>
  BY DEF EditResult
<1>2. /\ pc'[h] = "statement"
      /\ \A g \in Handler : g # h => pc'[g] = pc[g]
  BY <1>1, GotoStep DEF TypeInv, PC
<1>3. Busily(h)'
  BY <1>2 DEF Busily
<1>4. /\ \A g \in Handler : g # h => ~Busily(g)'
      /\ CollectedInv' /\ RegisteredInv' /\ NothingForeign'
  BY <1>1, <1>2, <1>3, BeginKeeps
<1>5. /\ reqs'[Len(reqs')] = [sid |-> s, kind |-> "edit"]
      /\ cur' = [cur EXCEPT ![h] = Len(reqs')]
  BY <1>1, BeginStep
<1>6. cur'[h] = Len(reqs')
  BY <1>5 DEF TypeInv, TypeOK
<1>7. FieldInv'
  <2>1. QueryOf(cur[h], field)'
    BY <1>5, <1>6 DEF QueryOf
  <2> QED
    BY <1>1, <1>4, <2>1 DEF FieldInv, Busily
<1> QED
  BY <1>4, <1>7 DEF SerialInv
(* A statement of the call at work leaves what it collects.                *)
LEMMA CollectSerial ==
  ASSUME TypeInv, CollectedInv, NEW h \in Handler, Busily(h), Busily(h)', field # None,
         UNCHANGED <<field, reqs, cur>>,
         \A g \in Handler : g # h => pc'[g] = pc[g],
         cols' \in {cols, [cols EXCEPT ![field] = Append(@, cur[h])]},
         rows' \in {rows, [rows EXCEPT ![field] = Append(@, cur[h])]},
         rows' = rows \/ cols' = [cols EXCEPT ![field] = Append(@, cur[h])]
  PROVE  /\ \A s \in Session : \A m \in Collected(s)' :
              m \in Collected(s) \/ (m = cur[h] /\ s = field)
         /\ CollectedInv'
<1>1. field \in Session /\ cur[h] \in 1 .. Len(reqs)
  BY CollectStep
<1>2. cols \in [Session -> Seq(1 .. Len(reqs))] /\ rows \in [Session -> Seq(1 .. Len(reqs))]
  BY DEF TypeInv, TypeOK
<1> DEFINE more(f) == [f EXCEPT ![field] = Append(@, cur[h])]
<1>3. ASSUME NEW f \in [Session -> Seq(1 .. Len(reqs))], NEW s \in Session
      PROVE  /\ s # field => more(f)[s] = f[s]
             /\ ToSet(more(f)[field]) = ToSet(f[field]) \cup {cur[h]}
             /\ more(f)[field] # <<>>
  <2>1. more(f)[field] = Append(f[field], cur[h]) /\ f[field] \in Seq(1 .. Len(reqs))
    BY <1>1
  <2>2. s # field => more(f)[s] = f[s]
    OBVIOUS
  <2>3. /\ ToSet(Append(f[field], cur[h])) = ToSet(f[field]) \cup {cur[h]}
        /\ Append(f[field], cur[h]) # <<>>
    <3> DEFINE Numbers == 1 .. Len(reqs)
    <3>1. f[field] \in Seq(Numbers) /\ cur[h] \in Numbers
      BY <1>1, <2>1
    <3> HIDE DEF Numbers, more
    <3>2. ToSet(Append(f[field], cur[h])) = ToSet(f[field]) \cup {cur[h]}
      BY <3>1, ToSetAppend
    <3>3. Append(f[field], cur[h]) # <<>>
      BY <3>1, AppendNotEmpty, Zenon
    <3> QED
      BY <3>2, <3>3
  <2> HIDE DEF more
  <2> QED
    BY <2>1, <2>2, <2>3
<1>4. /\ cols' \in {cols, more(cols)} /\ rows' \in {rows, more(rows)}
      /\ rows' = rows \/ cols' = more(cols)
  OBVIOUS
<1> HIDE DEF more
<1>5. ASSUME NEW s \in Session, NEW m \in Collected(s)'
      PROVE  m \in Collected(s) \/ (m = cur[h] /\ s = field)
  <2>1. m \in ToSet(cols'[s]) \/ m \in ToSet(rows'[s])
    BY <1>5 DEF Collected
  <2>2. ASSUME NEW f \in [Session -> Seq(1 .. Len(reqs))], NEW g \in {f, more(f)},
               m \in ToSet(g[s])
        PROVE  m \in ToSet(f[s]) \/ (m = cur[h] /\ s = field)
    BY <1>3, <2>2
  <2> QED
    BY <1>2, <1>4, <2>1, <2>2 DEF Collected
<1>6. ASSUME NEW s \in Session, cols'[s] = <<>>
      PROVE  rows'[s] = <<>>
  <2>1. CASE s = field
    <3>1. cols' # more(cols)
      BY <1>2, <1>3, <1>6, <2>1
    <3>2. cols' = cols /\ rows' = rows
      BY <1>4, <3>1
    <3> QED
      BY <1>6, <3>2 DEF CollectedInv
  <2>2. CASE s # field
    <3>1. cols'[s] = cols[s] /\ rows'[s] = rows[s]
      BY <1>2, <1>3, <1>4, <2>2
    <3> QED
      BY <1>6, <3>1 DEF CollectedInv
  <2> QED
    BY <2>1, <2>2
<1>7. CollectedInv'
  <2> SUFFICES ASSUME NEW s \in Session, NEW m \in Collected(s)', reqs[m].kind # "edit"
               PROVE  \E g \in Handler : Busily(g)' /\ cur[g] = m /\ field = s
    BY <1>6 DEF CollectedInv
  <2>1. CASE m \in Collected(s)
    <3>1. PICK g \in Handler : Busily(g) /\ cur[g] = m /\ field = s
      BY <2>1 DEF CollectedInv
    <3>2. Busily(g)'
      BY <3>1 DEF Busily
    <3> QED
      BY <3>1, <3>2
  <2>2. CASE m = cur[h] /\ s = field
    BY <2>2
  <2> QED
    BY <1>5, <2>1, <2>2
<1> QED
  BY <1>5, <1>7

LEMMA ConnectionSerial ==
  ASSUME TypeInv, SerialInv, OneBusy, NEW h \in Handler, Connection(h)
  PROVE  SerialInv'
<1>1. /\ pc[h] = "connection"
      /\ UNCHANGED <<field, executing, resultVars, history, reqs>>
  BY DEF Connection
<1>2. Busily(h) /\ ~Running(h) /\ UNCHANGED <<cols, rows>>
  BY <1>1 DEF Busily, Running, resultVars
<1>3. NothingForeign'
  BY <1>1, ForeignKeeps DEF SerialInv
<1>4. CASE field = None /\ Return(h)
  <2>1. /\ pc'[h] = "idle"
        /\ \A g \in Handler : g # h => pc'[g] = pc[g]
    BY <1>4, ReturnStep DEF TypeInv
  <2>2. \A g \in Handler : pc'[g] = "idle"
    BY <1>2, <2>1 DEF OneBusy, Busily
  <2>3. FieldInv'
    BY <2>2 DEF FieldInv, Busily
  <2>4. CollectedInv'
    BY <1>1, <1>2, <1>4, NullAssumption DEF SerialInv, CollectedInv, Collected
  <2>5. RegisteredInv'
    BY <1>1, <1>2, <2>1, RegisteredKeeps DEF SerialInv
  <2> QED
    BY <1>3, <2>3, <2>4, <2>5 DEF SerialInv
<1>5. CASE field # None /\ Goto(h, "statement") /\ UNCHANGED cur
  <2>1. /\ pc'[h] = "statement"
        /\ \A g \in Handler : g # h => pc'[g] = pc[g]
    BY <1>5, GotoStep DEF TypeInv, PC
  <2>2. FieldInv'
    BY <1>1, <1>2, <1>5, <2>1, FieldKeeps DEF SerialInv
  <2>3. CollectedInv'
    <3>1. \A g \in Handler : Busily(g) => Busily(g)'
      BY <2>1 DEF Busily
    <3> QED
      BY <1>1, <1>2, <1>5, <3>1, CollectedKeeps DEF SerialInv
  <2>4. RegisteredInv'
    BY <1>1, <1>2, <2>1, RegisteredKeeps DEF SerialInv
  <2> QED
    BY <1>3, <2>2, <2>3, <2>4 DEF SerialInv
<1> QED
  BY <1>4, <1>5 DEF Connection

(* A statement is unregistered: then none is.                              *)
LEMMA ClearedRegistered ==
  ASSUME TypeInv, RegisteredInv, field # None, UNCHANGED field,
         executing' = [executing EXCEPT ![field] = None]
  PROVE  RegisteredInv'
<1> SUFFICES ASSUME NEW s \in Session
             PROVE  executing'[s] = None
  BY DEF RegisteredInv
<1>1. executing \in [Session -> Handler \cup {None}]
  BY DEF TypeInv, TypeOK
<1>2. CASE s = field
  BY <1>1, <1>2
<1>3. CASE s # field
  BY <1>1, <1>3 DEF RegisteredInv
<1> QED
  BY <1>2, <1>3

LEMMA CommandSerial ==
  ASSUME TypeInv, SerialInv, NEW h \in Handler, Command(h)
  PROVE  SerialInv'
<1>1. /\ pc[h] = "statement" /\ field # None
      /\ executing' = [executing EXCEPT ![field] = None]
      /\ UNCHANGED <<field, resultVars, history, reqs, pc, cur>>
  BY DEF Command, ClearExecuting
<1>2. Busily(h) /\ UNCHANGED <<cols, rows>> /\ \A g \in Handler : Busily(g) => Busily(g)'
  BY <1>1 DEF Busily, resultVars
<1>3. FieldInv' /\ CollectedInv'
  BY <1>1, <1>2, FieldKeeps, CollectedKeeps DEF SerialInv
<1>4. RegisteredInv'
  BY <1>1, ClearedRegistered DEF SerialInv
<1> QED
  BY <1>1, <1>3, <1>4, ForeignKeeps DEF SerialInv

LEMMA FinallySerial ==
  ASSUME TypeInv, SerialInv, NEW h \in Handler, Finally(h)
  PROVE  SerialInv'
<1>1. /\ pc[h] = "finally" /\ field # None /\ Goto(h, "statement")
      /\ executing' = [executing EXCEPT ![field] = None]
      /\ UNCHANGED <<field, resultVars, history, reqs, cur>>
  BY DEF Finally, ClearExecuting
<1>2. /\ pc'[h] = "statement"
      /\ \A g \in Handler : g # h => pc'[g] = pc[g]
  BY <1>1, GotoStep DEF TypeInv, PC
<1>3. Busily(h) /\ UNCHANGED <<cols, rows>> /\ \A g \in Handler : Busily(g) => Busily(g)'
  BY <1>1, <1>2 DEF Busily, resultVars
<1>4. FieldInv' /\ CollectedInv'
  BY <1>1, <1>2, <1>3, FieldKeeps, CollectedKeeps DEF SerialInv
<1>5. RegisteredInv'
  BY <1>1, ClearedRegistered DEF SerialInv
<1> QED
  BY <1>1, <1>4, <1>5, ForeignKeeps DEF SerialInv
LEMMA StartSerial ==
  ASSUME TypeInv, SerialInv, OneBusy, NEW h \in Handler, Start(h)
  PROVE  SerialInv'
<1>1. /\ pc[h] = "statement" /\ field # None /\ Goto(h, "execute")
      /\ executing' = [executing EXCEPT ![field] = h]
      /\ UNCHANGED <<field, resultVars, history, reqs, cur>>
  BY DEF Start
<1>2. /\ pc'[h] = "execute"
      /\ \A g \in Handler : g # h => pc'[g] = pc[g]
  BY <1>1, GotoStep DEF TypeInv, PC
<1>3. Busily(h) /\ UNCHANGED <<cols, rows>> /\ \A g \in Handler : Busily(g) => Busily(g)'
  BY <1>1, <1>2 DEF Busily, resultVars
<1>4. FieldInv' /\ CollectedInv'
  BY <1>1, <1>2, <1>3, FieldKeeps, CollectedKeeps DEF SerialInv
<1>5. RegisteredInv'
  <2> SUFFICES ASSUME NEW s \in Session, executing'[s] # None
               PROVE  Running(executing[s])' /\ field' = s
    BY DEF RegisteredInv, Running
  <2>1. executing \in [Session -> Handler \cup {None}]
    BY DEF TypeInv, TypeOK
  <2>2. CASE s = field
    BY <1>1, <1>2, <2>1, <2>2 DEF Running
  <2>3. CASE s # field
    <3>1. executing'[s] = executing[s]
      BY <1>1, <2>1, <2>3
    <3> QED
      BY <2>3, <3>1 DEF SerialInv, RegisteredInv
  <2> QED
    BY <2>2, <2>3
<1> QED
  BY <1>1, <1>4, <1>5, ForeignKeeps DEF SerialInv

LEMMA ExecuteSerial ==
  ASSUME TypeInv, SerialInv, NEW h \in Handler, Execute(h)
  PROVE  SerialInv'
<1> DEFINE l == IF Head(script[h]) = "update" THEN "finally" ELSE "fetch"
<1>1. /\ pc[h] = "execute" /\ field # None /\ Goto(h, l)
      /\ history' = [history EXCEPT ![field] = @ \cup {cur[h]}]
      /\ UNCHANGED <<field, executing, resultVars, reqs, cur>>
  BY DEF Execute
<1>2. l \in PC /\ l \in {"finally", "fetch"}
  BY DEF PC
<1> HIDE DEF l
<1>3. /\ pc'[h] = l
      /\ \A g \in Handler : g # h => pc'[g] = pc[g]
  BY <1>1, <1>2, GotoStep DEF TypeInv
<1>4. /\ Busily(h) /\ Running(h) /\ Running(h)'
      /\ UNCHANGED <<cols, rows, text, result>>
      /\ \A g \in Handler : Busily(g) => Busily(g)'
  BY <1>1, <1>2, <1>3 DEF Busily, Running, resultVars
<1>5. FieldInv' /\ CollectedInv' /\ RegisteredInv'
  BY <1>1, <1>3, <1>4, FieldKeeps, CollectedKeeps, RegisteredKeeps DEF SerialInv
<1>6. QueryOf(cur[h], field)
  BY <1>1, <1>4 DEF SerialInv, FieldInv
<1>7. \A s \in Session : history'[s] = history[s]
                         \/ (s = field /\ history'[s] = history[s] \cup {cur[h]})
  BY <1>1 DEF TypeInv, TypeOK
<1>8. NothingForeign'
  BY <1>1, <1>4, <1>6, <1>7 DEF SerialInv, NothingForeign, QueryOf
<1> QED
  BY <1>5, <1>8 DEF SerialInv

LEMMA FetchSerial ==
  ASSUME TypeInv, SerialInv, NEW h \in Handler, Fetch(h)
  PROVE  SerialInv'
<1>1. /\ pc[h] = "fetch" /\ field # None /\ Goto(h, "finally")
      /\ \/ UNCHANGED <<cols, rows>>
         \/ /\ cols' = [cols EXCEPT ![field] = Append(@, cur[h])]
            /\ rows' = [rows EXCEPT ![field] = Append(@, cur[h])]
      /\ \/ result' = result
         \/ result' = [result EXCEPT ![field] = cur[h]]
      /\ UNCHANGED <<field, executing, text, history, reqs, cur>>
  BY DEF Fetch
<1>2. /\ pc'[h] = "finally"
      /\ \A g \in Handler : g # h => pc'[g] = pc[g]
  BY <1>1, GotoStep DEF TypeInv, PC
<1>3. Busily(h) /\ Busily(h)' /\ Running(h) /\ Running(h)'
  BY <1>1, <1>2 DEF Busily, Running
<1>4. FieldInv' /\ RegisteredInv'
  BY <1>1, <1>2, <1>3, FieldKeeps, RegisteredKeeps DEF SerialInv
<1>5. /\ \A s \in Session : \A m \in Collected(s)' :
           m \in Collected(s) \/ (m = cur[h] /\ s = field)
      /\ CollectedInv'
  BY <1>1, <1>2, <1>3, CollectSerial DEF SerialInv
<1>6. QueryOf(cur[h], field)
  BY <1>1, <1>3 DEF SerialInv, FieldInv
<1>7. \A s \in Session : result'[s] = result[s] \/ (s = field /\ result'[s] = cur[h])
  BY <1>1 DEF TypeInv, TypeOK
<1>8. NothingForeign'
  <2> SUFFICES ASSUME NEW s \in Session
               PROVE  /\ \A m \in Collected(s)' \cup history'[s] : QueryOf(m, s)'
                      /\ \A m \in {text'[s], result'[s]} \ {0} : QueryOf(m, s)'
    BY DEF NothingForeign, Collected
  <2>1. \A m : QueryOf(m, s)' <=> QueryOf(m, s)
    BY <1>1 DEF QueryOf
  <2>2. /\ \A m \in Collected(s) \cup history[s] : QueryOf(m, s)
        /\ \A m \in {text[s], result[s]} \ {0} : QueryOf(m, s)
    BY DEF SerialInv, NothingForeign, Collected
  <2> QED
    BY <1>1, <1>5, <1>6, <1>7, <2>1, <2>2
<1> QED
  BY <1>4, <1>5, <1>8 DEF SerialInv

LEMMA FailSerial ==
  ASSUME TypeInv, SerialInv, NEW h \in Handler, Fail(h)
  PROVE  SerialInv'
<1>1. /\ pc[h] \in {"execute", "fetch"} /\ field # None /\ Goto(h, "finally")
      /\ cols' \in {cols, [cols EXCEPT ![field] = Append(@, cur[h])]}
      /\ rows' \in {rows, [rows EXCEPT ![field] = Append(@, cur[h])]}
      /\ rows' = rows \/ cols' = [cols EXCEPT ![field] = Append(@, cur[h])]
      /\ UNCHANGED <<field, executing, text, result, history, reqs, cur>>
  BY DEF Fail, Leftover
<1>2. /\ pc'[h] = "finally"
      /\ \A g \in Handler : g # h => pc'[g] = pc[g]
  BY <1>1, GotoStep DEF TypeInv, PC
<1>3. Busily(h) /\ Busily(h)' /\ Running(h) /\ Running(h)'
  BY <1>1, <1>2 DEF Busily, Running
<1>4. FieldInv' /\ RegisteredInv'
  BY <1>1, <1>2, <1>3, FieldKeeps, RegisteredKeeps DEF SerialInv
<1>5. /\ \A s \in Session : \A m \in Collected(s)' :
           m \in Collected(s) \/ (m = cur[h] /\ s = field)
      /\ CollectedInv'
  BY <1>1, <1>2, <1>3, CollectSerial DEF SerialInv
<1>6. QueryOf(cur[h], field)
  BY <1>1, <1>3 DEF SerialInv, FieldInv
<1>7. NothingForeign'
  <2> SUFFICES ASSUME NEW s \in Session
               PROVE  /\ \A m \in Collected(s)' \cup history'[s] : QueryOf(m, s)'
                      /\ \A m \in {text'[s], result'[s]} \ {0} : QueryOf(m, s)'
    BY DEF NothingForeign, Collected
  <2>1. \A m : QueryOf(m, s)' <=> QueryOf(m, s)
    BY <1>1 DEF QueryOf
  <2>2. /\ \A m \in Collected(s) \cup history[s] : QueryOf(m, s)
        /\ \A m \in {text[s], result[s]} \ {0} : QueryOf(m, s)
    BY DEF SerialInv, NothingForeign, Collected
  <2> QED
    BY <1>1, <1>5, <1>6, <2>1, <2>2
<1> QED
  BY <1>4, <1>5, <1>7 DEF SerialInv

(* The field is not lost under a call that runs alone.                     *)
LEMMA FieldStays == ASSUME SerialInv, NEW h \in Handler, FieldGone(h) PROVE FALSE
BY DEF FieldGone, SerialInv, FieldInv

(* A call that answers: its text is for the session in the field, and      *)
(* nobody is at work any more.                                             *)
LEMMA AnsweredSerial ==
  ASSUME TypeInv, SerialInv, OneBusy, NEW h \in Handler, pc[h] = "statement", field # None,
         text' = [text EXCEPT ![field] = cur[h]], Return(h),
         UNCHANGED <<field, executing, result, history, reqs>>,
         \A s \in Session : Collected(s)' \subseteq Collected(s),
         \A s \in Session : cols'[s] = <<>> => rows'[s] = <<>>,
         \A s \in Session : \A m \in Collected(s)' : reqs[m].kind = "edit"
  PROVE  SerialInv'
<1>1. /\ pc'[h] = "idle"
      /\ \A g \in Handler : g # h => pc'[g] = pc[g]
  BY ReturnStep DEF TypeInv
<1>2. Busily(h) /\ ~Running(h)
  BY DEF Busily, Running
<1>3. FieldInv'
  <2>1. \A g \in Handler : pc'[g] = "idle"
    BY <1>1, <1>2 DEF OneBusy, Busily
  <2> QED
    BY <2>1 DEF FieldInv, Busily
<1>4. CollectedInv'
  BY DEF CollectedInv
<1>5. RegisteredInv'
  BY <1>1, <1>2, RegisteredKeeps DEF SerialInv
<1>6. NothingForeign'
  <2> SUFFICES ASSUME NEW s \in Session
               PROVE  /\ \A m \in Collected(s)' \cup history'[s] : QueryOf(m, s)'
                      /\ \A m \in {text'[s], result'[s]} \ {0} : QueryOf(m, s)'
    BY DEF NothingForeign, Collected
  <2>1. \A m : QueryOf(m, s)' <=> QueryOf(m, s)
    BY DEF QueryOf
  <2>2. /\ \A m \in Collected(s) \cup history[s] : QueryOf(m, s)
        /\ \A m \in {text[s], result[s]} \ {0} : QueryOf(m, s)
    BY DEF SerialInv, NothingForeign, Collected
  <2>3. QueryOf(cur[h], field)
    BY <1>2 DEF SerialInv, FieldInv
  <2>4. text'[s] = text[s] \/ (s = field /\ text'[s] = cur[h])
    BY DEF TypeInv, TypeOK
  <2> QED
    BY <2>1, <2>2, <2>3, <2>4
<1> QED
  BY <1>3, <1>4, <1>5, <1>6 DEF SerialInv

LEMMA AnswerSerial ==
  ASSUME TypeInv, SerialInv, OneBusy, NEW h \in Handler, Answer(h)
  PROVE  SerialInv'
<1>1. /\ pc[h] = "statement" /\ field # None
      /\ text' = [text EXCEPT ![field] = cur[h]]
      /\ Return(h)
      /\ UNCHANGED <<field, executing, result, history, reqs>>
  BY DEF Answer
<1>2. /\ field \in Session
      /\ cols \in [Session -> Seq(1 .. Len(reqs))] /\ rows \in [Session -> Seq(1 .. Len(reqs))]
  BY <1>1 DEF TypeInv, TypeOK
<1>3. /\ cols'[field] = <<>> /\ rows'[field] = <<>>
      /\ \A s \in Session : s # field => cols'[s] = cols[s] /\ rows'[s] = rows[s]
  <2>1. CASE cols[field] = <<>>
    <3>1. UNCHANGED <<cols, rows>>
      BY <2>1 DEF Answer
    <3> QED
      BY <1>2, <2>1, <3>1 DEF SerialInv, CollectedInv
  <2>2. CASE cols[field] # <<>>
    <3>1. cols' = [cols EXCEPT ![field] = <<>>] /\ rows' = [rows EXCEPT ![field] = <<>>]
      BY <2>2 DEF Answer
    <3> QED
      BY <1>2, <3>1
  <2> QED
    BY <2>1, <2>2
<1>4. \A s \in Session : IF s = field THEN Collected(s)' = {} ELSE Collected(s)' = Collected(s)
  BY <1>3, ToSetEmpty DEF Collected
<1>5. \A s \in Session : \A m \in Collected(s)' : reqs[m].kind = "edit"
  BY <1>4 DEF SerialInv, CollectedInv
<1>6. \A s \in Session : cols'[s] = <<>> => rows'[s] = <<>>
  BY <1>3 DEF SerialInv, CollectedInv
<1>7. \A s \in Session : Collected(s)' \subseteq Collected(s)
  BY <1>4
<1> QED
  BY <1>1, <1>5, <1>6, <1>7, AnsweredSerial

LEMMA EditAnswerSerial ==
  ASSUME TypeInv, SerialInv, OneBusy, NEW h \in Handler, EditAnswer(h)
  PROVE  SerialInv'
<1>1. /\ pc[h] = "statement" /\ field # None /\ reqs[cur[h]].kind = "edit"
      /\ text' = [text EXCEPT ![field] = cur[h]]
      /\ Return(h)
      /\ UNCHANGED <<field, executing, cols, rows, result, history, reqs>>
  BY DEF EditAnswer
<1>2. \A g \in Handler : Busily(g) => g = h
  BY <1>1 DEF OneBusy, Busily
<1>3. \A s \in Session : Collected(s)' = Collected(s)
  BY <1>1 DEF Collected
<1>4. \A s \in Session : \A m \in Collected(s)' : reqs[m].kind = "edit"
  BY <1>1, <1>2, <1>3 DEF SerialInv, CollectedInv
<1>5. \A s \in Session : cols'[s] = <<>> => rows'[s] = <<>>
  BY <1>1 DEF SerialInv, CollectedInv
<1> QED
  BY <1>1, <1>3, <1>4, <1>5, AnsweredSerial

LEMMA SessionSerial ==
  ASSUME SerialInv, UNCHANGED <<field, executing, resultVars, history, reqs, callVars>>
  PROVE  SerialInv'
<1>1. UNCHANGED <<field, executing, cols, rows, text, result, history, reqs, pc, cur>>
  BY DEF resultVars, callVars
<1>2. FieldInv' /\ RegisteredInv'
  BY <1>1 DEF SerialInv, FieldInv, RegisteredInv, Busily, Running, QueryOf
<1>3. CollectedInv'
  BY <1>1 DEF SerialInv, CollectedInv, Collected, Busily
<1> QED
  BY <1>2, <1>3, ForeignKeeps DEF SerialInv

LEMMA NextSerial == TypeInv /\ SerialInv /\ OneBusy /\ OneBusy' /\ [Next]_vars => SerialInv'
<1> SUFFICES ASSUME TypeInv, SerialInv, OneBusy, OneBusy', [Next]_vars
             PROVE  SerialInv'
  OBVIOUS
<1>1. ASSUME NEW h \in Handler, Step(h)
      PROVE  SerialInv'
  BY <1>1, ConnectionSerial, CommandSerial, StartSerial, ExecuteSerial, FetchSerial, FailSerial,
     FinallySerial, FieldStays, AnswerSerial, EditAnswerSerial DEF Step
<1>2. ASSUME NEW h \in Handler, NEW s \in Session, NEW scr \in Scripts, Query(h, s, scr)
      PROVE  SerialInv'
  BY <1>2, QuerySerial
<1>3. ASSUME NEW h \in Handler, NEW s \in Session, EditResult(h, s)
      PROVE  SerialInv'
  BY <1>3, EditResultSerial
<1>4. ASSUME NEW h \in Handler, NEW s \in Session, Logout(h, s) \/ Expire(h, s)
      PROVE  SerialInv'
  <2>1. UNCHANGED <<field, executing, resultVars, history, reqs, callVars>>
    BY <1>4 DEF Logout, Expire
  <2> QED
    BY <2>1, SessionSerial
<1>5. CASE UNCHANGED vars
  <2>1. UNCHANGED <<field, executing, resultVars, history, reqs, callVars>>
    BY <1>5 DEF vars
  <2> QED
    BY <2>1, SessionSerial
<1> QED
  BY <1>1, <1>2, <1>3, <1>4, <1>5 DEF Next
-----------------------------------------------------------------------------
LEMMA InitInv == MCInit => Inv
<1> SUFFICES ASSUME MCInit
             PROVE  Inv
  OBVIOUS
<1>1. Init /\ TypeInv
  BY InitTypes DEF MCInit
<1>2. \A h \in Handler : ~Busily(h)
  BY <1>1 DEF Init, Busily
<1>3. OneBusy /\ FieldInv
  BY <1>1, <1>2 DEF Init, OneBusy, FieldInv, Busily
<1>4. \A s \in Session : Collected(s) = {} /\ rows[s] = <<>>
  BY <1>1, ToSetEmpty DEF Init, Collected
<1>5. CollectedInv
  BY <1>4 DEF CollectedInv
<1>6. RegisteredInv
  BY <1>1 DEF Init, RegisteredInv
<1>7. NothingForeign
  BY <1>1, <1>4 DEF Init, NothingForeign, Collected
<1> QED
  BY <1>1, <1>3, <1>5, <1>6, <1>7 DEF Inv, SerialInv

LEMMA NextInv == Inv /\ [MCNext]_<<vars, serial>> => Inv'
<1> SUFFICES ASSUME Inv, [MCNext]_<<vars, serial>>
             PROVE  Inv'
  OBVIOUS
<1>1. [Next]_vars /\ serial' = serial
  BY DEF MCNext
<1>2. TypeInv'
  BY <1>1, NextTypes DEF Inv
<1>3. ASSUME serial
      PROVE  OneBusy'
  <2>1. CASE MCNext
    <3>1. \A h \in Handler : Busily(h)' => h = EventLoop
      BY <1>3, <2>1 DEF MCNext, Busy, Busily
    <3> QED
      BY <3>1 DEF OneBusy
  <2>2. CASE UNCHANGED <<vars, serial>>
    BY <1>3, <2>2 DEF vars, callVars, Inv, OneBusy, Busily
  <2> QED
    BY <2>1, <2>2
<1> QED
  BY <1>1, <1>2, <1>3, NextSerial DEF Inv

(* The invariant the others follow from: the types with what a call at     *)
(* work has, and on the event loop who is at work for whom.                *)
THEOREM ServiceInvariant == MCSpec => []Inv
<1> QED
  BY InitInv, NextInv, PTL DEF MCSpec

(* The types of the service's variables, on the event loop and on the pool:*)
(* in particular a handler at work has a call and a statement to run.      *)
THEOREM TypeCorrect == MCSpec => []TypeOK
<1>1. Inv => TypeOK
  BY DEF Inv, TypeInv
<1> QED
  BY <1>1, ServiceInvariant, PTL

(* On the event loop a query leaves nothing in a session but what was      *)
(* asked for with that session's id.                                       *)
THEOREM SessionsAreApart == MCSpec => []SerialNothingForeign
<1>1. Inv => SerialNothingForeign
  BY DEF Inv, SerialInv, SerialNothingForeign
<1> QED
  BY <1>1, ServiceInvariant, PTL

(* On the event loop a statement registered with a session is one that     *)
(* runs.                                                                   *)
THEOREM RegisteredRuns == MCSpec => []SerialRegisteredIsRunning
<1>1. Inv => SerialRegisteredIsRunning
  BY DEF Inv, SerialInv, RegisteredInv, SerialRegisteredIsRunning, RegisteredIsRunning
<1> QED
  BY <1>1, ServiceInvariant, PTL

(* On the event loop an answer shows results of its own script and of the  *)
(* edits since, of no earlier query.                                       *)
THEOREM AnswersAreTheirOwn == MCSpec => SerialAnswerIsOwn
<1>1. ASSUME Inv, NEW h \in Handler, serial, Answer(h),
             NEW m \in ToSet(cols[field]) \cup ToSet(rows[field])
      PROVE  m = cur[h] \/ reqs[m].kind = "edit"
  <2>1. field \in Session /\ m \in Collected(field)
    BY <1>1 DEF Answer, Inv, TypeInv, TypeOK, Collected
  <2>2. \A g \in Handler : Busily(g) => g = h
    BY <1>1 DEF Answer, Inv, OneBusy, Busily
  <2> QED
    BY <1>1, <2>1, <2>2 DEF Inv, SerialInv, CollectedInv
<1>2. Inv /\ [MCNext]_<<vars, serial>> =>
        [\A h \in Handler : serial /\ Answer(h) =>
           \A m \in ToSet(cols[field]) \cup ToSet(rows[field]) :
             m = cur[h] \/ reqs[m].kind = "edit"]_vars
  BY <1>1
<1> QED
  BY <1>2, ServiceInvariant, PTL DEF MCSpec, SerialAnswerIsOwn
=============================================================================
