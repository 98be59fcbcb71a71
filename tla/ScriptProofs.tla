---------------------------- MODULE ScriptProofs ----------------------------
(***************************************************************************)
(* Proofs about three scripts that every page loads.                       *)
(*                                                                         *)
(* ServiceClient, for any methods and any number of calls: which answers   *)
(* may reach which calls.  They rest on one fact about the cache: the      *)
(* entry of a method is that of its last call.                             *)
(*                                                                         *)
(* VueScheduler, for any number of watchers and whatever they ask for: the *)
(* queue of a flush stays in order, loses nobody, and implements           *)
(* DrawingOrder.  They rest on SchedulerInv, that ids differ, that has and *)
(* the rest of the queue say the same, and that the rest is sorted.        *)
(*                                                                         *)
(* Translations, for any keys in any order: which texts are found.  They   *)
(* rest on TextsInv: the texts in the nested objects are those of the keys *)
(* that no other key read begins.                                          *)
(***************************************************************************)
EXTENDS ServiceClient, VueScheduler, Translations, FiniteSetTheorems,
        SequenceTheorems, TLAPS

-----------------------------------------------------------------------------
(* The calls of the client.                                                *)

CacheIsLatest ==
  /\ \A m \in Method : cache[m] # 0 => calls[cache[m]].method = m
  /\ \A n \in Made : n <= Entry(n)

Inv == TypeOK /\ CacheIsLatest

LEMMA InitInv == Init => Inv
<1> SUFFICES ASSUME Init PROVE Inv
  OBVIOUS
<1>1. Len(calls) = 0 /\ Made = {}
  BY DEF Init, Made
<1> QED
  BY <1>1, MaxCallsAssumption DEF Init, Inv, TypeOK, CacheIsLatest

(* What a call leaves of the calls before it, and what it adds.            *)
LEMMA CallStep ==
  ASSUME TypeOK, NEW m \in Method, NEW style \in Style, NEW handles \in BOOLEAN,
         Call(m, style, handles)
  PROVE  /\ Len(calls) \in Nat
         /\ Made' = Made \cup {Len(calls) + 1}
         /\ Len(calls) + 1 \notin Made
         /\ Len(calls)' = Len(calls) + 1
         /\ Len(calls)' <= MaxCalls
         /\ calls' \in Seq([method : Method, style : Style, handles : BOOLEAN])
         /\ calls'[Len(calls) + 1].method = m
         /\ outcome'[Len(calls) + 1] = "pending"
         /\ results'[Len(calls) + 1] = {} /\ errors'[Len(calls) + 1] = {}
         /\ \A n \in Made : /\ calls'[n] = calls[n]
                            /\ outcome'[n] = outcome[n]
                            /\ results'[n] = results[n]
                            /\ errors'[n] = errors[n]
BY MaxCallsAssumption DEF TypeOK, Call, Made, Style

(* The calls are records with the three fields.                            *)
LEMMA CallRecords ==
  ASSUME TypeOK, NEW n \in Made
  PROVE  /\ calls[n].method \in Method /\ calls[n].style \in Style
         /\ calls[n].handles \in BOOLEAN
<1> DEFINE R == [method : Method, style : Style, handles : BOOLEAN]
<1>1. calls \in Seq(R)
  BY DEF TypeOK
<1>2. calls[n] \in R
  <2> HIDE DEF R
  <2> QED
    BY <1>1, ElementOfSeq DEF Made
<1> QED
  BY <1>2

(* The entry an answer finds is that of a call of the same method, and of  *)
(* the same or a later one.                                                *)
LEMMA EntryFacts ==
  ASSUME Inv, NEW n \in Made
  PROVE  /\ Entry(n) \in Made
         /\ n <= Entry(n)
         /\ calls[Entry(n)].method = calls[n].method
         /\ calls[n].method \in Method
<1>1. calls[n].method \in Method
  BY CallRecords DEF Inv
<1>2. Len(calls) \in Nat /\ n \in Nat /\ n >= 1
  BY DEF Inv, TypeOK, Made
<1>3. Entry(n) \in 0 .. Len(calls)
  BY <1>1 DEF Inv, TypeOK, Entry
<1>4. n <= Entry(n)
  BY DEF Inv, CacheIsLatest
<1>5. Entry(n) \in Made /\ Entry(n) # 0
  BY <1>2, <1>3, <1>4 DEF Made
<1> QED
  BY <1>1, <1>4, <1>5 DEF Inv, CacheIsLatest, Entry

LEMMA CallKeepsInv ==
  ASSUME Inv, NEW m \in Method, NEW style \in Style, NEW handles \in BOOLEAN,
         Call(m, style, handles)
  PROVE  Inv'
<1> USE DEF Inv
<1>0. Len(calls) \in Nat /\ Len(calls) + 1 \in Nat
  BY CallStep
<1>k. PICK k \in Nat : k = Len(calls) + 1
  BY <1>0
<1>1. /\ k \in Nat \ {0} /\ Made' = Made \cup {k} /\ k \notin Made
      /\ Len(calls)' = k /\ k <= MaxCalls
      /\ calls' \in Seq([method : Method, style : Style, handles : BOOLEAN])
      /\ calls'[k].method = m
      /\ \A n \in Made : calls'[n] = calls[n] /\ n <= k
  <2>1. calls'[k].method = m
    BY <1>k, CallStep
  <2>2. \A n \in Made : calls'[n] = calls[n] /\ n <= k
    BY <1>0, <1>k, CallStep DEF Made
  <2>3. calls' \in Seq([method : Method, style : Style, handles : BOOLEAN])
    BY CallStep
  <2>4. /\ Made' = Made \cup {k} /\ k \notin Made
        /\ Len(calls)' = k /\ k <= MaxCalls
    BY <1>k, CallStep
  <2> QED
    BY <1>0, <1>k, <2>1, <2>2, <2>3, <2>4
<1>2. cache' = [cache EXCEPT ![m] = k] /\ cache \in [Method -> 0 .. Len(calls)]
  BY <1>0, <1>k, <1>1 DEF Call, TypeOK
<1>3. cache' \in [Method -> 0 .. Len(calls)']
  BY <1>0, <1>k, <1>1, <1>2
<1>4. \A n \in Made : Entry(n)' # 0 /\ n <= Entry(n)'
  <2> TAKE n \in Made
  <2>1. calls'[n].method = calls[n].method /\ calls[n].method \in Method
    BY <1>1, EntryFacts
  <2>2. n \in Nat /\ n >= 1 /\ n <= k /\ n <= cache[calls[n].method]
    BY <1>1, EntryFacts DEF Made, Entry
  <2> QED
    BY <1>1, <1>2, <2>1, <2>2 DEF Entry
<1>5. Entry(k)' = k
  BY <1>1, <1>2 DEF Entry
<1>6. \A n \in Made' : n <= Entry(n)'
  BY <1>1, <1>4, <1>5
<1>7. \A x \in Method : cache'[x] # 0 => calls'[cache'[x]].method = x
  <2> SUFFICES ASSUME NEW x \in Method, cache'[x] # 0
               PROVE  calls'[cache'[x]].method = x
    OBVIOUS
  <2>1. CASE x = m
    BY <1>1, <1>2, <2>1
  <2>2. CASE x # m
    <3>1. cache'[x] = cache[x] /\ cache[x] \in Made
      BY <1>0, <1>2, <2>2 DEF Made
    <3> QED
      BY <1>1, <3>1 DEF CacheIsLatest
  <2> QED
    BY <2>1, <2>2
<1>8. wire' \subseteq Made' /\ \A n \in wire' : Entry(n)' # 0
  BY <1>1, <1>4, <1>5 DEF Call, TypeOK
<1>9. /\ outcome' \in Seq({"pending", "result", "failure"})
      /\ Len(outcome)' = Len(calls)'
  BY <1>1 DEF Call, TypeOK
<1>10. /\ results' \in Seq(SUBSET Made') /\ Len(results)' = Len(calls)'
       /\ errors' \in Seq(SUBSET Made') /\ Len(errors)' = Len(calls)'
  <2>1. SUBSET Made \subseteq SUBSET Made' /\ {} \in SUBSET Made'
    BY <1>1
  <2>2. results \in Seq(SUBSET Made') /\ errors \in Seq(SUBSET Made')
    BY <2>1 DEF TypeOK
  <2> QED
    BY <1>1, <2>1, <2>2 DEF Call, TypeOK
<1> QED
  BY <1>1, <1>3, <1>6, <1>7, <1>8, <1>9, <1>10 DEF TypeOK, CacheIsLatest

(* An answer changes at most the record of the entry it finds, and only by *)
(* the answer itself.                                                      *)
Answered(n) == Result(n) \/ ResultThrows(n) \/ Failure(n)

(* Replacing one element leaves a sequence of the same length.             *)
LEMMA Replaced ==
  ASSUME NEW S, NEW q \in Seq(S), NEW i \in 1 .. Len(q), NEW x \in S
  PROVE  [q EXCEPT ![i] = x] \in Seq(S) /\ Len([q EXCEPT ![i] = x]) = Len(q)
BY ExceptSeq

LEMMA Gained ==
  ASSUME NEW S, NEW q \in Seq(SUBSET S), NEW i \in 1 .. Len(q), NEW n \in S
  PROVE  /\ [q EXCEPT ![i] = @ \cup {n}] \in Seq(SUBSET S)
         /\ Len([q EXCEPT ![i] = @ \cup {n}]) = Len(q)
<1> DEFINE x == q[i] \cup {n}
<1>1. q[i] \in SUBSET S
  BY ElementOfSeq
<1>2. x \in SUBSET S
  BY <1>1
<1> HIDE DEF x
<1>3. [q EXCEPT ![i] = x] \in Seq(SUBSET S) /\ Len([q EXCEPT ![i] = x]) = Len(q)
  BY <1>2, Replaced
<1> QED
  BY <1>3 DEF x

LEMMA AnswerStep ==
  ASSUME Inv, NEW n \in wire, Answered(n)
  PROVE  /\ n \in Made /\ Made' = Made
         /\ UNCHANGED <<calls, cache>> /\ wire' = wire \ {n}
         /\ outcome'[n] \in {"result", "failure"}
         /\ \A k \in Made \ {n} : outcome'[k] = outcome[k]
         /\ \A e \in Made :
              /\ results'[e] \in {results[e], results[e] \cup {n}}
              /\ errors'[e] \in {errors[e], errors[e] \cup {n}}
              /\ n \in results'[e] \ results[e] => e = Entry(n)
              /\ n \in errors'[e] \ errors[e] => e = Entry(n)
         /\ outcome'[n] = "result" /\ calls[Entry(n)].style # "none" =>
              results'[Entry(n)] = results[Entry(n)] \cup {n}
         /\ outcome'[n] = "failure" /\ calls[Entry(n)].handles =>
              errors'[Entry(n)] = errors[Entry(n)] \cup {n}
         /\ TypeOK'
<1> USE DEF Inv
<1>1. n \in Made /\ Made' = Made /\ Entry(n) \in Made
  BY EntryFacts DEF TypeOK, Answered, Result, ResultThrows, Failure, Arrive, Made
<1>2. /\ UNCHANGED <<calls, cache>> /\ wire' = wire \ {n}
      /\ \/ outcome' = [outcome EXCEPT ![n] = "result"]
         \/ outcome' = [outcome EXCEPT ![n] = "failure"]
  BY DEF Answered, Result, ResultThrows, Failure, Arrive
<1>3. DOMAIN outcome = Made /\ DOMAIN results = Made /\ DOMAIN errors = Made
  BY DEF TypeOK, Made
<1>4. /\ results' \in {results, [results EXCEPT ![Entry(n)] = @ \cup {n}]}
      /\ errors' \in {errors, [errors EXCEPT ![Entry(n)] = @ \cup {n}]}
  BY DEF Answered, Result, ResultThrows, Failure, GiveResult, GiveError
<1>5. /\ outcome'[n] = "result" /\ calls[Entry(n)].style # "none" =>
           results' = [results EXCEPT ![Entry(n)] = @ \cup {n}]
      /\ outcome'[n] = "failure" /\ calls[Entry(n)].handles =>
           errors' = [errors EXCEPT ![Entry(n)] = @ \cup {n}]
  BY <1>1, <1>3 DEF Answered, Result, ResultThrows, Failure, GiveResult, GiveError,
     Arrive
<1>6. TypeOK'
  <2>0. /\ outcome \in Seq({"pending", "result", "failure"})
        /\ Len(outcome) = Len(calls)
        /\ results \in Seq(SUBSET Made) /\ Len(results) = Len(calls)
        /\ errors \in Seq(SUBSET Made) /\ Len(errors) = Len(calls)
        /\ n \in 1 .. Len(calls) /\ Entry(n) \in 1 .. Len(calls)
    BY <1>1 DEF TypeOK, Made
  <2>1. outcome' \in Seq({"pending", "result", "failure"}) /\ Len(outcome') = Len(calls)
    <3>1. CASE outcome' = [outcome EXCEPT ![n] = "result"]
      BY <2>0, <3>1, Replaced
    <3>2. CASE outcome' = [outcome EXCEPT ![n] = "failure"]
      BY <2>0, <3>2, Replaced
    <3> QED
      BY <1>2, <3>1, <3>2
  <2>2. results' \in Seq(SUBSET Made) /\ Len(results') = Len(calls)
    <3>1. CASE results' = results
      BY <2>0, <3>1
    <3>2. CASE results' = [results EXCEPT ![Entry(n)] = @ \cup {n}]
      BY <1>1, <2>0, <3>2, Gained
    <3> QED
      BY <1>4, <3>1, <3>2
  <2>3. errors' \in Seq(SUBSET Made) /\ Len(errors') = Len(calls)
    <3>1. CASE errors' = errors
      BY <2>0, <3>1
    <3>2. CASE errors' = [errors EXCEPT ![Entry(n)] = @ \cup {n}]
      BY <1>1, <2>0, <3>2, Gained
    <3> QED
      BY <1>4, <3>1, <3>2
  <2> QED
    BY <1>1, <1>2, <2>1, <2>2, <2>3 DEF TypeOK, Entry
<1> QED
  BY <1>1, <1>2, <1>3, <1>4, <1>5, <1>6

LEMMA AnswerKeepsInv ==
  ASSUME Inv, NEW n \in wire, Answered(n)
  PROVE  Inv'
BY AnswerStep DEF Inv, CacheIsLatest, Entry

LEMMA GivenAreMade ==
  ASSUME TypeOK, NEW e \in Made
  PROVE  results[e] \subseteq Made /\ errors[e] \subseteq Made
<1>1. /\ results \in Seq(SUBSET Made) /\ e \in 1 .. Len(results)
      /\ errors \in Seq(SUBSET Made) /\ e \in 1 .. Len(errors)
  BY DEF TypeOK, Made
<1> QED
  BY <1>1, ElementOfSeq

LEMMA InvStep == Inv /\ [Next]_vars => Inv'
<1> SUFFICES ASSUME Inv, [Next]_vars PROVE Inv'
  OBVIOUS
<1>1. CASE UNCHANGED vars
  BY <1>1 DEF Inv, TypeOK, CacheIsLatest, vars, Made, Entry
<1>2. ASSUME NEW m \in Method, NEW style \in Style, NEW handles \in BOOLEAN,
             Call(m, style, handles)
      PROVE  Inv'
  BY <1>2, CallKeepsInv
<1>3. ASSUME NEW n \in wire, Answered(n) PROVE Inv'
  BY <1>3, AnswerKeepsInv
<1> QED
  BY <1>1, <1>2, <1>3 DEF Next, Answered

(* The client's types, and that every call due an answer has an entry.     *)
THEOREM TypeCorrect == Spec => []TypeOK
<1>1. Inv => TypeOK
  BY DEF Inv
<1> QED
  BY InitInv, InvStep, <1>1, PTL DEF Spec

(* An answer that is due has been given to nobody.                         *)
LEMMA OwnOrLaterStep ==
  Inv /\ OwnOrLater /\ [Next]_vars => OwnOrLater'
<1> SUFFICES ASSUME Inv, OwnOrLater, [Next]_vars PROVE OwnOrLater'
  OBVIOUS
<1>1. CASE UNCHANGED vars
  BY <1>1 DEF OwnOrLater, vars, Made
<1>2. ASSUME NEW m \in Method, NEW style \in Style, NEW handles \in BOOLEAN,
             Call(m, style, handles)
      PROVE  OwnOrLater'
  <2> PICK k \in Nat : k = Len(calls) + 1
    BY <1>2, CallStep DEF Inv
  <2>1. /\ Made' = Made \cup {k} /\ k \notin Made
        /\ results'[k] = {} /\ errors'[k] = {}
        /\ \A n \in Made : /\ calls'[n] = calls[n]
                           /\ results'[n] = results[n]
                           /\ errors'[n] = errors[n]
    BY <1>2, CallStep DEF Inv
  <2>2. wire' = wire \cup {k}
    BY <1>2 DEF Call, Inv, TypeOK
  <2>3. \A e \in Made : results[e] \subseteq Made /\ errors[e] \subseteq Made
    BY GivenAreMade DEF Inv
  <2> QED
    BY <2>1, <2>2, <2>3 DEF OwnOrLater
<1>3. ASSUME NEW n \in wire, Answered(n) PROVE OwnOrLater'
  <2>1. /\ n \in Made /\ Made' = Made /\ calls' = calls /\ wire' = wire \ {n}
        /\ \A e \in Made :
             /\ results'[e] \in {results[e], results[e] \cup {n}}
             /\ errors'[e] \in {errors[e], errors[e] \cup {n}}
             /\ n \in results'[e] \ results[e] => e = Entry(n)
             /\ n \in errors'[e] \ errors[e] => e = Entry(n)
    BY <1>3, AnswerStep
  <2>2. Entry(n) >= n /\ calls[Entry(n)].method = calls[n].method
    BY <2>1, EntryFacts DEF Inv, TypeOK, Made
  <2>3. \A e \in Made : n \notin results[e] \cup errors[e]
    BY DEF OwnOrLater
  <2> QED
    BY <2>1, <2>2, <2>3 DEF OwnOrLater
<1> QED
  BY <1>1, <1>2, <1>3 DEF Next, Answered

(* No answer reaches a call that came before the one it answers, or        *)
(* another method's.                                                       *)
THEOREM AnswersReachOwnOrLater == Spec => []OwnOrLater
<1>1. Init => OwnOrLater
  BY DEF Init, OwnOrLater, Made
<1> QED
  BY InitInv, InvStep, OwnOrLaterStep, <1>1, PTL DEF Spec

(* Of a result that arrives, one entry at most is told, and it had not     *)
(* been told before.                                                       *)
LEMMA GivenOnceStep ==
  Inv /\ OwnOrLater /\ GivenOnce /\ [Next]_vars => GivenOnce'
<1> SUFFICES ASSUME Inv, OwnOrLater, GivenOnce, [Next]_vars PROVE GivenOnce'
  OBVIOUS
<1>1. CASE UNCHANGED vars
  BY <1>1 DEF GivenOnce, vars, Made
<1>2. ASSUME NEW m \in Method, NEW style \in Style, NEW handles \in BOOLEAN,
             Call(m, style, handles)
      PROVE  GivenOnce'
  <2> PICK k \in Nat : k = Len(calls) + 1
    BY <1>2, CallStep DEF Inv
  <2>1. /\ Made' = Made \cup {k} /\ k \notin Made
        /\ results'[k] = {} /\ outcome'[k] = "pending"
        /\ \A n \in Made : /\ calls'[n] = calls[n]
                           /\ results'[n] = results[n]
                           /\ outcome'[n] = outcome[n]
    BY <1>2, CallStep DEF Inv
  <2> QED
    BY <2>1 DEF GivenOnce
<1>3. ASSUME NEW n \in wire, Answered(n) PROVE GivenOnce'
  <2>1. /\ n \in Made /\ Made' = Made /\ calls' = calls
        /\ \A k \in Made \ {n} : outcome'[k] = outcome[k]
        /\ \A e \in Made :
             /\ results'[e] \in {results[e], results[e] \cup {n}}
             /\ n \in results'[e] \ results[e] => e = Entry(n)
        /\ outcome'[n] = "result" /\ calls[Entry(n)].style # "none" =>
             results'[Entry(n)] = results[Entry(n)] \cup {n}
    BY <1>3, AnswerStep
  <2>2. Entry(n) \in Made /\ calls[Entry(n)].method = calls[n].method
    BY <2>1, EntryFacts DEF Inv, TypeOK
  <2>3. \A e \in Made : n \notin results[e]
    BY DEF OwnOrLater
  <2>4. \A d, e \in Made : results'[d] \cap results'[e] # {} => d = e
    <3> SUFFICES ASSUME NEW d \in Made, NEW e \in Made, NEW x \in results'[d],
                        x \in results'[e]
                 PROVE  d = e
      OBVIOUS
    <3>1. CASE x = n
      BY <2>1, <2>3, <3>1
    <3>2. CASE x # n
      BY <2>1, <3>2 DEF GivenOnce
    <3> QED
      BY <3>1, <3>2
  <2>5. ASSUME NEW k \in Made, outcome'[k] = "result",
               \A e \in Made : calls[e].method = calls[k].method
                                 => calls[e].style # "none"
        PROVE  \E e \in Made : k \in results'[e]
    <3>1. CASE k = n
      BY <2>1, <2>2, <2>5, <3>1
    <3>2. CASE k # n
      <4>1. PICK e \in Made : k \in results[e]
        BY <2>1, <2>5, <3>2 DEF GivenOnce
      <4> QED
        BY <2>1, <4>1
    <3> QED
      BY <3>1, <3>2
  <2> QED
    BY <2>1, <2>4, <2>5 DEF GivenOnce
<1> QED
  BY <1>1, <1>2, <1>3 DEF Next, Answered

(* No result is given to two calls, and none is lost on a method all of    *)
(* whose callers take results.                                             *)
THEOREM ResultsGivenOnce == Spec => []GivenOnce
<1>1. Init => OwnOrLater /\ GivenOnce
  BY DEF Init, OwnOrLater, GivenOnce, Made
<1> QED
  BY InitInv, InvStep, OwnOrLaterStep, GivenOnceStep, <1>1, PTL DEF Spec

(* The last call of a method is the one whose entry its own answer finds.  *)
LEMMA LastHearsStep ==
  Inv /\ LastHearsItself /\ [Next]_vars => LastHearsItself'
<1> SUFFICES ASSUME Inv, LastHearsItself, [Next]_vars PROVE LastHearsItself'
  OBVIOUS
<1>0. Len(calls) \in Nat
  BY DEF Inv, TypeOK
<1>1. CASE UNCHANGED vars
  BY <1>1 DEF LastHearsItself, vars, Made
<1>2. ASSUME NEW m \in Method, NEW style \in Style, NEW handles \in BOOLEAN,
             Call(m, style, handles)
      PROVE  LastHearsItself'
  <2> PICK k \in Nat : k = Len(calls) + 1
    BY <1>2, CallStep DEF Inv
  <2>1. /\ Made' = Made \cup {k} /\ k \notin Made /\ Len(calls)' = k
        /\ outcome'[k] = "pending"
        /\ \A n \in Made : /\ calls'[n] = calls[n]
                           /\ results'[n] = results[n]
                           /\ errors'[n] = errors[n]
                           /\ outcome'[n] = outcome[n]
    BY <1>2, CallStep DEF Inv
  <2> SUFFICES ASSUME NEW n \in Made,
                      \A e \in (n + 1) .. k : calls'[e].method # calls[n].method
               PROVE  /\ outcome[n] = "result" /\ calls[n].style # "none"
                           => n \in results[n]
                      /\ outcome[n] = "failure" /\ calls[n].handles
                           => n \in errors[n]
    BY <2>1 DEF LastHearsItself
  <2>2. \A e \in (n + 1) .. Len(calls) : e \in Made /\ e \in (n + 1) .. k
    BY <1>0 DEF Made
  <2>3. \A e \in (n + 1) .. Len(calls) : calls[e].method # calls[n].method
    BY <2>1, <2>2
  <2> QED
    BY <2>3 DEF LastHearsItself
<1>3. ASSUME NEW n \in wire, Answered(n) PROVE LastHearsItself'
  <2>1. /\ n \in Made /\ Made' = Made /\ calls' = calls
        /\ \A k \in Made \ {n} : outcome'[k] = outcome[k]
        /\ \A e \in Made :
             /\ results'[e] \in {results[e], results[e] \cup {n}}
             /\ errors'[e] \in {errors[e], errors[e] \cup {n}}
        /\ outcome'[n] = "result" /\ calls[Entry(n)].style # "none" =>
             results'[Entry(n)] = results[Entry(n)] \cup {n}
        /\ outcome'[n] = "failure" /\ calls[Entry(n)].handles =>
             errors'[Entry(n)] = errors[Entry(n)] \cup {n}
    BY <1>3, AnswerStep
  <2>2. ASSUME \A e \in (n + 1) .. Len(calls) : calls[e].method # calls[n].method
        PROVE  Entry(n) = n
    <3>1. /\ Entry(n) \in Made /\ n <= Entry(n)
          /\ calls[Entry(n)].method = calls[n].method
      BY <2>1, EntryFacts
    <3>2. Entry(n) \in n .. Len(calls) /\ n \in Nat
      BY <1>0, <2>1, <3>1 DEF Made
    <3>3. Entry(n) \notin (n + 1) .. Len(calls)
      BY <2>2, <3>1
    <3> QED
      BY <1>0, <3>2, <3>3
  <2> SUFFICES ASSUME NEW k \in Made,
                      \A e \in (k + 1) .. Len(calls) :
                        calls[e].method # calls[k].method
               PROVE  /\ outcome'[k] = "result" /\ calls[k].style # "none"
                           => k \in results'[k]
                      /\ outcome'[k] = "failure" /\ calls[k].handles
                           => k \in errors'[k]
    BY <2>1 DEF LastHearsItself
  <2>3. CASE k = n
    BY <2>1, <2>2, <2>3
  <2>4. CASE k # n
    BY <2>1, <2>4 DEF LastHearsItself
  <2> QED
    BY <2>3, <2>4
<1> QED
  BY <1>1, <1>2, <1>3 DEF Next, Answered

(* Whoever calls a method last gets the answer to that call.               *)
THEOREM LastCallHearsItself == Spec => []LastHearsItself
<1>1. Init => LastHearsItself
  BY DEF Init, LastHearsItself, Made
<1> QED
  BY InitInv, InvStep, LastHearsStep, <1>1, PTL DEF Spec

-----------------------------------------------------------------------------
(* Vue's scheduler.                                                        *)

(* The folds of Work.                                                      *)
Queues == INSTANCE Folding WITH op <- QueueWatcher
Makes == INSTANCE Folding WITH op <- NewWatcher

LEMMA QueuesIsFold ==
  ASSUME NEW s, NEW q PROVE FoldLeft(QueueWatcher, s, q) = Queues!Fold(s, q)
BY DEF Queues!Fold, Queues!FoldLeft, FoldLeft, Queues!MapThenFoldSet, MapThenFoldSet,
       Queues!Max, Max

LEMMA MakesIsFold ==
  ASSUME NEW s, NEW q PROVE FoldLeft(NewWatcher, s, q) = Makes!Fold(s, q)
BY DEF Makes!Fold, Makes!FoldLeft, FoldLeft, Makes!MapThenFoldSet, MapThenFoldSet,
       Makes!Max, Max

State ==
  [queue : Seq(Watcher), has : SUBSET Watcher, at : Nat, waiting : BOOLEAN,
   flushing : BOOLEAN, uid : Nat, wid : [Watcher -> Nat]]

(* The places of those still to be run.                                    *)
Left(s) == s.at + 1 .. Len(s.queue)

(* Ids differ, and whoever is queued has one.                              *)
IdInv(s) ==
  /\ \A i \in Watcher : s.wid[i] <= s.uid
  /\ \A i, j \in Watcher : s.wid[i] = s.wid[j] /\ s.wid[i] > 0 => i = j
  /\ \A j \in 1 .. Len(s.queue) : s.wid[s.queue[j]] > 0

(* has and the rest of the queue say the same, each watcher once.          *)
LeftInv(s) ==
  /\ s.at <= Len(s.queue)
  /\ ~s.flushing => s.at = 0
  /\ \A j \in Left(s) : s.queue[j] \in s.has
  /\ \A i \in s.has : \E j \in Left(s) : s.queue[j] = i
  /\ \A j, k \in Left(s) : s.queue[j] = s.queue[k] => j = k
  /\ s.has # {} \/ s.flushing => s.waiting

OrderInv(s) ==
  s.flushing => \A j, k \in Left(s) : j < k => s.wid[s.queue[j]] < s.wid[s.queue[k]]

SchedulerInv(s) == s \in State /\ IdInv(s) /\ LeftInv(s) /\ OrderInv(s)

LEMMA StateFields ==
  ASSUME NEW s \in State
  PROVE  /\ s.queue \in Seq(Watcher) /\ Len(s.queue) \in Nat /\ s.has \subseteq Watcher
         /\ s.at \in Nat
         /\ s.waiting \in BOOLEAN /\ s.flushing \in BOOLEAN /\ s.uid \in Nat
         /\ s.wid \in [Watcher -> Nat]
         /\ \A j \in 1 .. Len(s.queue) : s.queue[j] \in Watcher
<1>1. s.queue \in Seq(Watcher) /\ s.has \subseteq Watcher /\ s.at \in Nat
  BY DEF State
<1>2. s.waiting \in BOOLEAN /\ s.flushing \in BOOLEAN /\ s.uid \in Nat
  BY DEF State
<1>3. s.wid \in [Watcher -> Nat]
  BY DEF State
<1>4. \A j \in 1 .. Len(s.queue) : s.queue[j] \in Watcher
  BY <1>1, ElementOfSeq
<1> QED BY <1>1, <1>2, <1>3, <1>4, LenProperties

-----------------------------------------------------------------------------
(* A new watcher.                                                          *)

LEMMA NewWatcherFields ==
  ASSUME NEW s \in State, NEW i \in Watcher
  PROVE  LET t == NewWatcher(s, i) IN
         /\ t \in State
         /\ t.queue = s.queue /\ t.has = s.has /\ t.at = s.at
         /\ t.waiting = s.waiting /\ t.flushing = s.flushing
         /\ t.uid = s.uid + 1
         /\ t.wid = [s.wid EXCEPT ![i] = s.uid + 1]
<1> DEFINE t == NewWatcher(s, i)
<1>1. s.uid + 1 \in Nat /\ [s.wid EXCEPT ![i] = s.uid + 1] \in [Watcher -> Nat]
  BY StateFields
<1>2. /\ t.queue = s.queue /\ t.has = s.has /\ t.at = s.at
      /\ t.waiting = s.waiting /\ t.flushing = s.flushing
      /\ t.uid = s.uid + 1
      /\ t.wid = [s.wid EXCEPT ![i] = s.uid + 1]
  BY DEF NewWatcher, State
<1>3. t \in State
  BY <1>1 DEF NewWatcher, State
<1> HIDE DEF t
<1> QED BY <1>2, <1>3 DEF t

Among(i, q) == \E j \in 1 .. Len(q) : q[j] = i

(* Making watchers that are not there yet gives them the next ids.         *)
MadeFrom(s, q, t) ==
  /\ t \in State
  /\ t.queue = s.queue /\ t.has = s.has /\ t.at = s.at
  /\ t.waiting = s.waiting /\ t.flushing = s.flushing
  /\ s.uid <= t.uid
  /\ \A i \in Watcher : s.wid[i] > 0 => t.wid[i] = s.wid[i]
  /\ \A i \in Watcher : s.wid[i] = 0 /\ t.wid[i] > 0 => t.wid[i] > s.uid
  /\ \A i \in Watcher : t.wid[i] > 0 <=> s.wid[i] > 0 \/ Among(i, q)
  /\ IdInv(t)

LEMMA MadeNothing ==
  ASSUME NEW s, SchedulerInv(s) PROVE MadeFrom(s, <<>>, s)
<1>1. s \in State /\ s.wid \in [Watcher -> Nat] /\ s.uid \in Nat /\ IdInv(s)
  BY StateFields DEF SchedulerInv
<1>2. \A i \in Watcher : ~Among(i, <<>>)
  BY DEF Among
<1>3. \A i \in Watcher : s.wid[i] \in Nat
  BY <1>1
<1> QED BY <1>1, <1>2, <1>3 DEF MadeFrom

LEMMA MadeOneMore ==
  ASSUME NEW s, SchedulerInv(s), NEW q \in Seq(Watcher), NEW t, MadeFrom(s, q, t),
         NEW i \in Watcher, s.wid[i] = 0, \A j \in 1 .. Len(q) : q[j] # i
  PROVE  MadeFrom(s, Append(q, i), NewWatcher(t, i))
<1> DEFINE u == NewWatcher(t, i)
           r == Append(q, i)
<1>1. t \in State /\ s \in State
  BY DEF MadeFrom, SchedulerInv
<1>2. /\ u \in State
      /\ u.queue = t.queue /\ u.has = t.has /\ u.at = t.at
      /\ u.waiting = t.waiting /\ u.flushing = t.flushing
      /\ u.uid = t.uid + 1
      /\ u.wid = [t.wid EXCEPT ![i] = t.uid + 1]
  BY <1>1, NewWatcherFields
<1>3. /\ t.wid \in [Watcher -> Nat] /\ t.uid \in Nat /\ s.wid \in [Watcher -> Nat]
      /\ s.uid \in Nat /\ Len(q) \in Nat
      /\ \A j \in 1 .. Len(t.queue) : t.queue[j] \in Watcher
  BY <1>1, StateFields, LenProperties
<1>4. \A k \in Watcher : Among(k, r) <=> k = i \/ Among(k, q)
  <2> TAKE k \in Watcher
  <2>1. /\ Len(r) = Len(q) + 1 /\ r[Len(q) + 1] = i
        /\ \A j \in 1 .. Len(q) : r[j] = q[j]
    BY AppendProperties
  <2>2. \A j \in 1 .. Len(q) + 1 : j = Len(q) + 1 \/ j \in 1 .. Len(q)
    BY <1>3
  <2>3. Len(q) + 1 \in 1 .. Len(q) + 1 /\ 1 .. Len(q) \subseteq 1 .. Len(q) + 1
    BY <1>3
  <2> HIDE DEF r
  <2> QED BY <2>1, <2>2, <2>3 DEF Among
<1> HIDE DEF u, r
<1>5. t.wid[i] = 0
  <2>1. ~Among(i, q)
    BY DEF Among
  <2>2. ~(t.wid[i] > 0)
    BY <2>1 DEF MadeFrom
  <2> QED BY <1>3, <2>2
<1>6. u.wid[i] = t.uid + 1 /\ \A k \in Watcher \ {i} : u.wid[k] = t.wid[k]
  BY <1>2, <1>3
<1>7. IdInv(t) /\ \A k \in Watcher : t.wid[k] <= t.uid
  BY DEF MadeFrom, IdInv
<1>8. IdInv(u)
  <2>1. \A k \in Watcher : u.wid[k] <= u.uid
    BY <1>2, <1>3, <1>6, <1>7
  <2>2. \A j, k \in Watcher : u.wid[j] = u.wid[k] /\ u.wid[j] > 0 => j = k
    <3> SUFFICES ASSUME NEW j \in Watcher, NEW k \in Watcher,
                        u.wid[j] = u.wid[k], u.wid[j] > 0
                 PROVE  j = k
      OBVIOUS
    <3>1. CASE j # i /\ k # i
      BY <3>1, <1>6, <1>7 DEF IdInv
    <3>2. CASE j = i
      BY <3>2, <1>3, <1>6, <1>7
    <3>3. CASE k = i
      BY <3>3, <1>3, <1>6, <1>7
    <3> QED BY <3>1, <3>2, <3>3
  <2>3. \A j \in 1 .. Len(u.queue) : u.wid[u.queue[j]] > 0
    BY <1>2, <1>3, <1>5, <1>6, <1>7 DEF IdInv
  <2> QED BY <2>1, <2>2, <2>3 DEF IdInv
<1>9. /\ s.uid <= u.uid
      /\ \A k \in Watcher : s.wid[k] > 0 => u.wid[k] = s.wid[k]
      /\ \A k \in Watcher : s.wid[k] = 0 /\ u.wid[k] > 0 => u.wid[k] > s.uid
  BY <1>2, <1>3, <1>5, <1>6 DEF MadeFrom
<1>10. \A k \in Watcher : u.wid[k] > 0 <=> s.wid[k] > 0 \/ Among(k, r)
  BY <1>3, <1>4, <1>5, <1>6 DEF MadeFrom
<1> QED BY <1>2, <1>8, <1>9, <1>10 DEF MadeFrom, u, r

(* What comes of making distinct watchers that are not there yet.          *)
LEMMA MadeAll ==
  ASSUME NEW s, SchedulerInv(s), NEW q \in Seq(Watcher \ Born(s)),
         \A j, k \in 1 .. Len(q) : q[j] = q[k] => j = k
  PROVE  MadeFrom(s, q, FoldLeft(NewWatcher, s, q))
<1> DEFINE E == Watcher \ Born(s)
           Differ(r) == \A j, k \in 1 .. Len(r) : r[j] = r[k] => j = k
           U == {r \in Seq(E) : Differ(r) => MadeFrom(s, r, Makes!Fold(s, r))}
<1>1. s \in State /\ s.wid \in [Watcher -> Nat]
  BY StateFields DEF SchedulerInv
<1>2. \A v \in State, e \in E : NewWatcher(v, e) \in State
  BY NewWatcherFields
<1>3. \A e \in E : e \in Watcher /\ s.wid[e] = 0
  BY <1>1 DEF Born
<1>4. <<>> \in U
  <2>1. Makes!Fold(s, <<>>) = s
    <3> HIDE DEF E
    <3> QED BY <1>1, <1>2, Makes!FoldEmpty
  <2> QED BY <2>1, MadeNothing
<1>5. ASSUME NEW r \in Seq(E), r \in U, NEW e \in E PROVE Append(r, e) \in U
  <2>0. Append(r, e) \in Seq(E)
    <3> HIDE DEF E
    <3> QED BY AppendProperties
  <2> SUFFICES ASSUME Differ(Append(r, e))
               PROVE  MadeFrom(s, Append(r, e), Makes!Fold(s, Append(r, e)))
    BY <2>0
  <2>1. /\ Len(r) \in Nat /\ Len(Append(r, e)) = Len(r) + 1
        /\ Append(r, e)[Len(r) + 1] = e
        /\ \A j \in 1 .. Len(r) : Append(r, e)[j] = r[j]
    BY LenProperties, AppendProperties
  <2>2. Len(r) + 1 \in 1 .. Len(r) + 1 /\ \A j \in 1 .. Len(r) : j \in 1 .. Len(r) + 1 /\ j # Len(r) + 1
    BY <2>1
  <2>3. Differ(r)
    BY <2>1, <2>2
  <2>4. \A j \in 1 .. Len(r) : r[j] # e
    BY <2>1, <2>2
  <2>5. Makes!Fold(s, Append(r, e)) = NewWatcher(Makes!Fold(s, r), e)
    <3> HIDE DEF E
    <3> QED BY <1>1, <1>2, Makes!FoldAppend
  <2>6. MadeFrom(s, r, Makes!Fold(s, r))
    BY <1>5, <2>3
  <2>7. r \in Seq(Watcher)
    <3>1. E \subseteq Watcher
      OBVIOUS
    <3> HIDE DEF E
    <3> QED BY <3>1
  <2> DEFINE t == Makes!Fold(s, r)
  <2> HIDE DEF t
  <2>8. MadeFrom(s, Append(r, e), NewWatcher(t, e))
    <3>1. MadeFrom(s, r, t)
      BY <2>6 DEF t
    <3> QED BY <1>3, <2>4, <2>7, <3>1, MadeOneMore
  <2> QED BY <2>5, <2>8 DEF t
<1>6. Seq(E) \subseteq U
  <2> HIDE DEF E, U
  <2> QED BY <1>4, <1>5, Makes!SequencesBuilt
<1>7. q \in U /\ Differ(q)
  BY <1>6
<1> QED BY <1>7, MakesIsFold

-----------------------------------------------------------------------------
(* A watcher that is queued.                                               *)

LEMMA Inserted ==
  ASSUME NEW S, NEW q \in Seq(S), NEW p \in 1 .. Len(q) + 1, NEW e \in S
  PROVE  /\ InsertAt(q, p, e) \in Seq(S)
         /\ Len(InsertAt(q, p, e)) = Len(q) + 1
         /\ \A j \in 1 .. Len(q) + 1 :
              InsertAt(q, p, e)[j] = IF j < p THEN q[j] ELSE IF j = p THEN e ELSE q[j - 1]
<1> DEFINE n == Len(q)
           a == SubSeq(q, 1, p - 1)
           c == SubSeq(q, p, n)
           b == a \o <<e>>
<1>1. n \in Nat /\ p \in Nat /\ p >= 1 /\ p <= n + 1
  BY LenProperties
<1>2. a \in Seq(S) /\ Len(a) = p - 1 /\ \A j \in 1 .. p - 1 : a[j] = q[j]
  BY <1>1
<1>3. c \in Seq(S) /\ Len(c) = n - p + 1 /\ \A j \in 1 .. n - p + 1 : c[j] = q[j + p - 1]
  BY <1>1
<1>4. InsertAt(q, p, e) = b \o c
  BY DEF InsertAt
<1> HIDE DEF a, c, n
<1>5. b \in Seq(S) /\ Len(b) = p /\ b[p] = e /\ \A j \in 1 .. p - 1 : b[j] = q[j]
  BY <1>1, <1>2
<1> HIDE DEF b
<1>6. b \o c \in Seq(S) /\ Len(b \o c) = n + 1
  <2>1. b \o c \in Seq(S) /\ Len(b \o c) = Len(b) + Len(c)
    BY <1>3, <1>5, ConcatProperties
  <2> QED BY <1>1, <1>3, <1>5, <2>1
<1>7. ASSUME NEW j \in 1 .. n + 1
      PROVE  (b \o c)[j] = IF j < p THEN q[j] ELSE IF j = p THEN e ELSE q[j - 1]
  <2>1. CASE j <= p
    <3>1. (b \o c)[j] = b[j]
      BY <1>1, <1>3, <1>5, <2>1
    <3> QED BY <1>1, <1>5, <2>1, <3>1
  <2>2. CASE j > p
    <3>1. (b \o c)[j] = c[j - p]
      BY <1>1, <1>3, <1>5, <2>2
    <3>2. j - p \in 1 .. n - p + 1 /\ (j - p) + p - 1 = j - 1
      BY <1>1, <2>2
    <3> QED BY <1>1, <1>3, <2>2, <3>1, <3>2
  <2>3. j <= p \/ j > p
    BY <1>1
  <2> QED BY <2>1, <2>2, <2>3
<1> QED BY <1>4, <1>6, <1>7 DEF n

(* Place: the younger ones behind it, the elder ones before it.            *)
LEMMA PlaceFits ==
  ASSUME NEW s, SchedulerInv(s), s.flushing,
         NEW i \in Watcher, s.wid[i] > 0, i \notin s.has
  PROVE  /\ Place(s, i) \in s.at + 1 .. Len(s.queue) + 1
         /\ \A j \in Left(s) : j < Place(s, i) => s.wid[s.queue[j]] < s.wid[i]
         /\ \A j \in Left(s) : j >= Place(s, i) => s.wid[s.queue[j]] > s.wid[i]
<1> DEFINE n == Len(s.queue)
           a == s.at
           id(j) == s.wid[s.queue[j]]
           later == {j \in a + 1 .. n : id(j) > s.wid[i]}
           T == {j \in a + 1 .. n + 1 : j .. n \subseteq later}
           Fits(j) == /\ j .. n \subseteq later
                      /\ j > a + 1 => j - 1 \notin later
           p == Place(s, i)
<1>1. /\ s \in State /\ n \in Nat /\ a \in Nat /\ a <= n
      /\ s.wid \in [Watcher -> Nat]
      /\ \A j \in 1 .. n : s.queue[j] \in Watcher
  BY StateFields DEF SchedulerInv, LeftInv
<1>2. /\ \A j \in a + 1 .. n : s.queue[j] \in s.has /\ s.queue[j] \in Watcher
      /\ \A j, k \in a + 1 .. n : j < k => id(j) < id(k)
  <2>1. \A j \in a + 1 .. n : j \in 1 .. n
    BY <1>1
  <2> QED BY <1>1, <2>1 DEF SchedulerInv, LeftInv, OrderInv, Left
<1>3. \A j \in a + 1 .. n : id(j) \in Nat /\ id(j) # s.wid[i]
  BY <1>1, <1>2 DEF SchedulerInv, IdInv
<1>4. n + 1 \in T
  BY <1>1
<1>5. PICK k \in T : \A j \in T : ~(j < k)
  <2>1. T \subseteq Nat
    BY <1>1
  <2>2. T # {}
    BY <1>4
  <2> HIDE DEF T
  <2> QED BY <2>1, <2>2, Queues!LeastNumber
<1>6. k \in a + 1 .. n + 1 /\ Fits(k)
  <2>1. ASSUME k > a + 1, k - 1 \in later PROVE FALSE
    <3>1. k - 1 \in a + 1 .. n + 1 /\ k - 1 < k
      BY <1>1, <2>1
    <3>2. (k - 1) .. n \subseteq later
      <4>1. \A j \in (k - 1) .. n : j = k - 1 \/ j \in k .. n
        BY <1>1, <3>1
      <4> HIDE DEF later
      <4> QED BY <2>1, <4>1
    <3> HIDE DEF later
    <3> QED BY <1>5, <3>1, <3>2
  <2> QED BY <2>1
<1>7. p = CHOOSE j \in a + 1 .. n + 1 : Fits(j)
  BY DEF Place
<1>8. p \in a + 1 .. n + 1 /\ Fits(p)
  <2> HIDE DEF p, Fits
  <2> QED BY <1>6, <1>7
<1>9. ASSUME NEW j \in a + 1 .. n, j >= p PROVE id(j) > s.wid[i]
  <2>1. j \in p .. n
    BY <1>1, <1>8, <1>9
  <2> HIDE DEF p
  <2> QED BY <1>8, <2>1
<1>10. ASSUME NEW j \in a + 1 .. n, j < p PROVE id(j) < s.wid[i]
  <2>1. p > a + 1 /\ p - 1 \in a + 1 .. n /\ j <= p - 1
    BY <1>1, <1>8, <1>10
  <2>2. p - 1 \notin later
    BY <1>8, <2>1
  <2>3. id(p - 1) < s.wid[i]
    <3>1. ~(id(p - 1) > s.wid[i])
      BY <2>1, <2>2
    <3>2. id(p - 1) \in Nat /\ s.wid[i] \in Nat /\ id(p - 1) # s.wid[i]
      BY <1>1, <1>3, <2>1
    <3> HIDE DEF id, p
    <3> QED BY <3>1, <3>2
  <2>4. j = p - 1 \/ id(j) < id(p - 1)
    BY <1>1, <1>2, <2>1
  <2>5. id(j) \in Nat /\ id(p - 1) \in Nat /\ s.wid[i] \in Nat
    BY <1>1, <1>3, <2>1
  <2> HIDE DEF id, p
  <2> QED BY <2>3, <2>4, <2>5
<1> HIDE DEF p, id
<1> QED BY <1>1, <1>8, <1>9, <1>10 DEF p, id, Left

LEMMA QueueWatcherFields ==
  ASSUME NEW s, SchedulerInv(s), NEW i \in Watcher, s.wid[i] > 0, i \notin s.has
  PROVE  LET t == QueueWatcher(s, i)
             p == IF s.flushing THEN Place(s, i) ELSE Len(s.queue) + 1 IN
         /\ t \in State
         /\ p \in s.at + 1 .. Len(s.queue) + 1
         /\ t.queue = InsertAt(s.queue, p, i) /\ t.has = s.has \cup {i} /\ t.waiting = TRUE
         /\ t.at = s.at /\ t.flushing = s.flushing /\ t.uid = s.uid /\ t.wid = s.wid
<1> DEFINE t == QueueWatcher(s, i)
           p == IF s.flushing THEN Place(s, i) ELSE Len(s.queue) + 1
           q == InsertAt(s.queue, p, i)
<1>1. /\ s \in State /\ Len(s.queue) \in Nat /\ s.at \in Nat /\ s.at <= Len(s.queue)
      /\ s.queue \in Seq(Watcher) /\ s.has \subseteq Watcher
  BY StateFields DEF SchedulerInv, LeftInv
<1>2. p \in s.at + 1 .. Len(s.queue) + 1
  <2>1. Len(s.queue) + 1 \in s.at + 1 .. Len(s.queue) + 1
    BY <1>1
  <2> QED BY <2>1, PlaceFits
<1>3. q \in Seq(Watcher)
  <2>1. p \in 1 .. Len(s.queue) + 1
    BY <1>1, <1>2
  <2> HIDE DEF p
  <2> QED BY <1>1, <2>1, Inserted
<1>4. t = [s EXCEPT !.has = s.has \cup {i}, !.waiting = TRUE, !.queue = q]
  BY DEF QueueWatcher
<1> HIDE DEF q, p, t
<1>5. t \in State
  BY <1>1, <1>3, <1>4 DEF State
<1>6. /\ t.queue = q /\ t.has = s.has \cup {i} /\ t.waiting = TRUE
      /\ t.at = s.at /\ t.flushing = s.flushing /\ t.uid = s.uid /\ t.wid = s.wid
  BY <1>1, <1>4 DEF State
<1> QED BY <1>2, <1>5, <1>6 DEF t, p, q

LEMMA QueueWatcherKeepsInv ==
  ASSUME NEW s, SchedulerInv(s), NEW i \in Watcher, s.wid[i] > 0, i \notin s.has
  PROVE  SchedulerInv(QueueWatcher(s, i))
<1> DEFINE t == QueueWatcher(s, i)
           p == IF s.flushing THEN Place(s, i) ELSE Len(s.queue) + 1
           n == Len(s.queue)
<1>1. /\ t \in State /\ p \in s.at + 1 .. n + 1
      /\ t.queue = InsertAt(s.queue, p, i) /\ t.has = s.has \cup {i} /\ t.waiting = TRUE
      /\ t.at = s.at /\ t.flushing = s.flushing /\ t.uid = s.uid /\ t.wid = s.wid
  BY QueueWatcherFields
<1>2. /\ s \in State /\ n \in Nat /\ s.at \in Nat /\ s.at <= n
      /\ s.queue \in Seq(Watcher) /\ s.wid \in [Watcher -> Nat]
      /\ \A j \in 1 .. n : s.queue[j] \in Watcher
  BY StateFields DEF SchedulerInv, LeftInv
<1>3. s.flushing => /\ \A j \in Left(s) : j < p => s.wid[s.queue[j]] < s.wid[i]
                    /\ \A j \in Left(s) : j >= p => s.wid[s.queue[j]] > s.wid[i]
  BY PlaceFits
<1> HIDE DEF t, p, n
<1>4. /\ Len(t.queue) = n + 1
      /\ \A j \in 1 .. n + 1 :
           t.queue[j] = IF j < p THEN s.queue[j] ELSE IF j = p THEN i ELSE s.queue[j - 1]
  <2>1. p \in 1 .. Len(s.queue) + 1
    BY <1>1, <1>2 DEF n
  <2>2. s.queue \in Seq(Watcher)
    BY <1>2
  <2>3. /\ Len(InsertAt(s.queue, p, i)) = Len(s.queue) + 1
        /\ \A j \in 1 .. Len(s.queue) + 1 :
             InsertAt(s.queue, p, i)[j] =
               IF j < p THEN s.queue[j] ELSE IF j = p THEN i ELSE s.queue[j - 1]
    BY <2>1, <2>2, Inserted
  <2> QED BY <1>1, <2>3 DEF n
<1>5. Left(t) = s.at + 1 .. n + 1 /\ Left(s) = s.at + 1 .. n
  BY <1>1, <1>4 DEF Left, n
<1>6. p \in Left(t) /\ t.queue[p] = i
  BY <1>1, <1>2, <1>4, <1>5
<1>7. ASSUME NEW j \in Left(t), j < p
      PROVE  j \in Left(s) /\ t.queue[j] = s.queue[j]
  <2>1. j \in 1 .. n + 1 /\ j \in s.at + 1 .. n
    BY <1>1, <1>2, <1>5, <1>7
  <2> QED BY <1>4, <1>5, <1>7, <2>1
<1>8. ASSUME NEW j \in Left(t), j > p
      PROVE  j - 1 \in Left(s) /\ j - 1 >= p /\ t.queue[j] = s.queue[j - 1]
  <2>1. j \in 1 .. n + 1 /\ j - 1 \in s.at + 1 .. n /\ j - 1 >= p /\ ~(j < p) /\ j # p
    BY <1>1, <1>2, <1>5, <1>8
  <2> QED BY <1>4, <1>5, <2>1
<1>9. \A j \in Left(t) : j < p \/ j = p \/ j > p
  BY <1>1, <1>2, <1>5
<1>10. ASSUME NEW j \in Left(s)
       PROVE  \/ j < p /\ j \in Left(t) /\ t.queue[j] = s.queue[j]
              \/ j >= p /\ j + 1 \in Left(t) /\ t.queue[j + 1] = s.queue[j]
  <2>1. j \in Left(t) /\ j + 1 \in Left(t) /\ (j < p \/ j >= p) /\ (j >= p => j + 1 > p)
        /\ (j + 1) - 1 = j
    BY <1>1, <1>2, <1>5
  <2> QED BY <1>7, <1>8, <2>1
<1>11. /\ \A j \in Left(s) : s.queue[j] \in s.has
       /\ \A w \in s.has : \E j \in Left(s) : s.queue[j] = w
       /\ \A j, k \in Left(s) : s.queue[j] = s.queue[k] => j = k
       /\ ~s.flushing => s.at = 0
  BY DEF SchedulerInv, LeftInv
<1>12. LeftInv(t)
  <2>1. t.at <= Len(t.queue) /\ (~t.flushing => t.at = 0) /\ t.waiting
    BY <1>1, <1>2, <1>4, <1>11
  <2>2. \A j \in Left(t) : t.queue[j] \in t.has
    BY <1>1, <1>6, <1>7, <1>8, <1>9, <1>11
  <2>3. \A w \in t.has : \E j \in Left(t) : t.queue[j] = w
    <3> SUFFICES ASSUME NEW w \in t.has PROVE \E j \in Left(t) : t.queue[j] = w
      OBVIOUS
    <3>1. CASE w = i
      BY <3>1, <1>6
    <3>2. CASE w \in s.has
      <4>1. PICK j \in Left(s) : s.queue[j] = w
        BY <3>2, <1>11
      <4> QED BY <4>1, <1>10
    <3> QED BY <3>1, <3>2, <1>1
  <2>4. ASSUME NEW j \in Left(t), NEW k \in Left(t), t.queue[j] = t.queue[k] PROVE j = k
    <3>1. CASE j = p \/ k = p
      BY <3>1, <2>4, <1>6, <1>7, <1>8, <1>9, <1>11
    <3>2. CASE j < p /\ k < p
      BY <3>2, <2>4, <1>7, <1>11
    <3>3. CASE j > p /\ k > p
      <4>1. j - 1 = k - 1
        BY <3>3, <2>4, <1>8, <1>11
      <4> QED BY <4>1, <1>2, <1>5
    <3>4. ASSUME NEW a \in Left(t), NEW b \in Left(t), a < p, b > p, t.queue[a] = t.queue[b]
          PROVE  FALSE
      <4>1. a = b - 1 /\ b - 1 >= p
        BY <3>4, <1>7, <1>8, <1>11
      <4> QED BY <4>1, <3>4, <1>1, <1>2, <1>5
    <3> QED BY <3>1, <3>2, <3>3, <3>4, <2>4, <1>9
  <2> QED BY <2>1, <2>2, <2>3, <2>4 DEF LeftInv
<1>13. IdInv(t)
  <2>1. ASSUME NEW j \in 1 .. n + 1 PROVE t.wid[t.queue[j]] > 0
    <3>1. CASE j < p
      <4>1. j \in 1 .. n
        BY <3>1, <1>1, <1>2
      <4> QED BY <4>1, <3>1, <1>1, <1>4 DEF SchedulerInv, IdInv, n
    <3>2. CASE j = p
      BY <3>2, <1>1, <1>4
    <3>3. CASE j > p
      <4>1. j - 1 \in 1 .. n /\ ~(j < p) /\ j # p
        BY <3>3, <1>1, <1>2
      <4> QED BY <4>1, <1>1, <1>4 DEF SchedulerInv, IdInv, n
    <3>4. j < p \/ j = p \/ j > p
      BY <1>1, <1>2
    <3> QED BY <3>1, <3>2, <3>3, <3>4
  <2> QED BY <2>1, <1>1, <1>4 DEF SchedulerInv, IdInv
<1>14. OrderInv(t)
  <2> SUFFICES ASSUME s.flushing, NEW j \in Left(t), NEW k \in Left(t), j < k
               PROVE  s.wid[t.queue[j]] < s.wid[t.queue[k]]
    BY <1>1 DEF OrderInv
  <2>1. /\ \A a, b \in Left(s) : a < b => s.wid[s.queue[a]] < s.wid[s.queue[b]]
        /\ j \in Int /\ k \in Int /\ p \in Int
    BY <1>1, <1>2, <1>5 DEF SchedulerInv, OrderInv
  <2>2. CASE k < p
    BY <2>1, <2>2, <1>7
  <2>3. CASE j > p
    <3>1. j - 1 < k - 1 /\ k > p
      BY <2>1, <2>3
    <3> QED BY <3>1, <2>1, <2>3, <1>8
  <2>4. CASE j = p
    BY <2>1, <2>4, <1>3, <1>6, <1>8
  <2>5. CASE k = p
    BY <2>1, <2>5, <1>3, <1>6, <1>7
  <2>6. CASE j < p /\ k > p
    <3>1. /\ j \in Left(s) /\ k - 1 \in Left(s) /\ j < k - 1
          /\ t.queue[j] = s.queue[j] /\ t.queue[k] = s.queue[k - 1]
      BY <2>1, <2>6, <1>7, <1>8
    <3> QED BY <3>1, <2>1
  <2> QED BY <2>1, <2>2, <2>3, <2>4, <2>5, <2>6
<1> QED BY <1>1, <1>12, <1>13, <1>14 DEF SchedulerInv, t

(* What comes of queueing watchers that are there.                         *)
QueuedFrom(s, t) ==
  /\ t \in State /\ SchedulerInv(t)
  /\ t.wid = s.wid /\ t.flushing = s.flushing
  /\ s.has \subseteq t.has

LEMMA QueuedAll ==
  ASSUME NEW s, SchedulerInv(s), NEW q \in Seq(Born(s))
  PROVE  QueuedFrom(s, FoldLeft(QueueWatcher, s, q))
<1> DEFINE E == Born(s)
           V == {t \in State : QueuedFrom(s, t)}
<1>1. s \in State
  BY DEF SchedulerInv
<1>2. s \in V
  BY <1>1 DEF QueuedFrom
<1>3. ASSUME NEW t \in V, NEW i \in E PROVE QueueWatcher(t, i) \in V
  <2>1. QueuedFrom(s, t) /\ i \in Watcher /\ t.wid[i] > 0
    BY DEF QueuedFrom, Born
  <2>2. CASE i \in t.has
    BY <2>2 DEF QueueWatcher
  <2>3. CASE i \notin t.has
    <3> DEFINE u == QueueWatcher(t, i)
    <3>1. SchedulerInv(t)
      BY <2>1 DEF QueuedFrom
    <3>2. SchedulerInv(u)
      BY <2>1, <2>3, <3>1, QueueWatcherKeepsInv
    <3>3. u \in State /\ u.has = t.has \cup {i} /\ u.flushing = t.flushing /\ u.wid = t.wid
      BY <2>1, <2>3, <3>1, QueueWatcherFields
    <3> HIDE DEF u
    <3>4. u \in State /\ QueuedFrom(s, u)
      BY <2>1, <3>2, <3>3 DEF QueuedFrom
    <3> QED BY <3>4 DEF u
  <2> QED BY <2>2, <2>3
<1>4. Queues!Fold(s, q) \in V
  <2> HIDE DEF E, V
  <2>1. \A t \in V, i \in E : QueueWatcher(t, i) \in V
    BY <1>3
  <2>2. q \in Seq(E)
    BY DEF E
  <2> QED BY <1>2, <2>1, <2>2, Queues!FoldType
<1> QED BY <1>4, QueuesIsFold

-----------------------------------------------------------------------------
(* Work, and the parts of a flush.                                         *)

(* A sequence of a finite set's elements, each once.                       *)
LEMMA Arranged ==
  ASSUME NEW S, IsFiniteSet(S), NEW q \in SetToSeqs(S)
  PROVE  /\ q \in Seq(S)
         /\ \A j, k \in 1 .. Len(q) : q[j] = q[k] => j = k
         /\ \A i \in S : Among(i, q)
<1> DEFINE c == Cardinality(S)
<1>1. c \in Nat
  BY FS_CardinalityType
<1>2. q \in [1 .. c -> S] /\ \A j, k \in 1 .. c : j # k => q[j] # q[k]
  BY DEF SetToSeqs
<1> HIDE DEF c
<1>3. q \in Seq(S) /\ Len(q) = c
  BY <1>1, <1>2
<1>4. q \in Surjection(1 .. c, S)
  <2>1. q \in Injection(1 .. c, S)
    BY <1>2 DEF Injection, IsInjective
  <2>2. Cardinality(1 .. c) = c
    BY <1>1, FS_Interval
  <2> QED BY <2>1, <2>2, FS_Injection DEF c
<1> QED BY <1>2, <1>3, <1>4 DEF Surjection, Among

WorkedFrom(s, t) ==
  /\ SchedulerInv(t)
  /\ t.flushing = s.flushing
  /\ s.has \subseteq t.has
  /\ \A i \in Watcher : s.wid[i] > 0 => t.wid[i] = s.wid[i]
  /\ \A i \in Watcher : s.wid[i] = 0 /\ t.wid[i] > 0 => t.wid[i] > s.uid

LEMMA WorkKeepsInv ==
  ASSUME NEW s, SchedulerInv(s), NEW new \in SUBSET Watcher, NEW asked \in SUBSET Watcher,
         NEW t \in Worked(s, new, asked)
  PROVE  WorkedFrom(s, t)
<1> DEFINE M == new \ Born(s)
           A == asked \cap (Born(s) \cup new)
<1>1. IsFiniteSet(M) /\ IsFiniteSet(A) /\ M \subseteq Watcher \ Born(s)
      /\ A \subseteq Born(s) \cup M
  BY WatcherAssumption, FS_Subset
<1>2. PICK m \in SetToSeqs(M), q \in SetToSeqs(A) : t = Work(s, m, q)
  <2> DEFINE Works == {Work(s, m, q) : m \in SetToSeqs(M), q \in SetToSeqs(A)}
  <2>0. Worked(s, new, asked) = {u \in Works : \A i \in Watcher : Runs(u, i) <= MaxRuns}
    BY DEF Worked
  <2>1. t \in Works
    <3> HIDE DEF Works
    <3> QED BY <2>0
  <2> HIDE DEF M, A
  <2> QED BY <2>1
<1> HIDE DEF M, A
<1> DEFINE u == FoldLeft(NewWatcher, s, m)
<1>3. /\ m \in Seq(M) /\ q \in Seq(A)
      /\ \A j, k \in 1 .. Len(m) : m[j] = m[k] => j = k
  BY <1>1, Arranged
<1>4. MadeFrom(s, m, u)
  <2>1. m \in Seq(Watcher \ Born(s))
    BY <1>1, <1>3
  <2> QED BY <1>3, <2>1, MadeAll
<1>5. t = FoldLeft(QueueWatcher, u, q)
  BY <1>2 DEF Work
<1>6. s \in State /\ s.wid \in [Watcher -> Nat] /\ Len(s.queue) \in Nat /\ s.at \in Nat
      /\ \A j \in 1 .. Len(s.queue) : s.queue[j] \in Watcher
  BY StateFields DEF SchedulerInv
<1> HIDE DEF u
<1>7. SchedulerInv(u)
  <2>1. LeftInv(u)
    BY <1>4 DEF MadeFrom, SchedulerInv, LeftInv, Left
  <2>2. OrderInv(u)
    <3> SUFFICES ASSUME s.flushing, NEW j \in Left(s), NEW k \in Left(s), j < k
                 PROVE  u.wid[s.queue[j]] < u.wid[s.queue[k]]
      BY <1>4 DEF OrderInv, MadeFrom, Left
    <3>1. j \in 1 .. Len(s.queue) /\ k \in 1 .. Len(s.queue)
      BY <1>6 DEF Left
    <3>2. /\ s.wid[s.queue[j]] < s.wid[s.queue[k]]
          /\ s.wid[s.queue[j]] > 0 /\ s.wid[s.queue[k]] > 0
      BY <3>1 DEF SchedulerInv, OrderInv, IdInv
    <3>3. s.queue[j] \in Watcher /\ s.queue[k] \in Watcher
      BY <1>6, <3>1
    <3> QED BY <1>4, <3>2, <3>3 DEF MadeFrom
  <2> QED BY <2>1, <2>2, <1>4 DEF SchedulerInv, MadeFrom
<1>8. q \in Seq(Born(u))
  <2>1. ASSUME NEW i \in A PROVE i \in Born(u)
    <3>1. i \in Watcher /\ (i \in Born(s) \/ i \in M)
      BY <1>1 DEF Born
    <3>2. CASE i \in Born(s)
      BY <1>4, <3>1, <3>2 DEF MadeFrom, Born
    <3>3. CASE i \in M
      <4>1. Among(i, m)
        BY <1>1, <1>2, <3>3, Arranged
      <4> QED BY <1>4, <3>1, <4>1 DEF MadeFrom, Born
    <3> QED BY <3>1, <3>2, <3>3
  <2>2. A \subseteq Born(u)
    BY <2>1
  <2> QED BY <1>3, <2>2
<1>9. QueuedFrom(u, t)
  BY <1>5, <1>7, <1>8, QueuedAll
<1> QED BY <1>4, <1>9 DEF WorkedFrom, MadeFrom, QueuedFrom

(* flushSchedulerQueue begins: the same watchers, sorted.                  *)
LEMMA SortedExists ==
  ASSUME NEW s, SchedulerInv(s), NEW D \in SUBSET Watcher, \A i \in D : s.wid[i] > 0
  PROVE  \E l \in SetToSeqs(D) : \A j, k \in DOMAIN l : j < k => s.wid[l[j]] < s.wid[l[k]]
<1> DEFINE f == [i \in D |-> s.wid[i]]
<1>1. s.wid \in [Watcher -> Nat] /\ s.uid \in Nat
  BY StateFields DEF SchedulerInv
<1>2. f \in [D -> 0 .. s.uid]
  BY <1>1 DEF SchedulerInv, IdInv
<1>3. \A i, j \in D : f[i] = f[j] => i = j
  BY DEF SchedulerInv, IdInv
<1>4. \A i \in D : f[i] = s.wid[i]
  OBVIOUS
<1> HIDE DEF f
<1>5. PICK l \in Queues!SetToSeqs(D) : \A j, k \in DOMAIN l : j < k => f[l[j]] < f[l[k]]
  <2>1. IsFiniteSet(D)
    BY WatcherAssumption, FS_Subset
  <2>2. s.uid \in Nat
    BY <1>1
  <2> QED BY <1>2, <1>3, <2>1, <2>2, Queues!RisingExists DEF Queues!IsFiniteSet, IsFiniteSet
<1>6. l \in SetToSeqs(D)
  <2>1. Queues!Cardinality(D) = Cardinality(D)
    BY Zenon DEF Queues!Cardinality, Cardinality, Queues!IsFiniteSet, IsFiniteSet
  <2> QED BY <1>5, <2>1 DEF SetToSeqs, Queues!SetToSeqs
<1>7. \A j \in DOMAIN l : l[j] \in D
  BY <1>6 DEF SetToSeqs
<1> QED BY <1>4, <1>5, <1>6, <1>7

LEMMA BegunKeepsInv ==
  ASSUME NEW s, SchedulerInv(s), s.waiting, ~s.flushing
  PROVE  LET t == Begun(s) IN
         SchedulerInv(t) /\ t.flushing /\ t.has = s.has /\ t.wid = s.wid
<1> DEFINE D == ToSet(s.queue)
           Rising(l) == \A j, k \in DOMAIN l : j < k => s.wid[l[j]] < s.wid[l[k]]
           q == CHOOSE l \in SetToSeqs(D) : Rising(l)
           t == Begun(s)
<1>1. /\ s \in State /\ s.queue \in Seq(Watcher) /\ Len(s.queue) \in Nat
      /\ s.wid \in [Watcher -> Nat]
      /\ \A j \in 1 .. Len(s.queue) : s.queue[j] \in Watcher
  BY StateFields DEF SchedulerInv
<1>2. D = {s.queue[j] : j \in 1 .. Len(s.queue)}
  BY <1>1 DEF ToSet
<1>3. D \in SUBSET Watcher /\ \A i \in D : s.wid[i] > 0
  BY <1>1, <1>2 DEF SchedulerInv, IdInv
<1>4. D = s.has
  <2>1. Left(s) = 1 .. Len(s.queue)
    BY DEF SchedulerInv, LeftInv, Left
  <2> QED BY <1>2, <2>1 DEF SchedulerInv, LeftInv
<1>5. q \in SetToSeqs(D) /\ Rising(q)
  <2>1. \E l \in SetToSeqs(D) : Rising(l)
    <3> HIDE DEF D
    <3> QED BY <1>3, SortedExists
  <2> HIDE DEF D, Rising
  <2> QED BY <2>1
<1>6. t = [s EXCEPT !.flushing = TRUE, !.at = 0, !.queue = q]
  BY DEF Begun
<1> HIDE DEF D, q, t
<1>7. /\ q \in Seq(D) /\ Len(q) \in Nat /\ DOMAIN q = 1 .. Len(q)
      /\ \A j, k \in 1 .. Len(q) : q[j] = q[k] => j = k
      /\ \A i \in D : Among(i, q)
      /\ \A j \in 1 .. Len(q) : q[j] \in D
  <2>1. IsFiniteSet(D)
    BY <1>3, WatcherAssumption, FS_Subset
  <2>2. /\ q \in Seq(D)
        /\ \A j, k \in 1 .. Len(q) : q[j] = q[k] => j = k
        /\ \A i \in D : Among(i, q)
    BY <1>5, <2>1, Arranged
  <2> QED BY <2>2, LenProperties, ElementOfSeq
<1>8. t \in State
  <2>1. q \in Seq(Watcher)
    BY <1>3, <1>7
  <2> QED BY <1>1, <1>6, <2>1 DEF State
<1>9. /\ t.queue = q /\ t.at = 0 /\ t.flushing = TRUE /\ t.has = s.has
      /\ t.waiting = s.waiting /\ t.uid = s.uid /\ t.wid = s.wid
  BY <1>1, <1>6 DEF State
<1>10. Left(t) = 1 .. Len(q)
  BY <1>7, <1>9 DEF Left
<1>11. IdInv(t)
  BY <1>3, <1>7, <1>9 DEF SchedulerInv, IdInv
<1>12. LeftInv(t)
  BY <1>4, <1>7, <1>9, <1>10 DEF LeftInv, Among
<1>13. OrderInv(t)
  BY <1>5, <1>7, <1>9, <1>10 DEF OrderInv
<1> QED BY <1>8, <1>9, <1>11, <1>12, <1>13 DEF SchedulerInv, t

(* The next watcher of a flush is the eldest that waits, ...               *)
LEMMA TakenKeepsInv ==
  ASSUME NEW s, SchedulerInv(s), s.flushing, s.at < Len(s.queue)
  PROVE  LET t == Taken(s)
             i == s.queue[s.at + 1] IN
         /\ SchedulerInv(t) /\ t.flushing
         /\ i \in s.has /\ t.has = s.has \ {i} /\ t.wid = s.wid /\ t.uid = s.uid
         /\ \A j \in s.has : s.wid[i] <= s.wid[j]
<1> DEFINE t == Taken(s)
           i == s.queue[s.at + 1]
           n == Len(s.queue)
<1>1. /\ s \in State /\ n \in Nat /\ s.at \in Nat /\ s.has \subseteq Watcher
      /\ s.wid \in [Watcher -> Nat]
  BY StateFields DEF SchedulerInv
<1>2. t = [s EXCEPT !.at = s.at + 1, !.has = s.has \ {i}]
  BY DEF Taken
<1> HIDE DEF t, i
<1>3. t \in State
  <2>1. s.at + 1 \in Nat /\ s.has \ {i} \in SUBSET Watcher
    BY <1>1
  <2> QED BY <1>1, <1>2, <2>1 DEF State
<1>4. /\ t.queue = s.queue /\ t.at = s.at + 1 /\ t.flushing = s.flushing /\ t.has = s.has \ {i}
      /\ t.waiting = s.waiting /\ t.uid = s.uid /\ t.wid = s.wid
  BY <1>1, <1>2 DEF State
<1>5. s.at + 1 \in Left(s) /\ Left(t) = Left(s) \ {s.at + 1}
  <2>1. Left(s) = s.at + 1 .. n /\ Left(t) = s.at + 1 + 1 .. n
    BY <1>4 DEF Left
  <2> QED BY <1>1, <2>1
<1>6. /\ \A j \in Left(s) : s.queue[j] \in s.has
      /\ \A w \in s.has : \E j \in Left(s) : s.queue[j] = w
      /\ \A j, k \in Left(s) : s.queue[j] = s.queue[k] => j = k
      /\ \A j, k \in Left(s) : j < k => s.wid[s.queue[j]] < s.wid[s.queue[k]]
      /\ s.waiting
  BY DEF SchedulerInv, LeftInv, OrderInv
<1>7. i \in s.has
  BY <1>5, <1>6 DEF i
<1>8. ASSUME NEW j \in s.has PROVE s.wid[i] <= s.wid[j]
  <2>1. PICK k \in Left(s) : s.queue[k] = j
    BY <1>6
  <2>2. k = s.at + 1 \/ s.at + 1 < k
    BY <1>1, <2>1 DEF Left
  <2>3. s.wid[i] \in Nat /\ s.wid[j] \in Nat
    BY <1>1, <1>7
  <2>4. s.wid[i] = s.wid[j] \/ s.wid[i] < s.wid[j]
    BY <1>5, <1>6, <2>1, <2>2 DEF i
  <2> QED BY <2>3, <2>4
<1>9. IdInv(t)
  BY <1>4 DEF SchedulerInv, IdInv
<1>10. LeftInv(t)
  <2>1. t.at <= Len(t.queue)
    BY <1>1, <1>4
  <2>2. \A j \in Left(t) : t.queue[j] \in t.has
    BY <1>4, <1>5, <1>6 DEF i
  <2>3. \A w \in t.has : \E j \in Left(t) : t.queue[j] = w
    BY <1>4, <1>5, <1>6 DEF i
  <2>4. \A j, k \in Left(t) : t.queue[j] = t.queue[k] => j = k
    BY <1>4, <1>5, <1>6
  <2> QED BY <2>1, <2>2, <2>3, <2>4, <1>4, <1>6 DEF LeftInv
<1>11. OrderInv(t)
  BY <1>4, <1>5, <1>6 DEF OrderInv
<1> QED BY <1>3, <1>4, <1>7, <1>8, <1>9, <1>10, <1>11 DEF SchedulerInv, t, i

(* ... and at its end none does.                                           *)
LEMMA ResetKeepsInv ==
  ASSUME NEW s, SchedulerInv(s), s.flushing, s.at = Len(s.queue)
  PROVE  LET t == ResetSchedulerState(s) IN
         /\ SchedulerInv(t) /\ ~t.flushing
         /\ s.has = {} /\ t.has = {} /\ t.wid = s.wid /\ t.uid = s.uid
<1> DEFINE t == ResetSchedulerState(s)
<1>1. /\ s \in State /\ Len(s.queue) \in Nat /\ s.at \in Nat
  BY StateFields DEF SchedulerInv
<1>2. t = [s EXCEPT !.flushing = FALSE, !.waiting = FALSE, !.at = 0, !.queue = <<>>, !.has = {}]
  BY DEF ResetSchedulerState
<1> HIDE DEF t
<1>3. t \in State
  <2>1. <<>> \in Seq(Watcher) /\ {} \in SUBSET Watcher
    OBVIOUS
  <2> QED BY <1>1, <1>2, <2>1 DEF State
<1>4. /\ t.queue = <<>> /\ t.at = 0 /\ t.flushing = FALSE /\ t.has = {}
      /\ t.waiting = FALSE /\ t.uid = s.uid /\ t.wid = s.wid
  BY <1>1, <1>2 DEF State
<1>5. Left(t) = {} /\ Left(s) = {} /\ Len(t.queue) = 0
  BY <1>1, <1>4 DEF Left
<1>6. s.has = {}
  BY <1>5 DEF SchedulerInv, LeftInv
<1>7. IdInv(t)
  BY <1>4, <1>5 DEF SchedulerInv, IdInv
<1>8. LeftInv(t)
  BY <1>4, <1>5 DEF LeftInv
<1>9. OrderInv(t)
  BY <1>4 DEF OrderInv
<1> QED BY <1>3, <1>4, <1>6, <1>7, <1>8, <1>9 DEF SchedulerInv, t

LEMMA UnusedInv == SchedulerInv(Unused) /\ ~Unused.flushing /\ Unused.has = {}
<1>1. Unused \in State
  BY DEF Unused, State
<1>2. /\ Unused.queue = <<>> /\ Unused.at = 0 /\ Unused.flushing = FALSE /\ Unused.has = {}
      /\ Unused.waiting = FALSE /\ Unused.uid = 0
      /\ \A i \in Watcher : Unused.wid[i] = 0
  BY DEF Unused
<1>3. Left(Unused) = {} /\ Len(Unused.queue) = 0
  BY <1>2 DEF Left
<1>4. IdInv(Unused)
  BY <1>2, <1>3 DEF IdInv
<1>5. LeftInv(Unused) /\ OrderInv(Unused)
  BY <1>2, <1>3 DEF LeftInv, OrderInv
<1> QED BY <1>1, <1>2, <1>4, <1>5 DEF SchedulerInv

-----------------------------------------------------------------------------
(* The specification.                                                      *)

LEMMA InitImpliesInv == SchedulerInit => SchedulerInv(sched) /\ ~sched.flushing
<1> SUFFICES ASSUME NEW new \in SUBSET Watcher, NEW asked \in SUBSET Watcher,
                    sched \in Worked(Unused, new, asked)
             PROVE  SchedulerInv(sched) /\ ~sched.flushing
  BY DEF SchedulerInit, AppMounted
<1>1. WorkedFrom(Unused, sched)
  BY UnusedInv, WorkKeepsInv
<1> QED BY <1>1, UnusedInv DEF WorkedFrom

LEMMA NextKeepsInv ==
  SchedulerInv(sched) /\ [SchedulerNext]_sched => SchedulerInv(sched')
<1> SUFFICES ASSUME SchedulerInv(sched), [SchedulerNext]_sched PROVE SchedulerInv(sched')
  OBVIOUS
<1>1. CASE UNCHANGED sched
  BY <1>1
<1>2. ASSUME NEW new \in SUBSET Watcher, NEW asked \in SUBSET Watcher, Step(new, asked)
      PROVE  SchedulerInv(sched')
  <2>1. CASE BeginFlush
    BY <2>1, BegunKeepsInv DEF BeginFlush
  <2>2. CASE Task(new, asked)
    BY <2>2, WorkKeepsInv DEF Task, WorkedFrom
  <2>3. CASE RunWatcher(new, asked)
    <3>1. SchedulerInv(Taken(sched))
      BY <2>3, TakenKeepsInv DEF RunWatcher
    <3>2. WorkedFrom(Taken(sched), sched')
      BY <2>3, <3>1, WorkKeepsInv DEF RunWatcher
    <3> QED BY <3>2 DEF WorkedFrom
  <2>4. CASE EndFlush(new, asked)
    <3>1. SchedulerInv(ResetSchedulerState(sched))
      BY <2>4, ResetKeepsInv DEF EndFlush
    <3>2. WorkedFrom(ResetSchedulerState(sched), sched')
      BY <2>4, <3>1, WorkKeepsInv DEF EndFlush
    <3> QED BY <3>2 DEF WorkedFrom
  <2> QED BY <1>2, <2>1, <2>2, <2>3, <2>4 DEF Step
<1> QED BY <1>1, <1>2 DEF SchedulerNext

LEMMA SchedulerInvariant == SchedulerSpec => []SchedulerInv(sched)
<1>1. SchedulerInit => SchedulerInv(sched)
  BY InitImpliesInv
<1>2. SchedulerInv(sched) /\ [SchedulerNext]_sched => SchedulerInv(sched)'
  BY NextKeepsInv
<1> QED BY <1>1, <1>2, PTL DEF SchedulerSpec

(* The scheduler's state has its type (queue, has, index, waiting,         *)
(* flushing and uid of vue-2.6.12.js).                                     *)
THEOREM SchedulerTyped == SchedulerSpec => []SchedulerTypeOK
<1>1. SchedulerInv(sched) => SchedulerTypeOK
  BY DEF SchedulerInv, State, LeftInv, SchedulerTypeOK
<1> QED BY <1>1, SchedulerInvariant, PTL

(* Whatever the tasks and the watchers ask for, the rest of a flush is in  *)
(* the order of creation (flushSchedulerQueue's sort, queueWatcher's       *)
(* splice).                                                                *)
THEOREM ParentsAreFirst == SchedulerSpec => []ParentsFirst
<1>1. SchedulerInv(sched) => ParentsFirst
  BY DEF SchedulerInv, OrderInv, Left, ParentsFirst
<1> QED BY <1>1, SchedulerInvariant, PTL

(* The rest of a sequence.                                                 *)
LEMMA RestOf ==
  ASSUME NEW S, NEW q \in Seq(S), NEW a \in Nat, a <= Len(q)
  PROVE  LET r == SubSeq(q, a + 1, Len(q)) IN
         /\ r \in Seq(S) /\ Len(r) = Len(q) - a
         /\ \A j \in 1 .. Len(q) - a : r[j] = q[a + j]
<1> DEFINE n == Len(q)
           r == SubSeq(q, a + 1, n)
<1>1. n \in Nat /\ a <= n
  BY LenProperties
<1>2. r \in Seq(S)
  BY <1>1
<1>3. Len(r) = n - a
  BY <1>1
<1>4. ASSUME NEW j \in 1 .. n - a PROVE r[j] = q[a + j]
  <2>1. (a + 1) + j - 1 = a + j
    BY <1>1
  <2> QED BY <1>1, <2>1
<1> QED BY <1>2, <1>3, <1>4 DEF n

LEMMA InvLosesNothing == SchedulerInv(sched) => NothingLost
<1> SUFFICES ASSUME SchedulerInv(sched) PROVE NothingLost
  OBVIOUS
<1> DEFINE n == Len(sched.queue)
           a == sched.at
           left == SubSeq(sched.queue, a + 1, n)
<1>1. sched.queue \in Seq(Watcher) /\ n \in Nat /\ a \in Nat /\ a <= n
  BY StateFields DEF SchedulerInv, LeftInv
<1>2. /\ left \in Seq(Watcher) /\ Len(left) = n - a
      /\ \A j \in 1 .. n - a : left[j] = sched.queue[a + j]
  BY <1>1, RestOf
<1> HIDE DEF left
<1>3. DOMAIN left = 1 .. n - a
  BY <1>2
<1>4. /\ \A j \in Left(sched) : sched.queue[j] \in sched.has
      /\ \A i \in sched.has : \E j \in Left(sched) : sched.queue[j] = i
      /\ \A j, k \in Left(sched) : sched.queue[j] = sched.queue[k] => j = k
      /\ sched.has # {} \/ sched.flushing => sched.waiting
  BY DEF SchedulerInv, LeftInv
<1>5. Left(sched) = a + 1 .. n
  BY DEF Left
<1>6. /\ \A j \in 1 .. n - a : a + j \in a + 1 .. n
      /\ \A j \in a + 1 .. n : j - a \in 1 .. n - a /\ a + (j - a) = j
  BY <1>1
<1>7. sched.has = ToSet(left)
  <2>1. ASSUME NEW i \in sched.has PROVE i \in ToSet(left)
    <3>1. PICK j \in a + 1 .. n : sched.queue[j] = i
      BY <1>4, <1>5
    <3>2. left[j - a] = i /\ j - a \in DOMAIN left
      BY <1>2, <1>3, <1>6, <3>1
    <3> QED BY <3>2 DEF ToSet
  <2>2. \A j \in DOMAIN left : left[j] \in sched.has
    BY <1>2, <1>3, <1>4, <1>5, <1>6
  <2> QED BY <2>1, <2>2 DEF ToSet
<1>8. ASSUME NEW j \in DOMAIN left, NEW k \in DOMAIN left, left[j] = left[k] PROVE j = k
  <2>1. a + j = a + k
    BY <1>2, <1>3, <1>4, <1>5, <1>6, <1>8
  <2> QED BY <1>1, <1>3, <2>1
<1> QED BY <1>4, <1>7, <1>8 DEF NothingLost, left

(* has and the rest of the queue never part, and a flush comes for them    *)
(* (queueWatcher's test of has, flushSchedulerQueue's reset of it).        *)
THEOREM NothingIsLost == SchedulerSpec => []NothingLost
BY InvLosesNothing, SchedulerInvariant, PTL

-----------------------------------------------------------------------------
(* The scheduler implements DrawingOrder.                                  *)

LEMMA WaitsHaveIds ==
  ASSUME NEW s, SchedulerInv(s)
  PROVE  s.has \subseteq {i \in Watcher : s.wid[i] > 0}
<1> SUFFICES ASSUME NEW i \in s.has PROVE i \in Watcher /\ s.wid[i] > 0
  OBVIOUS
<1>1. PICK j \in Left(s) : s.queue[j] = i
  BY DEF SchedulerInv, LeftInv
<1>2. s.has \subseteq Watcher /\ j \in 1 .. Len(s.queue)
  BY StateFields DEF SchedulerInv, Left
<1> QED BY <1>1, <1>2 DEF SchedulerInv, IdInv

(* What comes of s, or of u that differs from it in the queue alone, when  *)
(* watchers are made and queued.                                           *)
LEMMA AgesFrom ==
  ASSUME NEW s, SchedulerInv(s), NEW u, u.wid = s.wid, u.uid = s.uid,
         NEW t, WorkedFrom(u, t)
  PROVE  /\ t.wid \in [Watcher -> Nat]
         /\ \A i \in Watcher : s.wid[i] > 0 => t.wid[i] = s.wid[i]
         /\ \A i, j \in Watcher :
              s.wid[j] > 0 /\ s.wid[i] = 0 /\ t.wid[i] > 0 => t.wid[i] > s.wid[j]
         /\ u.has \subseteq t.has
         /\ \A i \in t.has : t.wid[i] > 0
<1>1. t.wid \in [Watcher -> Nat] /\ s.wid \in [Watcher -> Nat] /\ s.uid \in Nat
  BY StateFields DEF WorkedFrom, SchedulerInv
<1>2. \A j \in Watcher : s.wid[j] <= s.uid
  BY DEF SchedulerInv, IdInv
<1>3. \A i \in t.has : t.wid[i] > 0
  BY WaitsHaveIds DEF WorkedFrom
<1>4. \A i, j \in Watcher :
        s.wid[j] > 0 /\ s.wid[i] = 0 /\ t.wid[i] > 0 => t.wid[i] > s.wid[j]
  BY <1>1, <1>2 DEF WorkedFrom
<1> QED BY <1>1, <1>3, <1>4 DEF WorkedFrom

LEMMA StepDrawsInOrder ==
  ASSUME SchedulerInv(sched), NEW new \in SUBSET Watcher, NEW asked \in SUBSET Watcher,
         Step(new, asked)
  PROVE  Order!Next
<1>1. CASE BeginFlush
  <2>1. /\ ~sched.flushing /\ sched'.flushing = TRUE
        /\ sched'.has = sched.has /\ sched'.wid = sched.wid
    BY <1>1, BegunKeepsInv DEF BeginFlush, SchedulerInv, State
  <2> QED BY <2>1 DEF Order!Begin, Order!Next
<1>2. CASE Task(new, asked)
  <2>1. ~sched.flushing /\ WorkedFrom(sched, sched')
    BY <1>2, WorkKeepsInv DEF Task
  <2>2. sched'.flushing = sched.flushing
    BY <2>1 DEF WorkedFrom
  <2>3. Order!More(sched.has)
    BY <2>1, AgesFrom DEF Order!More, Order!Ages
  <2> QED BY <2>1, <2>2, <2>3 DEF Order!Ask, Order!Next
<1>3. CASE RunWatcher(new, asked)
  <2> DEFINE u == Taken(sched)
             i == sched.queue[sched.at + 1]
  <2>1. /\ SchedulerInv(u) /\ u.flushing /\ sched.flushing
        /\ i \in sched.has /\ u.has = sched.has \ {i}
        /\ u.wid = sched.wid /\ u.uid = sched.uid
        /\ \A j \in sched.has : sched.wid[i] <= sched.wid[j]
    BY <1>3, TakenKeepsInv DEF RunWatcher
  <2>2. WorkedFrom(u, sched')
    BY <1>3, <2>1, WorkKeepsInv DEF RunWatcher
  <2> HIDE DEF u, i
  <2>3. sched'.flushing = sched.flushing
    BY <2>1, <2>2, StateFields DEF WorkedFrom, SchedulerInv
  <2>4. Order!More(sched.has \ {i})
    BY <2>1, <2>2, AgesFrom DEF Order!More, Order!Ages
  <2> QED BY <2>1, <2>3, <2>4 DEF Order!DrawEldest, Order!Next
<1>4. CASE EndFlush(new, asked)
  <2> DEFINE u == ResetSchedulerState(sched)
  <2>1. /\ SchedulerInv(u) /\ ~u.flushing /\ sched.flushing
        /\ sched.has = {} /\ u.has = {} /\ u.wid = sched.wid /\ u.uid = sched.uid
    BY <1>4, ResetKeepsInv DEF EndFlush
  <2>2. WorkedFrom(u, sched')
    BY <1>4, <2>1, WorkKeepsInv DEF EndFlush
  <2> HIDE DEF u
  <2>3. sched'.flushing = FALSE
    BY <2>1, <2>2, StateFields DEF WorkedFrom, SchedulerInv
  <2>4. Order!More({})
    BY <2>1, <2>2, AgesFrom DEF Order!More, Order!Ages
  <2> QED BY <2>1, <2>3, <2>4 DEF Order!End, Order!Next
<1> QED BY <1>1, <1>2, <1>3, <1>4 DEF Step

(* Of those that wait the eldest is always run next, nobody is dropped,    *)
(* and a flush ends when nobody waits: the array of flushSchedulerQueue    *)
(* and queueWatcher implements DrawingOrder.                               *)
THEOREM SchedulerDrawsInOrder == SchedulerSpec => DrawsInOrder
<1>1. SchedulerInit => Order!Init
  <2> SUFFICES ASSUME SchedulerInv(sched), ~sched.flushing PROVE Order!Init
    BY InitImpliesInv
  <2>1. sched.wid \in [Watcher -> Nat] /\ sched.flushing \in BOOLEAN
    BY StateFields DEF SchedulerInv
  <2> QED BY <2>1, WaitsHaveIds DEF Order!Init
<1>2. SchedulerInv(sched) /\ [SchedulerNext]_sched => [Order!Next]_Order!vars
  <2> SUFFICES ASSUME SchedulerInv(sched), [SchedulerNext]_sched
               PROVE  Order!Next \/ UNCHANGED Order!vars
    OBVIOUS
  <2>1. CASE UNCHANGED sched
    BY <2>1 DEF Order!vars
  <2>2. CASE SchedulerNext
    BY <2>2, StepDrawsInOrder DEF SchedulerNext
  <2> QED BY <2>1, <2>2
<1> QED BY <1>1, <1>2, SchedulerInvariant, PTL DEF SchedulerSpec, DrawsInOrder, Order!Spec

-----------------------------------------------------------------------------
(* The texts of the pages.                                                 *)

KeepFirst(a, b) == a
Numbers == INSTANCE Folding WITH op <- KeepFirst

(* One path begins with another, place by place.                           *)
LEMMA AboveByPlaces ==
  ASSUME NEW S, NEW p \in Seq(S), NEW q \in Seq(S)
  PROVE  Above(p, q) <=> Len(p) < Len(q) /\ \A i \in 1 .. Len(p) : p[i] = q[i]
<1>1. /\ Len(p) \in Nat /\ DOMAIN p = 1 .. Len(p)
      /\ Len(q) \in Nat /\ DOMAIN q = 1 .. Len(q)
  BY LenProperties
<1>2. SubSeq(p, 1, Len(p)) = p
  BY <1>1
<1>3. ASSUME Len(p) <= Len(q)
      PROVE  /\ SubSeq(q, 1, Len(p)) \in Seq(S) /\ Len(SubSeq(q, 1, Len(p))) = Len(p)
             /\ \A i \in 1 .. Len(p) : SubSeq(q, 1, Len(p))[i] = q[i]
  BY <1>1, <1>3
<1>4. ASSUME Above(p, q) PROVE Len(p) < Len(q) /\ \A i \in 1 .. Len(p) : p[i] = q[i]
  <2>0. Len(p) <= Len(q)
    BY <1>4 DEF Above, IsStrictPrefix, IsPrefix
  <2>1. p = SubSeq(q, 1, Len(p)) /\ p # q
    BY <1>2, <1>4 DEF Above, IsStrictPrefix, IsPrefix
  <2>2. \A i \in 1 .. Len(p) : p[i] = q[i]
    BY <1>3, <2>0, <2>1
  <2>3. Len(p) # Len(q)
    BY <2>1, <2>2, SeqEqual
  <2>4. Len(p) < Len(q)
    <3>1. \A a, b \in Nat : a <= b /\ a # b => a < b
      OBVIOUS
    <3>2. Len(p) \in Nat /\ Len(q) \in Nat
      BY <1>1
    <3> QED BY <2>0, <2>3, <3>1, <3>2, Zenon
  <2> QED BY <2>2, <2>4
<1>5. ASSUME Len(p) < Len(q), \A i \in 1 .. Len(p) : p[i] = q[i] PROVE Above(p, q)
  <2> DEFINE r == SubSeq(q, 1, Len(p))
  <2>1. r \in Seq(S) /\ Len(r) = Len(p) /\ \A i \in 1 .. Len(p) : r[i] = q[i]
    BY <1>1, <1>3, <1>5
  <2> HIDE DEF r
  <2>2. p = r
    BY <1>5, <2>1, SeqEqual
  <2>3. p # q /\ Len(p) <= Len(q)
    BY <1>1, <1>5
  <2> QED BY <1>2, <2>2, <2>3 DEF Above, IsStrictPrefix, IsPrefix, r
<1> QED BY <1>4, <1>5

LEMMA AboveTransitive ==
  ASSUME NEW S, NEW p \in Seq(S), NEW q \in Seq(S), NEW r \in Seq(S), Above(p, q), Above(q, r)
  PROVE  Above(p, r)
<1>1. /\ Len(p) < Len(q) /\ \A i \in 1 .. Len(p) : p[i] = q[i]
      /\ Len(q) < Len(r) /\ \A i \in 1 .. Len(q) : q[i] = r[i]
  BY AboveByPlaces
<1>2. Len(p) \in Nat /\ Len(q) \in Nat /\ Len(r) \in Nat
  BY LenProperties
<1>3. Len(p) < Len(r) /\ \A i \in 1 .. Len(p) : i \in 1 .. Len(q)
  BY <1>1, <1>2
<1>4. \A i \in 1 .. Len(p) : p[i] = r[i]
  BY <1>1, <1>3
<1> QED BY <1>3, <1>4, AboveByPlaces

(* What is on the way of a key.                                            *)
LEMMA WayIsAbove ==
  ASSUME NEW S, NEW key \in Seq(S)
  PROVE  /\ Way(key) \subseteq Seq(S) \ {<<>>}
         /\ \A p \in Seq(S) : p \in Way(key) <=> p # <<>> /\ Above(p, key)
<1>1. Len(key) \in Nat
  BY LenProperties
<1>2. ASSUME NEW l \in 0 .. Len(key)
      PROVE  /\ SubSeq(key, 1, l) \in Seq(S) /\ Len(SubSeq(key, 1, l)) = l
             /\ \A i \in 1 .. l : SubSeq(key, 1, l)[i] = key[i]
  BY <1>1
<1>3. Way(key) \subseteq Seq(S) \ {<<>>}
  BY <1>2 DEF Way, Prefixes
<1>4. ASSUME NEW p \in Seq(S), p \in Way(key) PROVE p # <<>> /\ Above(p, key)
  <2>1. PICK l \in 0 .. Len(key) : p = SubSeq(key, 1, l)
    BY <1>4 DEF Way, Prefixes
  <2>2. p # <<>> /\ p # key
    BY <1>4 DEF Way
  <2>3. Len(p) = l /\ \A i \in 1 .. Len(p) : p[i] = key[i]
    BY <1>2, <2>1
  <2>4. l # Len(key)
    BY <2>2, <2>3, SeqEqual
  <2>5. Len(p) < Len(key)
    BY <1>1, <2>3, <2>4
  <2> QED BY <2>2, <2>3, <2>5, AboveByPlaces
<1>5. ASSUME NEW p \in Seq(S), p # <<>>, Above(p, key) PROVE p \in Way(key)
  <2>1. Len(p) \in Nat /\ Len(p) < Len(key)
    BY <1>5, AboveByPlaces, LenProperties
  <2>2. Len(p) \in 0 .. Len(key)
    BY <1>1, <2>1
  <2>3. p = SubSeq(key, 1, Len(p))
    <3>1. SubSeq(p, 1, Len(p)) = p
      BY <2>1
    <3> QED BY <1>5, <3>1 DEF Above, IsStrictPrefix, IsPrefix
  <2>4. p \in Prefixes(key)
    BY <2>2, <2>3 DEF Prefixes
  <2>5. p # key
    BY <1>5 DEF Above, IsStrictPrefix
  <2> QED BY <1>5, <2>4, <2>5 DEF Way
<1> QED BY <1>3, <1>4, <1>5

(* Of the keys that a path begins with, the shortest begins with none.     *)
LEMMA ShortestAbove ==
  ASSUME NEW S, NEW R \in SUBSET Seq(S), NEW key \in Seq(S), NEW k \in R, Above(k, key)
  PROVE  \E r \in R : /\ Above(r, key) /\ Len(r) <= Len(k)
                      /\ \A q \in R : ~Above(q, r)
<1> DEFINE A == {a \in R : Above(a, key)}
           N == {Len(a) : a \in A}
<1>1. \A a \in A : a \in Seq(S) /\ Len(a) \in Nat
  BY LenProperties
<1>2. PICK n \in N : \A m \in N : ~(m < n)
  <2>1. N \subseteq Nat
    BY <1>1
  <2>2. N # {}
    OBVIOUS
  <2> HIDE DEF N
  <2> QED BY <2>1, <2>2, Numbers!LeastNumber
<1>3. PICK r \in A : n = Len(r)
  BY <1>2
<1>4. \A a \in A : Len(r) <= Len(a)
  BY <1>1, <1>2, <1>3
<1>5. ASSUME NEW q \in R, Above(q, r) PROVE FALSE
  <2>1. Above(q, key)
    BY <1>1, <1>5, AboveTransitive
  <2>2. Len(q) < Len(r) /\ Len(q) \in Nat /\ Len(r) \in Nat
    BY <1>1, <1>5, AboveByPlaces, LenProperties
  <2> QED BY <1>4, <2>1, <2>2
<1> QED BY <1>3, <1>4, <1>5

(* No key of R begins p, which is one of them.                             *)
Shortest(p, R) == p \in R /\ ~\E q \in R : Above(q, p)

(* What parse has made of the keys R: every object of a path is there, and *)
(* texts are where a key is that no other one begins.                      *)
HoldsTexts(o, R) ==
  /\ DOMAIN o \subseteq Paths
  /\ \A q \in DOMAIN o :
       /\ o[q] \in Keys \cup {Object}
       /\ \A p \in Way(q) : p \in DOMAIN o /\ o[p] = Object
  /\ \A p \in DOMAIN o : o[p] # Object => o[p] = p
  /\ \A p \in Seq(Parts) : p \in DOMAIN o /\ o[p] # Object <=> Shortest(p, R)

LEMMA PathsAreSequences ==
  /\ Keys \subseteq Seq(Parts) \ {<<>>} /\ Paths \subseteq Seq(Parts) \ {<<>>}
  /\ \A key \in Keys : key \in Paths /\ Way(key) \subseteq Paths
<1>1. Keys \subseteq Seq(Parts) \ {<<>>}
  BY KeysAssumption
<1>2. ASSUME NEW key \in Keys, NEW l \in 0 .. Len(key) PROVE SubSeq(key, 1, l) \in Seq(Parts)
  <2>1. key \in Seq(Parts) /\ Len(key) \in Nat
    BY <1>1, LenProperties
  <2> QED BY <2>1
<1>0. \A p : p \in Paths <=> p # <<>> /\ \E key \in Keys : p \in Prefixes(key)
  BY DEF Paths
<1>3. Paths \subseteq Seq(Parts) \ {<<>>}
  <2> SUFFICES ASSUME NEW p \in Paths PROVE p \in Seq(Parts) \ {<<>>}
    OBVIOUS
  <2>1. p # <<>> /\ \E key \in Keys : p \in Prefixes(key)
    BY <1>0
  <2>2. PICK key \in Keys : p \in Prefixes(key)
    BY <2>1
  <2>3. PICK l \in 0 .. Len(key) : p = SubSeq(key, 1, l)
    BY <2>2 DEF Prefixes
  <2> QED BY <1>2, <2>1, <2>3
<1>4. ASSUME NEW key \in Keys PROVE key \in Prefixes(key)
  <2>1. key \in Seq(Parts) /\ Len(key) \in 0 .. Len(key)
    BY <1>1, LenProperties
  <2>2. SubSeq(key, 1, Len(key)) = key
    BY <2>1
  <2> QED BY <2>1, <2>2 DEF Prefixes
<1>5. ASSUME NEW key \in Keys PROVE key \in Paths /\ Way(key) \subseteq Paths
  <2>1. \A p \in Prefixes(key) : p # <<>> => p \in Paths
    BY <1>0
  <2>2. key \in Paths
    BY <1>1, <1>4, <2>1
  <2>3. Way(key) \subseteq Paths
    BY <2>1 DEF Way
  <2> QED BY <2>2, <2>3
<1> QED BY <1>1, <1>3, <1>5

LEMMA NotAboveItself == ASSUME NEW p PROVE ~Above(p, p)
BY DEF Above, IsStrictPrefix

(* A text is in the way of a key exactly when a key of R begins it.        *)
LEMMA InTheWayIs ==
  ASSUME NEW R \in SUBSET Keys, NEW o, HoldsTexts(o, R), NEW key \in Keys
  PROVE  InTheWay(o, key) = {r \in R : Shortest(r, R) /\ Above(r, key)}
<1>1. key \in Seq(Parts) /\ R \subseteq Seq(Parts) \ {<<>>}
  BY PathsAreSequences
<1>2. Way(key) \subseteq Seq(Parts) /\ \A p \in Seq(Parts) : p \in Way(key) <=> p # <<>> /\ Above(p, key)
  BY <1>1, WayIsAbove
<1>3. \A p \in Seq(Parts) : p \in DOMAIN o /\ o[p] # Object <=> Shortest(p, R)
  BY DEF HoldsTexts
<1>4. \A p : p \in InTheWay(o, key) <=> p \in Way(key) /\ p \in DOMAIN o /\ o[p] # Object
  BY DEF InTheWay
<1>5. \A p : Shortest(p, R) => p \in R
  BY DEF Shortest
<1> QED BY <1>1, <1>2, <1>3, <1>4, <1>5

LEMMA KeyAboveIsInTheWay ==
  ASSUME NEW R \in SUBSET Keys, NEW o, HoldsTexts(o, R), NEW key \in Keys,
         NEW k \in R, Above(k, key)
  PROVE  \E r \in InTheWay(o, key) : Len(r) <= Len(k)
<1>1. key \in Seq(Parts) /\ R \in SUBSET Seq(Parts)
  BY PathsAreSequences
<1>2. PICK r \in R : Above(r, key) /\ Len(r) <= Len(k) /\ \A q \in R : ~Above(q, r)
  BY <1>1, ShortestAbove
<1>3. r \in InTheWay(o, key)
  BY <1>2, InTheWayIs DEF Shortest
<1> QED BY <1>2, <1>3

LEMMA ThrowsWhen ==
  ASSUME NEW R \in SUBSET Keys, NEW o, HoldsTexts(o, R), NEW key \in Keys
  PROVE  Throws(o, key) <=> \E k \in R : Above(k, key) /\ Len(k) + 1 < Len(key)
<1>1. ASSUME NEW p \in InTheWay(o, key), Len(p) + 1 < Len(key)
      PROVE  \E k \in R : Above(k, key) /\ Len(k) + 1 < Len(key)
  BY <1>1, InTheWayIs
<1>2. ASSUME NEW k \in R, Above(k, key), Len(k) + 1 < Len(key) PROVE Throws(o, key)
  <2>1. PICK r \in InTheWay(o, key) : Len(r) <= Len(k)
    BY <1>2, KeyAboveIsInTheWay
  <2>2. r \in R
    BY InTheWayIs
  <2>3. Len(r) \in Nat /\ Len(k) \in Nat /\ Len(key) \in Nat
    <3>1. r \in Seq(Parts) /\ k \in Seq(Parts) /\ key \in Seq(Parts)
      BY <2>2, PathsAreSequences
    <3> QED BY <3>1, LenProperties
  <2>4. Len(r) + 1 < Len(key)
    BY <1>2, <2>1, <2>3
  <2> QED BY <2>4 DEF Throws
<1> QED BY <1>1, <1>2 DEF Throws

(* One more key, that parse puts in or loses.                              *)
LEMMA LostKeyChangesNothing ==
  ASSUME NEW R \in SUBSET Keys, NEW o, HoldsTexts(o, R), NEW key \in Keys \ R,
         InTheWay(o, key) # {}
  PROVE  HoldsTexts(o, R \cup {key})
<1>1. PICK r \in R : Shortest(r, R) /\ Above(r, key)
  BY InTheWayIs
<1>2. r \in Seq(Parts) /\ key \in Seq(Parts)
  BY PathsAreSequences
<1>3. ASSUME NEW p \in Seq(Parts) PROVE Shortest(p, R) <=> Shortest(p, R \cup {key})
  <2>1. Above(key, p) => Above(r, p)
    BY <1>1, <1>2, AboveTransitive
  <2> QED BY <1>1, <2>1 DEF Shortest
<1> QED BY <1>3 DEF HoldsTexts

LEMMA PutKeyHolds ==
  ASSUME NEW R \in SUBSET Keys, NEW o, HoldsTexts(o, R), NEW key \in Keys \ R,
         InTheWay(o, key) = {}
  PROVE  HoldsTexts(Put(o, key), R \cup {key})
<1> DEFINE D == {q \in DOMAIN o : ~Above(key, q)} \cup Way(key) \cup {key}
           u == Put(o, key)
<1>1. /\ key \in Seq(Parts) /\ key # <<>> /\ key \in Paths /\ Way(key) \subseteq Paths
      /\ Paths \subseteq Seq(Parts) \ {<<>>} /\ R \subseteq Seq(Parts)
  BY PathsAreSequences
<1>2. u = [p \in D |-> IF p = key THEN Text(key) ELSE IF p \in DOMAIN o THEN o[p] ELSE Object]
  BY DEF Put
<1>3. DOMAIN o \subseteq Seq(Parts) \ {<<>>}
  BY <1>1 DEF HoldsTexts
<1>4. \A p \in Seq(Parts) : p \in Way(key) <=> p # <<>> /\ Above(p, key)
  BY <1>1, WayIsAbove
<1>5. \A p \in Way(key) : p \in DOMAIN o => o[p] = Object
  BY DEF InTheWay
<1>6. key \notin Way(key)
  BY <1>1, <1>4, NotAboveItself
<1> HIDE DEF u
<1>7. /\ DOMAIN u = D /\ u[key] = key
      /\ \A p \in Way(key) : p \in D /\ u[p] = Object
      /\ \A p \in DOMAIN o : ~Above(key, p) /\ p # key => p \in D /\ u[p] = o[p]
  BY <1>2, <1>5, <1>6 DEF Text
<1>8. \A p \in D : p = key \/ p \in Way(key) \/ (p \in DOMAIN o /\ ~Above(key, p) /\ p # key)
  <2> SUFFICES ASSUME NEW p \in D, p # key, p \notin Way(key)
               PROVE  p \in DOMAIN o /\ ~Above(key, p)
    OBVIOUS
  <2>1. p \in {q \in DOMAIN o : ~Above(key, q)}
    OBVIOUS
  <2> QED BY <2>1
<1>9. D \subseteq Paths
  BY <1>1 DEF HoldsTexts
<1> HIDE DEF D
<1>10. ASSUME NEW q \in D PROVE u[q] \in Keys \cup {Object}
  BY <1>7, <1>8 DEF HoldsTexts
<1>11. ASSUME NEW q \in D, NEW p \in Way(q) PROVE p \in D /\ u[p] = Object
  <2>1. q \in Seq(Parts)
    BY <1>1, <1>9
  <2>2. p \in Seq(Parts) /\ p # <<>> /\ Above(p, q)
    BY <2>1, WayIsAbove
  <2>3. CASE q = key
    BY <2>3, <1>7
  <2>4. CASE q \in Way(key)
    <3>1. Above(q, key)
      BY <2>1, <2>4, <1>4
    <3>2. Above(p, key)
      BY <1>1, <2>1, <2>2, <3>1, AboveTransitive
    <3> QED BY <1>4, <1>7, <2>2, <3>2
  <2>5. CASE q \in DOMAIN o /\ ~Above(key, q) /\ q # key
    <3>1. p \in DOMAIN o /\ o[p] = Object
      BY <2>5 DEF HoldsTexts
    <3>2. ~Above(key, p)
      BY <1>1, <2>1, <2>2, <2>5, AboveTransitive
    <3>3. p # key
      BY <2>2, <2>5
    <3> QED BY <1>7, <3>1, <3>2, <3>3
  <2> QED BY <1>8, <2>3, <2>4, <2>5
<1>12. ASSUME NEW p \in D, u[p] # Object PROVE u[p] = p
  BY <1>7, <1>8, <1>12 DEF HoldsTexts
<1>13. ASSUME NEW p \in Seq(Parts)
       PROVE  p \in D /\ u[p] # Object <=> Shortest(p, R \cup {key})
  <2>1. p \in DOMAIN o /\ o[p] # Object <=> Shortest(p, R)
    BY DEF HoldsTexts
  <2>2. CASE p = key
    <3>1. \A q \in R : ~Above(q, key)
      BY KeyAboveIsInTheWay
    <3>2. Shortest(key, R \cup {key})
      BY <3>1, NotAboveItself DEF Shortest
    <3>3. key \in D /\ u[key] # Object
      BY <1>1, <1>7, <1>2 DEF Object, D
    <3> QED BY <2>2, <3>2, <3>3
  <2>3. CASE p # key
    <3>1. Shortest(p, R \cup {key}) <=> Shortest(p, R) /\ ~Above(key, p)
      BY <2>3 DEF Shortest
    <3>2. p \in D /\ u[p] # Object <=> p \in DOMAIN o /\ ~Above(key, p) /\ o[p] # Object
      <4>1. CASE p \in Way(key)
        BY <4>1, <1>5, <1>7
      <4>2. CASE p \notin Way(key)
        BY <4>2, <2>3, <1>7, <1>8
      <4> QED BY <4>1, <4>2
    <3> QED BY <2>1, <3>1, <3>2
  <2> QED BY <2>2, <2>3
<1> QED BY <1>7, <1>9, <1>10, <1>11, <1>12, <1>13 DEF HoldsTexts, u

TextsInv ==
  /\ TextsTypeOK /\ ThrowsBelowTexts
  /\ ~thrown => HoldsTexts(newText, Range(read))

LEMMA ReadOneMore ==
  ASSUME read \in Seq(Keys), NEW key \in Keys
  PROVE  LET r == Append(read, key) IN
         /\ r \in Seq(Keys) /\ DOMAIN r = 1 .. Len(read) + 1 /\ Len(read) \in Nat
         /\ DOMAIN read = 1 .. Len(read)
         /\ r[Len(read) + 1] = key /\ \A i \in 1 .. Len(read) : r[i] = read[i]
         /\ Range(r) = Range(read) \cup {key} /\ Range(read) \subseteq Keys
<1> DEFINE r == Append(read, key)
           n == Len(read)
<1>1. /\ r \in Seq(Keys) /\ Len(r) = n + 1 /\ n \in Nat
      /\ r[n + 1] = key /\ \A i \in 1 .. n : r[i] = read[i]
  BY AppendProperties, LenProperties
<1>2. DOMAIN r = 1 .. n + 1 /\ DOMAIN read = 1 .. n
  BY <1>1, LenProperties
<1> HIDE DEF r, n
<1>3. Range(r) = Range(read) \cup {key}
  <2>1. \A i \in 1 .. n + 1 : i = n + 1 \/ i \in 1 .. n
    BY <1>1
  <2>2. n + 1 \in 1 .. n + 1 /\ 1 .. n \subseteq 1 .. n + 1
    BY <1>1
  <2>3. \A x : x \in Range(r) <=> \E i \in 1 .. n + 1 : x = r[i]
    BY <1>2 DEF Range
  <2>4. \A x : x \in Range(read) <=> \E i \in 1 .. n : x = read[i]
    BY <1>2 DEF Range
  <2> QED BY <1>1, <2>1, <2>2, <2>3, <2>4
<1>4. Range(read) \subseteq Keys
  BY <1>2, ElementOfSeq DEF Range, n
<1> QED BY <1>1, <1>2, <1>3, <1>4 DEF r, n

LEMMA ParseKeepsInv ==
  ASSUME TextsInv, NEW key \in Keys, ParseKey(key) PROVE TextsInv'
<1> DEFINE R == Range(read)
           n == Len(read)
<1>1. /\ read \in Seq(Keys) /\ ~thrown /\ key \notin R /\ read' = Append(read, key)
      /\ thrown' = Throws(newText, key) /\ HoldsTexts(newText, R)
      /\ newText' = IF thrown' THEN newText ELSE Put(newText, key)
  BY DEF TextsInv, TextsTypeOK, ParseKey
<1>2. /\ read' \in Seq(Keys) /\ DOMAIN read' = 1 .. n + 1 /\ n \in Nat /\ DOMAIN read = 1 .. n
      /\ read'[n + 1] = key /\ \A i \in 1 .. n : read'[i] = read[i]
      /\ Range(read') = R \cup {key} /\ R \subseteq Keys
  BY <1>1, ReadOneMore
<1>3. \A k : k \in R <=> \E i \in 1 .. n : read[i] = k
  BY <1>2 DEF Range
<1> HIDE DEF R, n
<1>4. thrown' <=> \E k \in R : Above(k, key) /\ Len(k) + 1 < Len(key)
  BY <1>1, <1>2, ThrowsWhen
<1>5. ThrowsBelowTexts'
  <2> DEFINE Under(p, q) == Above(p, q) /\ Len(p) + 1 < Len(q)
  <2>1. \A i, j \in 1 .. n : i < j => ~Under(read[i], read[j])
    BY <1>1, <1>2 DEF TextsInv, ThrowsBelowTexts
  <2>2. thrown' <=> \E i \in 1 .. n : Under(read[i], key)
    BY <1>3, <1>4
  <2>3. \A i \in 1 .. n + 1 : i \in 1 .. n \/ i = n + 1
    BY <1>2
  <2>4. 1 .. n \subseteq 1 .. n + 1 /\ n + 1 \in 1 .. n + 1 /\ \A i \in 1 .. n : i < n + 1 /\ ~(n + 1 < i)
    BY <1>2
  <2>5. ~(n + 1 < n + 1)
    BY <1>2
  <2> HIDE DEF Under
  <2>6. thrown' <=> \E i, j \in 1 .. n + 1 : i < j /\ Under(read'[i], read'[j])
    <3>1. ASSUME NEW i \in 1 .. n + 1, NEW j \in 1 .. n + 1, i < j, Under(read'[i], read'[j])
          PROVE  i \in 1 .. n /\ Under(read[i], key)
      BY <3>1, <1>2, <2>1, <2>3, <2>4, <2>5
    <3>2. ASSUME NEW i \in 1 .. n, Under(read[i], key)
          PROVE  i \in 1 .. n + 1 /\ i < n + 1 /\ Under(read'[i], read'[n + 1])
      BY <3>2, <1>2, <2>4
    <3> QED BY <2>2, <2>4, <3>1, <3>2
  <2> QED BY <1>2, <2>6 DEF ThrowsBelowTexts, Under
<1>6. ASSUME ~thrown' PROVE HoldsTexts(newText', R \cup {key})
  <2>1. newText' = Put(newText, key) /\ key \in Keys \ R
    BY <1>1, <1>6
  <2>2. CASE InTheWay(newText, key) # {}
    <3>1. Put(newText, key) = newText
      BY <2>2 DEF Put
    <3> QED BY <1>1, <1>2, <2>1, <2>2, <3>1, LostKeyChangesNothing
  <2>3. CASE InTheWay(newText, key) = {}
    BY <1>1, <1>2, <2>1, <2>3, PutKeyHolds
  <2> QED BY <2>2, <2>3
<1>7. TextsTypeOK'
  <2>1. thrown' \in BOOLEAN
    BY <1>1, Zenon DEF Throws
  <2>2. CASE thrown'
    <3>1. newText' = newText
      BY <1>1, <2>2
    <3> QED BY <1>2, <2>1, <3>1 DEF TextsInv, TextsTypeOK
  <2>3. CASE ~thrown'
    BY <1>2, <1>6, <2>1, <2>3 DEF HoldsTexts, TextsTypeOK
  <2> QED BY <2>2, <2>3
<1> QED BY <1>2, <1>5, <1>6, <1>7 DEF TextsInv

LEMMA TextsInvariant == TextsSpec => []TextsInv
<1>1. TextsInit => TextsInv
  <2> SUFFICES ASSUME TextsInit PROVE TextsInv
    OBVIOUS
  <2>1. /\ newText = <<>> /\ read = <<>> /\ ~thrown /\ thrown \in BOOLEAN
    BY DEF TextsInit
  <2>4. DOMAIN newText = {} /\ DOMAIN read = {} /\ read \in Seq(Keys)
    BY <2>1
  <2>2. Range(read) = {}
    BY <2>4 DEF Range
  <2>3. HoldsTexts(newText, {})
    BY <2>1, <2>4 DEF HoldsTexts, Shortest
  <2> QED BY <2>1, <2>2, <2>3, <2>4 DEF TextsInv, TextsTypeOK, ThrowsBelowTexts
<1>2. TextsInv /\ [TextsNext]_textVars => TextsInv'
  <2> SUFFICES ASSUME TextsInv, [TextsNext]_textVars PROVE TextsInv'
    OBVIOUS
  <2>1. CASE TextsNext
    BY <2>1, ParseKeepsInv DEF TextsNext
  <2>2. CASE UNCHANGED textVars
    BY <2>2 DEF textVars, TextsInv, TextsTypeOK, ThrowsBelowTexts, Range
  <2> QED BY <2>1, <2>2
<1> QED BY <1>1, <1>2, PTL DEF TextsSpec

(* Whatever the keys and their order, parse makes nested objects with      *)
(* texts at their ends.                                                    *)
THEOREM TextsAreNested == TextsSpec => []TextsTypeOK
BY TextsInvariant, PTL DEF TextsInv

(* parse throws exactly when a text came before one two or more parts      *)
(* below it.                                                               *)
THEOREM ThrowsOnlyBelowTexts == TextsSpec => []ThrowsBelowTexts
BY TextsInvariant, PTL DEF TextsInv

(* Which texts a template finds depends on the keys and not on the order   *)
(* the HashMap has them in.                                                *)
THEOREM OrderDoesNotMatter == TextsSpec => []TextsAreFound
<1>1. TextsInv => TextsAreFound
  <2> SUFFICES ASSUME TextsInv, ~thrown, NEW key \in Range(read)
               PROVE  key \in DOMAIN newText /\ newText[key] = Text(key)
                        <=> ~\E k \in Range(read) : Above(k, key)
    BY DEF TextsAreFound, TextsInv
  <2>1. HoldsTexts(newText, Range(read))
    BY DEF TextsInv
  <2>2. key \in Keys
    BY ElementOfSeq, LenProperties DEF TextsInv, TextsTypeOK, Range
  <2>3. key \in Seq(Parts) /\ key # Object
    BY <2>2, PathsAreSequences DEF Object
  <2>4. key \in DOMAIN newText /\ newText[key] # Object <=> Shortest(key, Range(read))
    BY <2>1, <2>3 DEF HoldsTexts
  <2>5. key \in DOMAIN newText => (newText[key] # Object <=> newText[key] = Text(key))
    BY <2>1, <2>3 DEF HoldsTexts, Text
  <2> QED BY <2>4, <2>5 DEF Shortest
<1> QED BY <1>1, TextsInvariant, PTL
=============================================================================
