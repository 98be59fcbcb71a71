--------------------------- MODULE ServiceClient ---------------------------
(***************************************************************************)
(* The browser's service client (lealone-rpc-5.0.0.js).  A call stores     *)
(* what to do with its answer in a cache that has one entry per method,    *)
(* not per call, and posts a request; answers and failures arrive in any   *)
(* order and are handled by the entry the cache has by then.               *)
(*                                                                         *)
(* A call is named by its number.  A method stands for service and method. *)
(***************************************************************************)
EXTENDS Integers, Sequences

CONSTANTS
  Method,    \* the methods of all services
  MaxCalls   \* bound: calls in a behaviour

ASSUME MaxCallsAssumption == MaxCalls \in Nat

VARIABLES
  calls,    \* the calls made: method, style, and whether errors are handled
  cache,    \* L.cache: the call that wrote each method's entry, or 0
  wire,     \* the calls whose answer has not arrived
  outcome,  \* how each answered call ended
  results,  \* for each call, the calls whose results its entry was given
  errors    \* for each call, the calls whose errors its entry was given

vars == <<calls, cache, wire, outcome, results, errors>>

(* What an entry does with a result: run a callback, which may throw; fill *)
(* the fields or run the hooks of a component, where exceptions are only   *)
(* logged; or nothing.                                                     *)
Style == {"callback", "component", "none"}
Made == 1 .. Len(calls)
Entry(n) == cache[calls[n].method]

Init ==
  /\ calls = <<>>
  /\ cache = [m \in Method |-> 0]
  /\ wire = {}
  /\ outcome = <<>>
  /\ results = <<>>
  /\ errors = <<>>

-----------------------------------------------------------------------------
\* Mutant: the entry is kept while an answer for it is due.
CallKeepsEntry(m, style, handles) ==
  /\ Len(calls) < MaxCalls
  /\ calls' = Append(calls, [method |-> m, style |-> style, handles |-> handles])
  /\ cache' = IF \E n \in wire : calls[n].method = m
                THEN cache ELSE [cache EXCEPT ![m] = Len(calls')]
  /\ wire' = wire \cup {Len(calls')}
  /\ outcome' = Append(outcome, "pending")
  /\ results' = Append(results, {})
  /\ errors' = Append(errors, {})

(* call and call4, when no "before" hook refuses: a new entry replaces the *)
(* one of an earlier call of the method, then the request is sent.         *)
Call(m, style, handles) ==
  /\ Len(calls) < MaxCalls
  /\ calls' = Append(calls, [method |-> m, style |-> style, handles |-> handles])
  /\ cache' = [cache EXCEPT ![m] = Len(calls')]
  /\ wire' = wire \cup {Len(calls')}
  /\ outcome' = Append(outcome, "pending")
  /\ results' = Append(results, {})
  /\ errors' = Append(errors, {})

Arrive(n, how) ==
  /\ n \in wire
  /\ wire' = wire \ {n}
  /\ outcome' = [outcome EXCEPT ![n] = how]
  /\ UNCHANGED <<calls, cache>>

\* Mutant: only entries with a callback are given the result.
GiveResultCallback(n) ==
  results' = IF calls[Entry(n)].style = "callback"
               THEN [results EXCEPT ![Entry(n)] = @ \cup {n}] ELSE results

GiveResult(n) ==
  results' = IF calls[Entry(n)].style # "none"
               THEN [results EXCEPT ![Entry(n)] = @ \cup {n}] ELSE results

(* handleError: the entry's onServiceException or "error" hook, if it has  *)
(* one; otherwise the message is only logged.                              *)
GiveError(n) ==
  errors' = IF calls[Entry(n)].handles
              THEN [errors EXCEPT ![Entry(n)] = @ \cup {n}] ELSE errors

(* handleResponse, type 2: a result.                                       *)
Result(n) ==
  /\ Arrive(n, "result")
  /\ GiveResult(n)
  /\ UNCHANGED errors

\* Mutant: the promise's catch hands every call's entry the error.
ResultThrowsAll(n) ==
  /\ Arrive(n, "result")
  /\ calls[Entry(n)].style = "callback"
  /\ GiveResult(n)
  /\ errors' = [e \in Made |-> IF calls[e].handles THEN errors[e] \cup {n}
                                                  ELSE errors[e]]

(* The callback throws: the promise's catch takes it for a failed request, *)
(* and the entry that was given the result is given an error as well.      *)
ResultThrows(n) ==
  /\ Arrive(n, "result")
  /\ calls[Entry(n)].style = "callback"
  /\ GiveResult(n)
  /\ GiveError(n)

(* Type 3, a type that is not known, or no answer at all.                  *)
Failure(n) ==
  /\ Arrive(n, "failure")
  /\ GiveError(n)
  /\ UNCHANGED results

Next ==
  \/ \E m \in Method, style \in Style, handles \in BOOLEAN : Call(m, style, handles)
  \/ \E n \in wire : Result(n) \/ ResultThrows(n) \/ Failure(n)

Spec == Init /\ [][Next]_vars

-----------------------------------------------------------------------------
(* The types of the variables; every call that is due an answer finds an   *)
(* entry for it.                                                           *)
TypeOK ==
  /\ calls \in Seq([method : Method, style : Style, handles : BOOLEAN])
  /\ Len(calls) <= MaxCalls
  /\ cache \in [Method -> 0 .. Len(calls)]
  /\ wire \subseteq Made
  /\ outcome \in Seq({"pending", "result", "failure"}) /\ Len(outcome) = Len(calls)
  /\ results \in Seq(SUBSET Made) /\ Len(results) = Len(calls)
  /\ errors \in Seq(SUBSET Made) /\ Len(errors) = Len(calls)
  /\ \A n \in wire : Entry(n) # 0

(* An answer is given to the call it answers or to a later call of the     *)
(* same method, never to an earlier one or to another method's; so a call  *)
(* that is answered before the method is called again gets its own.        *)
OwnOrLater ==
  \A e \in Made : \A n \in results[e] \cup errors[e] :
    e >= n /\ calls[e].method = calls[n].method /\ n \notin wire

(* No result is given twice, and no result of a method is given to nobody  *)
(* as long as the method's callers take results.                           *)
GivenOnce ==
  /\ \A d, e \in Made : results[d] \cap results[e] # {} => d = e
  /\ \A n \in Made :
       /\ outcome[n] = "result"
       /\ \A e \in Made : calls[e].method = calls[n].method => calls[e].style # "none"
       => \E e \in Made : n \in results[e]

(* The last call of a method hears its own answer, whatever answers to     *)
(* earlier calls arrive in between or later.                               *)
LastHearsItself ==
  \A n \in Made :
    /\ \A e \in (n + 1) .. Len(calls) : calls[e].method # calls[n].method
    => /\ outcome[n] = "result" /\ calls[n].style # "none" => n \in results[n]
       /\ outcome[n] = "failure" /\ calls[n].handles => n \in errors[n]

(* "Run the callback if there is one" (lealone-rpc-5.0.0.js:238): a call   *)
(* with a callback has it run when its result arrives.                     *)
CallbackRuns ==
  \A n \in Made :
    outcome[n] = "result" /\ calls[n].style = "callback" => results[n] # {}
=============================================================================
