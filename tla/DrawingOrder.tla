---------------------------- MODULE DrawingOrder ----------------------------
(***************************************************************************)
(* What a component may rely on when its data change: it is drawn again,   *)
(* and of those that wait the eldest always comes next, so that a parent   *)
(* is drawn before the components in it.                                   *)
(***************************************************************************)
EXTENDS Naturals

CONSTANT Watcher  \* what draws a component, and whatever else has an id

VARIABLES
  waits,    \* those to be drawn
  drawing,  \* drawing is under way
  age       \* the number of each, 0 before it is made

vars == <<waits, drawing, age>>

(* Who is there keeps its number, who is new gets a higher one.            *)
Ages ==
  /\ age' \in [Watcher -> Nat]
  /\ \A i \in Watcher : age[i] > 0 => age'[i] = age[i]
  /\ \A i, j \in Watcher : age[j] > 0 /\ age[i] = 0 /\ age'[i] > 0 => age'[i] > age[j]

(* In any step more may come, made already or new.                         *)
More(left) == Ages /\ left \subseteq waits' /\ \A i \in waits' : age'[i] > 0

Init ==
  /\ age \in [Watcher -> Nat]
  /\ waits \in SUBSET {i \in Watcher : age[i] > 0}
  /\ drawing = FALSE

Ask == ~drawing /\ More(waits) /\ UNCHANGED drawing

Begin == ~drawing /\ drawing' = TRUE /\ UNCHANGED <<waits, age>>

DrawEldest ==
  /\ drawing
  /\ \E i \in waits :
       /\ \A j \in waits : age[i] <= age[j]
       /\ More(waits \ {i})
  /\ UNCHANGED drawing

End == drawing /\ waits = {} /\ drawing' = FALSE /\ More({})

Next == Ask \/ Begin \/ DrawEldest \/ End

Spec == Init /\ [][Next]_vars
=============================================================================
