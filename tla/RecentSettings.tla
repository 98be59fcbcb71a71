--------------------------- MODULE RecentSettings ---------------------------
(***************************************************************************)
(* What the login page may rely on: the connection settings are a list     *)
(* without repetitions, the one used last in front.  A list that is empty, *)
(* or about to become so, may be filled from outside; closing the program  *)
(* empties it.                                                             *)
(***************************************************************************)
EXTENDS SequencesExt

CONSTANT Name
VARIABLE list

IsList(l) == l \in Seq(Name) /\ IsInjective(l)

Before(l, m, n) == \E i, j \in DOMAIN l : i < j /\ l[i] = m /\ l[j] = n
KeepsOrder(k, l, S) == \A m, n \in S : Before(l, m, n) <=> Before(k, m, n)

Init == list = <<>>

(* The steps, from list k to list l.                                       *)
Use(k, l, n) ==
  /\ l # <<>> /\ Head(l) = n
  /\ ToSet(l) = ToSet(k) \cup {n}
  /\ KeepsOrder(k, l, ToSet(k) \ {n})
Drop(k, l, n) ==
  /\ ToSet(l) = ToSet(k) \ {n}
  /\ KeepsOrder(k, l, ToSet(k) \ {n})
Fill(k) == k = <<>>
DropLast(k, n) == ToSet(k) \subseteq {n}
Close(l) == l = <<>>

Next ==
  \E k \in {list}, l \in {list'} :
    /\ IsList(l)
    /\ \/ Close(l) \/ Fill(k)
       \/ \E n \in Name : DropLast(k, n) \/ Use(k, l, n) \/ Drop(k, l, n)

Spec == Init /\ [][Next]_list
=============================================================================
