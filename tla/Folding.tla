------------------------------ MODULE Folding ------------------------------
(***************************************************************************)
(* What the proofs need of data built step by step: induction and          *)
(* recursion over the natural numbers with a set in place of a predicate,  *)
(* the folds, concatenations and enumerations of the community modules.    *)
(*                                                                         *)
(* op is the operator of the fold a module instantiates this one for.      *)
(***************************************************************************)
EXTENDS Integers, Sequences, SequencesExt, FiniteSetTheorems,
        SequenceTheorems, TLAPS

CONSTANT op(_, _)

LEMMA LeastNumber ==
  ASSUME NEW T, T \subseteq Nat, T # {}
  PROVE  \E x \in T : \A y \in T : ~(y < x)
<1>1. PICK x \in T : \A y \in T : ~(<<y, x>> \in OpToRel(<, Nat))
  BY NatLessThanWellFounded, WFMin
<1>2. \A y \in T : <<y, x>> \in OpToRel(<, Nat) <=> y < x
  BY DEF OpToRel
<1> QED BY <1>1, <1>2

(* Induction: a set with 0 and every successor has every number.           *)
LEMMA Induction ==
  ASSUME NEW S, 0 \in S, \A n \in Nat : n \in S => n + 1 \in S
  PROVE  Nat \subseteq S
<1> SUFFICES ASSUME Nat \ S # {} PROVE FALSE
  OBVIOUS
<1>1. PICK x \in Nat \ S : \A y \in Nat \ S : ~(y < x)
  BY LeastNumber
<1>2. x # 0 /\ x - 1 \in Nat
  BY <1>1
<1>3. x - 1 \in S
  BY <1>1, <1>2
<1> QED BY <1>1, <1>2, <1>3

(* Induction up to a bound.                                                *)
LEMMA BoundedInduction ==
  ASSUME NEW m \in Nat, NEW S, 0 \in S,
         \A n \in 0 .. (m - 1) : n \in S => n + 1 \in S
  PROVE  0 .. m \subseteq S
<1> DEFINE T == {n \in Nat : n <= m => n \in S}
<1>1. 0 \in T /\ \A n \in Nat : n \in T => n + 1 \in T
  OBVIOUS
<1>2. Nat \subseteq T
  <2> HIDE DEF T
  <2> QED BY <1>1, Induction
<1> QED BY <1>2

Iterates(f, base, step) ==
  f[0] = base /\ \A n \in Nat : f[n + 1] = step[n][f[n]]

(* Recursion: a base and a step for every number define a sequence.        *)
LEMMA Iteration ==
  ASSUME NEW V, NEW base \in V, NEW step \in [Nat -> [V -> V]]
  PROVE  \E f \in [Nat -> V] : Iterates(f, base, step)
<1> DEFINE Up(g, m) == /\ g \in [0 .. m -> V]
                       /\ g[0] = base
                       /\ \A n \in 0 .. (m - 1) : g[n + 1] = step[n][g[n]]
           U == {m \in Nat : \E g : Up(g, m)}
<1>1. 0 \in U
  <2>1. Up([i \in 0 .. 0 |-> base], 0)
    OBVIOUS
  <2> QED BY <2>1
<1>2. ASSUME NEW m \in Nat, m \in U PROVE m + 1 \in U
  <2>1. PICK g : Up(g, m)
    BY <1>2
  <2> DEFINE new == step[m][g[m]]
             h == [i \in 0 .. (m + 1) |-> IF i = m + 1 THEN new ELSE g[i]]
  <2>2. g[m] \in V
    BY <2>1
  <2>3. step[m] \in [V -> V]
    OBVIOUS
  <2>4. new \in V
    BY <2>2, <2>3
  <2>5. \A i \in 0 .. (m + 1) : i # m + 1 => i \in 0 .. m /\ g[i] \in V
    BY <2>1
  <2> HIDE DEF new
  <2>6. h \in [0 .. (m + 1) -> V] /\ h[0] = base
    BY <2>1, <2>4, <2>5
  <2>7. ASSUME NEW n \in 0 .. ((m + 1) - 1) PROVE h[n + 1] = step[n][h[n]]
    <3>1. h[n] = g[n] /\ n \in 0 .. m
      OBVIOUS
    <3>2. CASE n = m
      BY <3>1, <3>2 DEF new
    <3>3. CASE n # m
      <4>1. n \in 0 .. (m - 1) /\ n + 1 # m + 1
        BY <3>3
      <4>2. g[n + 1] = step[n][g[n]]
        BY <4>1, <2>1
      <4> QED BY <4>1, <4>2, <3>1
    <3> QED BY <3>2, <3>3
  <2> HIDE DEF h
  <2>8. Up(h, m + 1)
    BY <2>6, <2>7
  <2> HIDE DEF Up
  <2> QED BY <2>8
<1>3. Nat \subseteq U
  <2> HIDE DEF U
  <2> QED BY <1>1, <1>2, Induction
<1>4. ASSUME NEW m \in Nat, NEW k \in Nat, NEW g, NEW h, Up(g, m), Up(h, k)
      PROVE  \A i \in Nat : i <= m /\ i <= k => g[i] = h[i]
  <2> DEFINE W == {i \in Nat : i <= m /\ i <= k => g[i] = h[i]}
  <2>1. 0 \in W
    BY <1>4
  <2>2. ASSUME NEW i \in Nat, i \in W PROVE i + 1 \in W
    <3> SUFFICES ASSUME i + 1 <= m, i + 1 <= k PROVE g[i + 1] = h[i + 1]
      OBVIOUS
    <3>1. i \in 0 .. (m - 1) /\ i \in 0 .. (k - 1)
      OBVIOUS
    <3>2. g[i] = h[i]
      BY <2>2
    <3>3. g[i + 1] = step[i][g[i]] /\ h[i + 1] = step[i][h[i]]
      BY <3>1, <1>4
    <3> QED BY <3>2, <3>3
  <2>3. Nat \subseteq W
    <3> HIDE DEF W
    <3> QED BY <2>1, <2>2, Induction
  <2> QED BY <2>3
<1> DEFINE G(m) == CHOOSE g : Up(g, m)
           f == [m \in Nat |-> G(m)[m]]
<1>5. \A m \in Nat : Up(G(m), m)
  BY <1>3
<1> HIDE DEF G
<1>6. f \in [Nat -> V]
  BY <1>5
<1>7. f[0] = base
  BY <1>5
<1>8. ASSUME NEW n \in Nat PROVE f[n + 1] = step[n][f[n]]
  <2>1. Up(G(n + 1), n + 1) /\ Up(G(n), n)
    BY <1>5
  <2>2. G(n + 1)[n] = G(n)[n]
    <3> HIDE DEF Up
    <3>1. \A i \in Nat : i <= n + 1 /\ i <= n => G(n + 1)[i] = G(n)[i]
      BY <2>1, <1>4, n + 1 \in Nat
    <3> QED BY <3>1
  <2>3. G(n + 1)[n + 1] = step[n][G(n + 1)[n]]
    BY <2>1
  <2> QED BY <2>2, <2>3
<1> HIDE DEF f
<1> QED BY <1>6, <1>7, <1>8 DEF Iterates

-----------------------------------------------------------------------------
(* A set of numbers with a bound has a greatest element.                   *)
LEMMA GreatestNumber ==
  ASSUME NEW n \in Nat, NEW T, T \subseteq 1 .. n, T # {}
  PROVE  Max(T) \in T /\ \A y \in T : Max(T) >= y
<1> DEFINE R == {k \in Nat : n - k \in T}
<1>1. R \subseteq Nat /\ R # {}
  <2>1. PICK x \in T : TRUE
    OBVIOUS
  <2>2. x \in 1 .. n
    BY <2>1
  <2>3. n - x \in Nat /\ n - (n - x) = x
    BY <2>2
  <2> QED BY <2>1, <2>3
<1>2. PICK k \in R : \A y \in R : ~(y < k)
  <2> HIDE DEF R
  <2> QED BY <1>1, LeastNumber
<1>3. ASSUME NEW y \in T PROVE n - k >= y
  <2>1. y \in 1 .. n
    OBVIOUS
  <2>2. n - y \in Nat /\ n - (n - y) = y
    BY <2>1
  <2>3. n - y \in R
    BY <2>2
  <2> QED BY <2>1, <2>3, <1>2
<1>4. \E x \in T : \A y \in T : x >= y
  BY <1>2, <1>3
<1> QED BY <1>4, Zenon DEF Max

(* A fold from the left takes one element after the other.                 *)
Fold(base, s) == FoldLeft(op, base, s)

Steps(g, base, s) ==
  g[0] = base /\ \A k \in 1 .. Len(s) : g[k] = op(g[k - 1], s[k])

LEMMA FoldSteps ==
  ASSUME NEW E, NEW s \in Seq(E), NEW V, NEW base \in V,
         \A v \in V, e \in E : op(v, e) \in V
  PROVE  \E g \in [0 .. Len(s) -> V] :
           Steps(g, base, s) /\ Fold(base, s) = g[Len(s)]
<1> DEFINE n == Len(s)
           D == 1 .. n
           Def(F, t) == IF t = {} THEN base
                        ELSE op(F[t \ {Max(t)}], s[Max(t)])
           It(F) == F = [t \in SUBSET D |-> Def(F, t)]
           B == [SUBSET D -> V]
<1>1. n \in Nat /\ DOMAIN s = D
  BY LenProperties
<1> HIDE DEF n
<1>2. ASSUME NEW t \in SUBSET D, t # {}
      PROVE  /\ Max(t) \in t /\ s[Max(t)] \in E /\ t \ {Max(t)} \in SUBSET D
             /\ IsFiniteSet(t) /\ Cardinality(t) \in Nat \ {0}
             /\ IsFiniteSet(t \ {Max(t)})
             /\ Cardinality(t \ {Max(t)}) = Cardinality(t) - 1
  <2>1. Max(t) \in t
    BY <1>1, <1>2, GreatestNumber
  <2>2. IsFiniteSet(t)
    <3>1. IsFiniteSet(D)
      BY <1>1, FS_Interval
    <3> QED BY <3>1, FS_Subset
  <2>3. Cardinality(t) \in Nat /\ Cardinality(t) # 0
    BY <1>2, <2>2, FS_CardinalityType, FS_EmptySet
  <2>4. s[Max(t)] \in E
    <3>1. Max(t) \in 1 .. Len(s)
      BY <2>1 DEF n
    <3> QED BY <3>1, ElementOfSeq
  <2> QED BY <2>1, <2>2, <2>3, <2>4, FS_RemoveElement
<1>3. ASSUME NEW F \in B, NEW t \in SUBSET D PROVE Def(F, t) \in V
  <2>1. CASE t = {}
    BY <2>1
  <2>2. CASE t # {}
    <3>1. F[t \ {Max(t)}] \in V
      BY <1>2, <2>2
    <3>2. s[Max(t)] \in E
      BY <1>2, <2>2
    <3> QED BY <2>2, <3>1, <3>2
  <2> QED BY <2>1, <2>2
<1>4. \E F \in B : It(F)
  <2> DEFINE first == [t \in SUBSET D |-> base]
             next == [F \in B |-> [t \in SUBSET D |-> Def(F, t)]]
             step == [k \in Nat |-> next]
  <2>1. first \in B
    OBVIOUS
  <2>2. next \in [B -> B]
    <3>1. ASSUME NEW F \in B PROVE [t \in SUBSET D |-> Def(F, t)] \in B
      <4> HIDE DEF Def
      <4> QED BY <1>3
    <3> HIDE DEF B, Def
    <3> QED BY <3>1
  <2>3. step \in [Nat -> [B -> B]]
    BY <2>2
  <2> HIDE DEF first, next, step, B, Def, D
  <2>4. PICK Fs \in [Nat -> B] : Iterates(Fs, first, step)
    BY <2>1, <2>3, Iteration
  <2>5. \A k \in Nat : Fs[k] \in B /\ Fs[k + 1] = [t \in SUBSET D |-> Def(Fs[k], t)]
    <3> TAKE k \in Nat
    <3>1. Fs[k] \in B
      BY <2>4
    <3>2. Fs[k + 1] = next[Fs[k]]
      BY <2>4 DEF step, Iterates
    <3> QED BY <3>1, <3>2 DEF next
  <2>6. \A k \in Nat : \A t \in SUBSET D : Fs[k + 1][t] = Def(Fs[k], t)
    <3> TAKE k \in Nat
    <3>1. Fs[k + 1] = [t \in SUBSET D |-> Def(Fs[k], t)]
      BY <2>5
    <3> QED BY <3>1, Zenon
  <2> DEFINE U == {k \in Nat : \A t \in SUBSET D :
                     Cardinality(t) <= k => Fs[k + 1][t] = Fs[k][t]}
  <2>7. 0 \in U
    <3> SUFFICES ASSUME NEW t \in SUBSET D, Cardinality(t) <= 0
                 PROVE  Fs[0 + 1][t] = Fs[0][t]
      OBVIOUS
    <3>1. t = {}
      <4> SUFFICES ASSUME t # {} PROVE FALSE
        OBVIOUS
      <4>1. Cardinality(t) \in Nat \ {0}
        BY <1>2
      <4> QED BY <4>1
    <3>2. Fs[0][t] = base
      BY <2>4 DEF first, Iterates
    <3>3. Fs[0 + 1][t] = Def(Fs[0], t)
      BY <2>6
    <3> QED BY <3>1, <3>2, <3>3 DEF Def
  <2>8. ASSUME NEW k \in Nat, k \in U PROVE k + 1 \in U
    <3> SUFFICES ASSUME NEW t \in SUBSET D, Cardinality(t) <= k + 1
                 PROVE  Fs[(k + 1) + 1][t] = Fs[k + 1][t]
      OBVIOUS
    <3>1. Fs[(k + 1) + 1][t] = Def(Fs[k + 1], t) /\ Fs[k + 1][t] = Def(Fs[k], t)
      BY <2>6
    <3>2. CASE t = {}
      BY <3>1, <3>2 DEF Def
    <3>3. CASE t # {}
      <4>1. t \ {Max(t)} \in SUBSET D /\ Cardinality(t \ {Max(t)}) <= k
        <5>1. Cardinality(t) \in Nat /\ Cardinality(t \ {Max(t)}) = Cardinality(t) - 1
          BY <1>2, <3>3
        <5> QED BY <1>2, <3>3, <5>1
      <4>2. Fs[k + 1][t \ {Max(t)}] = Fs[k][t \ {Max(t)}]
        BY <4>1, <2>8
      <4> QED BY <3>1, <4>2 DEF Def
    <3> QED BY <3>2, <3>3
  <2>9. Nat \subseteq U
    <3> HIDE DEF U
    <3> QED BY <2>7, <2>8, Induction
  <2>10. ASSUME NEW t \in SUBSET D PROVE Cardinality(t) <= n
    <3>1. IsFiniteSet(D) /\ Cardinality(D) = n
      BY <1>1, FS_Interval DEF D
    <3> QED BY <3>1, FS_Subset
  <2>11. Fs[n] \in B /\ Fs[n + 1] = Fs[n]
    <3>1. \A t \in SUBSET D : Fs[n + 1][t] = Fs[n][t]
      BY <1>1, <2>9, <2>10
    <3>2. Fs[n] \in B /\ Fs[n + 1] \in B
      BY <1>1, <2>4
    <3>3. /\ Fs[n] = [t \in SUBSET D |-> Fs[n][t]]
          /\ Fs[n + 1] = [t \in SUBSET D |-> Fs[n + 1][t]]
      BY <3>2 DEF B
    <3>4. [t \in SUBSET D |-> Fs[n + 1][t]] = [t \in SUBSET D |-> Fs[n][t]]
      BY <3>1
    <3> QED BY <3>2, <3>3, <3>4, Zenon
  <2>12. It(Fs[n])
    BY <1>1, <2>5, <2>11
  <2> HIDE DEF It, B
  <2> QED BY <2>11, <2>12
<1> DEFINE iter == CHOOSE F : It(F)
<1>5. FoldLeft(op, base, s) = iter[D]
  <2>1. FoldLeft(op, base, s) =
          (CHOOSE F : F = [t \in SUBSET DOMAIN s |-> Def(F, t)])[DOMAIN s]
    BY DEF FoldLeft, MapThenFoldSet
  <2> HIDE DEF Def
  <2> QED BY <1>1, <2>1
<1>6. It(iter)
  <2> HIDE DEF It
  <2> QED BY <1>4
<1> HIDE DEF iter
<1>7. \A t \in SUBSET D : iter[t] = Def(iter, t)
  <2> HIDE DEF Def
  <2> QED BY <1>6
<1> DEFINE g == [k \in 0 .. n |-> iter[1 .. k]]
<1>8. ASSUME NEW k \in 1 .. n PROVE g[k] = op(g[k - 1], s[k])
  <2>1. k \in Nat /\ k \in 1 .. k /\ 1 .. k # {} /\ k - 1 \in 0 .. n
    <3>1. k \in Nat \ {0} /\ k <= n
      BY <1>1
    <3>2. k \in 1 .. k
      BY <3>1
    <3>3. 1 .. k # {}
      BY <3>2, Zenon
    <3> QED BY <1>1, <3>1, <3>2, <3>3
  <2>6. 1 .. k \in SUBSET D
    BY <1>1
  <2>2. Max(1 .. k) = k
    <3>1. Max(1 .. k) \in 1 .. k /\ \A y \in 1 .. k : Max(1 .. k) >= y
      BY <2>1, GreatestNumber
    <3> QED BY <2>1, <3>1
  <2>3. (1 .. k) \ {k} = 1 .. (k - 1)
    BY k \in Int
  <2>4. iter[1 .. k] = Def(iter, 1 .. k)
    BY <1>7, <2>6
  <2>5. iter[1 .. k] = op(iter[1 .. (k - 1)], s[k])
    BY <2>1, <2>2, <2>3, <2>4
  <2> QED BY <2>1, <2>5
<1>9. g[0] = base
  <2>1. 1 .. 0 = {}
    OBVIOUS
  <2>2. iter[1 .. 0] = Def(iter, 1 .. 0)
    BY <1>7, <2>1
  <2> QED BY <1>1, <2>1, <2>2
<1>10. \A k \in 0 .. n : g[k] \in V
  <2> DEFINE W == {k \in 0 .. n : g[k] \in V}
  <2> HIDE DEF g
  <2>1. 0 \in W
    BY <1>1, <1>9
  <2>2. ASSUME NEW k \in 0 .. (n - 1), k \in W PROVE k + 1 \in W
    <3>1. k + 1 \in 1 .. n /\ (k + 1) - 1 = k
      BY <1>1
    <3>2. s[k + 1] \in E
      BY <3>1, ElementOfSeq DEF n
    <3>3. g[k + 1] = op(g[k], s[k + 1])
      BY <3>1, <1>8
    <3> QED BY <3>1, <3>2, <3>3, <2>2
  <2>3. 0 .. n \subseteq W
    <3> HIDE DEF W
    <3> QED BY <1>1, <2>1, <2>2, BoundedInduction
  <2> QED BY <2>3
<1>11. g \in [0 .. n -> V]
  BY <1>10
<1>12. FoldLeft(op, base, s) = g[n]
  BY <1>1, <1>5
<1> HIDE DEF g
<1> QED BY <1>8, <1>9, <1>11, <1>12 DEF n, Steps, Fold

LEMMA FoldType ==
  ASSUME NEW E, NEW s \in Seq(E), NEW V, NEW base \in V,
         \A v \in V, e \in E : op(v, e) \in V
  PROVE  Fold(base, s) \in V
<1>1. Len(s) \in Nat
  BY LenProperties
<1>2. PICK g \in [0 .. Len(s) -> V] : Steps(g, base, s) /\ Fold(base, s) = g[Len(s)]
  BY FoldSteps
<1> QED BY <1>1, <1>2

LEMMA FoldEmpty ==
  ASSUME NEW E, NEW V, NEW base \in V, \A v \in V, e \in E : op(v, e) \in V
  PROVE  Fold(base, <<>>) = base
<1>1. ASSUME NEW s \in Seq(E), Len(s) = 0 PROVE Fold(base, s) = base
  <2>1. PICK g \in [0 .. Len(s) -> V] : Steps(g, base, s) /\ Fold(base, s) = g[Len(s)]
    BY FoldSteps
  <2> QED BY <1>1, <2>1 DEF Steps
<1>2. <<>> \in Seq(E) /\ Len(<<>>) = 0
  OBVIOUS
<1> HIDE DEF Fold
<1> QED BY <1>1, <1>2

LEMMA FoldAppend ==
  ASSUME NEW E, NEW s \in Seq(E), NEW x \in E, NEW V, NEW base \in V,
         \A v \in V, e \in E : op(v, e) \in V
  PROVE  Fold(base, Append(s, x)) = op(Fold(base, s), x)
<1> DEFINE n == Len(s)
           t == Append(s, x)
<1>1. /\ n \in Nat /\ t \in Seq(E) /\ Len(t) = n + 1 /\ t[n + 1] = x
      /\ \A k \in 1 .. n : t[k] = s[k]
  BY LenProperties, AppendProperties
<1>2. PICK g \in [0 .. n -> V] : Steps(g, base, s) /\ Fold(base, s) = g[n]
  BY FoldSteps
<1>3. PICK h \in [0 .. Len(t) -> V] : Steps(h, base, t) /\ Fold(base, t) = h[Len(t)]
  <2> HIDE DEF t
  <2> QED BY <1>1, FoldSteps
<1> DEFINE W == {k \in 0 .. n : g[k] = h[k]}
<1> HIDE DEF n, t
<1>4. 0 \in W
  BY <1>1, <1>2, <1>3 DEF Steps
<1>5. ASSUME NEW k \in 0 .. (n - 1), k \in W PROVE k + 1 \in W
  <2>1. k + 1 \in 1 .. n /\ k + 1 \in 1 .. Len(t) /\ (k + 1) - 1 = k
    BY <1>1
  <2>2. g[k + 1] = op(g[k], s[k + 1]) /\ h[k + 1] = op(h[k], t[k + 1])
    BY <1>2, <1>3, <2>1 DEF Steps, n
  <2> QED BY <1>1, <1>5, <2>1, <2>2
<1>6. g[n] = h[n]
  <2>1. 0 .. n \subseteq W
    <3> HIDE DEF W
    <3> QED BY <1>1, <1>4, <1>5, BoundedInduction
  <2> QED BY <1>1, <2>1
<1>7. h[n + 1] = op(h[n], t[n + 1])
  <2>1. n + 1 \in 1 .. Len(t) /\ (n + 1) - 1 = n
    BY <1>1
  <2> QED BY <1>3, <2>1 DEF Steps
<1> QED BY <1>1, <1>2, <1>3, <1>6, <1>7 DEF t

(* Every sequence is built by appending.                                   *)
LEMMA SequencesBuilt ==
  ASSUME NEW E, NEW U, <<>> \in U,
         \A s \in Seq(E) : s \in U => \A e \in E : Append(s, e) \in U
  PROVE  Seq(E) \subseteq U
<1> DEFINE N == {n \in Nat : \A s \in Seq(E) : Len(s) = n => s \in U}
<1>1. 0 \in N
  <2>1. \A s \in Seq(E) : Len(s) = 0 => s = <<>>
    BY EmptySeq
  <2> QED BY <2>1
<1>2. ASSUME NEW n \in Nat, n \in N PROVE n + 1 \in N
  <2> SUFFICES ASSUME NEW s \in Seq(E), Len(s) = n + 1 PROVE s \in U
    OBVIOUS
  <2> DEFINE f == SubSeq(s, 1, n)
             x == s[n + 1]
  <2>1. n + 1 \in 1 .. Len(s)
    OBVIOUS
  <2>2. f \in Seq(E) /\ Len(f) = n /\ x \in E
    BY <2>1, ElementOfSeq
  <2>3. s = Append(f, x)
    <3>1. Append(f, x) \in Seq(E) /\ Len(Append(f, x)) = n + 1
      BY <2>2
    <3>2. ASSUME NEW i \in 1 .. (n + 1) PROVE Append(f, x)[i] = s[i]
      BY <2>2
    <3> QED BY <3>1, <3>2, SeqEqual
  <2> HIDE DEF f, x
  <2> QED BY <1>2, <2>2, <2>3
<1>3. Nat \subseteq N
  <2> HIDE DEF N
  <2> QED BY <1>1, <1>2, Induction
<1> QED BY <1>3

LEMMA FoldConcat ==
  ASSUME NEW E, NEW s \in Seq(E), NEW t \in Seq(E), NEW V, NEW base \in V,
         \A v \in V, e \in E : op(v, e) \in V
  PROVE  Fold(base, s \o t) = Fold(Fold(base, s), t)
<1> DEFINE mid == Fold(base, s)
           U == {u \in Seq(E) : Fold(base, s \o u) = Fold(mid, u)}
<1>1. mid \in V
  BY FoldType
<1> HIDE DEF mid
<1>2. <<>> \in U
  <2>1. s \o <<>> = s /\ <<>> \in Seq(E)
    OBVIOUS
  <2>2. Fold(mid, <<>>) = mid
    BY <1>1, FoldEmpty
  <2> QED BY <2>1, <2>2 DEF mid
<1>3. ASSUME NEW u \in Seq(E), u \in U, NEW e \in E PROVE Append(u, e) \in U
  <2>1. s \o Append(u, e) = Append(s \o u, e) /\ s \o u \in Seq(E) /\ Append(u, e) \in Seq(E)
    OBVIOUS
  <2>2. Fold(base, Append(s \o u, e)) = op(Fold(base, s \o u), e)
    <3>1. ASSUME NEW c \in Seq(E) PROVE Fold(base, Append(c, e)) = op(Fold(base, c), e)
      BY FoldAppend
    <3> QED BY <2>1, <3>1
  <2>3. Fold(mid, Append(u, e)) = op(Fold(mid, u), e)
    BY <1>1, FoldAppend
  <2> QED BY <1>3, <2>1, <2>2, <2>3
<1>4. Seq(E) \subseteq U
  <2> HIDE DEF U
  <2> QED BY <1>2, <1>3, SequencesBuilt
<1> QED BY <1>4 DEF mid
(* Sorting: a finite set whose elements have different numbers can be      *)
(* listed with the numbers falling.                                        *)
LEMMA FallingExists ==
  ASSUME NEW S, IsFiniteSet(S), NEW f \in [S -> Nat],
         \A a, b \in S : f[a] = f[b] => a = b
  PROVE  \E l \in SetToSeqs(S) : \A i, j \in DOMAIN l : i < j => f[l[i]] > f[l[j]]
<1> DEFINE Falls(l) == \A i, j \in DOMAIN l : i < j => f[l[i]] > f[l[j]]
           Listed(R) == \E l \in SetToSeqs(R) : Falls(l)
           U == {k \in Nat : \A R \in SUBSET S : Cardinality(R) = k => Listed(R)}
<1>1. ASSUME NEW R \in SUBSET S
      PROVE  IsFiniteSet(R) /\ Cardinality(R) \in Nat
  BY FS_Subset, FS_CardinalityType
<1>2. 0 \in U
  <2> SUFFICES ASSUME NEW R \in SUBSET S, Cardinality(R) = 0
               PROVE  Listed(R)
    OBVIOUS
  <2>1. R = {}
    BY <1>1, FS_EmptySet
  <2>2. <<>> \in SetToSeqs(R) /\ Falls(<<>>)
    BY <2>1 DEF SetToSeqs
  <2> QED BY <2>2
<1>3. ASSUME NEW k \in Nat, k \in U PROVE k + 1 \in U
  <2> SUFFICES ASSUME NEW R \in SUBSET S, Cardinality(R) = k + 1
               PROVE  Listed(R)
    OBVIOUS
  <2> DEFINE T == {f[x] : x \in R}
  <2>1. T \subseteq Nat /\ T # {}
    <3>1. R # {}
      BY <1>1, FS_EmptySet
    <3> QED BY <3>1
  <2>2. PICK t \in T : \A u \in T : ~(u < t)
    <3> HIDE DEF T
    <3> QED BY <2>1, LeastNumber
  <2>3. PICK x \in R : \A y \in R : y # x => f[x] < f[y]
    <3>1. PICK x \in R : f[x] = t
      BY <2>2
    <3>2. ASSUME NEW y \in R, y # x PROVE f[x] < f[y]
      <4>1. f[y] \in Nat /\ f[x] \in Nat /\ f[x] # f[y]
        BY <3>2
      <4>2. ~(f[y] < t)
        BY <2>2
      <4> QED BY <3>1, <4>1, <4>2
    <3> QED BY <3>2
  <2>4. R \ {x} \in SUBSET S /\ Cardinality(R \ {x}) = k
    BY <1>1, FS_RemoveElement
  <2>5. PICK l \in SetToSeqs(R \ {x}) : Falls(l)
    BY <1>3, <2>4
  <2>6. /\ l \in [1 .. k -> R \ {x}]
        /\ \A i, j \in 1 .. k : i # j => l[i] # l[j]
    BY <2>4, <2>5 DEF SetToSeqs
  <2> DEFINE m == [i \in 1 .. (k + 1) |-> IF i = k + 1 THEN x ELSE l[i]]
  <2>7. \A i \in 1 .. (k + 1) : i # k + 1 => i \in 1 .. k
    OBVIOUS
  <2>8. m \in [1 .. (k + 1) -> R]
    BY <2>6, <2>7
  <2>9. \A i, j \in 1 .. (k + 1) : i # j => m[i] # m[j]
    BY <2>6, <2>7
  <2>10. m \in SetToSeqs(R)
    BY <2>8, <2>9 DEF SetToSeqs
  <2>11. Falls(m)
    <3> SUFFICES ASSUME NEW i \in 1 .. (k + 1), NEW j \in 1 .. (k + 1), i < j
                 PROVE  f[m[i]] > f[m[j]]
      OBVIOUS
    <3>1. i \in 1 .. k /\ m[i] = l[i] /\ l[i] \in R \ {x}
      BY <2>6
    <3>2. CASE j = k + 1
      <4>1. f[x] < f[l[i]]
        BY <3>1, <2>3
      <4>2. f[x] \in Nat /\ f[l[i]] \in Nat
        BY <3>1
      <4> QED BY <3>1, <3>2, <4>1, <4>2
    <3>3. CASE j # k + 1
      <4>1. j \in 1 .. k /\ m[j] = l[j]
        BY <3>3
      <4> QED BY <3>1, <4>1, <2>5, <2>6
    <3> QED BY <3>2, <3>3
  <2> HIDE DEF m
  <2> QED BY <2>10, <2>11
<1>4. Nat \subseteq U
  <2> HIDE DEF U
  <2> QED BY <1>2, <1>3, Induction
<1>5. S \in SUBSET S
  OBVIOUS
<1> QED BY <1>1, <1>4, <1>5

(* ... or rising.                                                          *)
LEMMA RisingExists ==
  ASSUME NEW S, IsFiniteSet(S), NEW m \in Nat, NEW f \in [S -> 0 .. m],
         \A a, b \in S : f[a] = f[b] => a = b
  PROVE  \E l \in SetToSeqs(S) : \A i, j \in DOMAIN l : i < j => f[l[i]] < f[l[j]]
<1> DEFINE g == [x \in S |-> m - f[x]]
<1>1. g \in [S -> Nat]
  OBVIOUS
<1>2. \A a, b \in S : g[a] = g[b] => a = b
  <2> SUFFICES ASSUME NEW a \in S, NEW b \in S, g[a] = g[b] PROVE a = b
    OBVIOUS
  <2>1. f[a] \in 0 .. m /\ f[b] \in 0 .. m /\ m - f[a] = m - f[b]
    OBVIOUS
  <2>2. f[a] = f[b]
    BY <2>1
  <2> QED BY <2>2
<1>3. PICK l \in SetToSeqs(S) : \A i, j \in DOMAIN l : i < j => g[l[i]] > g[l[j]]
  <2> HIDE DEF g
  <2> QED BY <1>1, <1>2, FallingExists
<1>4. ASSUME NEW i \in DOMAIN l, NEW j \in DOMAIN l, i < j PROVE f[l[i]] < f[l[j]]
  <2>1. l[i] \in S /\ l[j] \in S
    BY DEF SetToSeqs
  <2>2. f[l[i]] \in 0 .. m /\ f[l[j]] \in 0 .. m /\ m - f[l[i]] > m - f[l[j]]
    BY <1>3, <1>4, <2>1
  <2> QED BY <2>2
<1> QED BY <1>4
=============================================================================
