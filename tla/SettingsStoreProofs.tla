------------------------ MODULE SettingsStoreProofs ------------------------
(* Proofs about SettingsStore.                                             *)
EXTENDS SettingsStore, FiniteSetTheorems, SequenceTheorems, TLAPS

(* Induction, recursion and the fold of updateSetting.                     *)
Load == INSTANCE Folding WITH op <- Update

-----------------------------------------------------------------------------
(* The order of use.                                                       *)

(* The ticks of settings: no two the same.                                 *)
Ticked(conns) ==
  /\ DOMAIN conns \subseteq Name /\ IsFiniteSet(DOMAIN conns)
  /\ conns \in [DOMAIN conns -> Nat]
  /\ \A a, b \in DOMAIN conns : conns[a] = conns[b] => a = b

Falling(l, conns) ==
  \A i, j \in DOMAIN l : i < j => conns[l[i]] > conns[l[j]]

(* Settings with different ticks can be listed in the order of use.        *)
LEMMA FallingExists ==
  ASSUME NEW conns, Ticked(conns)
  PROVE  \E l \in SetToSeqs(DOMAIN conns) : Falling(l, conns)
<1>1. IsFiniteSet(DOMAIN conns) /\ conns \in [DOMAIN conns -> Nat]
  BY DEF Ticked
<1>2. PICK l \in Load!SetToSeqs(DOMAIN conns) :
        \A i, j \in DOMAIN l : i < j => conns[l[i]] > conns[l[j]]
  <2>1. \A a, b \in DOMAIN conns : conns[a] = conns[b] => a = b
    BY DEF Ticked
  <2> QED BY <1>1, <2>1, Load!FallingExists DEF Load!IsFiniteSet, IsFiniteSet
<1>3. l \in SetToSeqs(DOMAIN conns)
  <2>1. Load!Cardinality(DOMAIN conns) = Cardinality(DOMAIN conns)
    BY Zenon DEF Load!Cardinality, Cardinality, Load!IsFiniteSet, IsFiniteSet
  <2> QED BY <2>1 DEF SetToSeqs, Load!SetToSeqs
<1> QED BY <1>2, <1>3 DEF Falling

(* In such a list an entry's place is given by the entries used after it.  *)
LEMMA FallingIsMostRecent ==
  ASSUME NEW conns, Ticked(conns),
         NEW l \in SetToSeqs(DOMAIN conns), Falling(l, conns)
  PROVE  MostRecentFirst(conns) = l
<1> DEFINE D == DOMAIN conns
           c == Cardinality(D)
<1>1. c \in Nat /\ IsFiniteSet(D) /\ \A x \in D : conns[x] \in Nat
  BY FS_CardinalityType DEF Ticked
<1> HIDE DEF D, c
<1>2. l \in [1 .. c -> D] /\ \A i, j \in 1 .. c : i # j => l[i] # l[j]
  BY DEF SetToSeqs, c, D
<1>3. \A x \in D : \E i \in 1 .. c : l[i] = x
  <2>1. l \in Injection(1 .. c, D)
    BY <1>2 DEF Injection, IsInjective
  <2>2. IsFiniteSet(1 .. c) /\ Cardinality(1 .. c) = c
    BY <1>1, FS_Interval
  <2>3. l \in Surjection(1 .. c, D)
    BY <1>1, <2>1, <2>2, FS_Injection DEF c
  <2> QED BY <2>3 DEF Surjection
<1>4. \A i, j \in 1 .. c : i < j => conns[l[i]] > conns[l[j]]
  BY <1>2 DEF Falling
<1>5. ASSUME NEW i \in 1 .. c PROVE Cardinality(UsedAfter(conns, l[i])) = i - 1
  <2> DEFINE B == 1 .. (i - 1)
             T == UsedAfter(conns, l[i])
             f == [j \in B |-> l[j]]
  <2>1. B \subseteq 1 .. c /\ \A j \in B : j < i
    BY <1>1
  <2>2. T = {l[j] : j \in B}
    <3>1. ASSUME NEW x \in T PROVE \E j \in B : l[j] = x
      <4>1. x \in D /\ conns[x] > conns[l[i]]
        BY DEF UsedAfter, D
      <4>2. PICK j \in 1 .. c : l[j] = x
        BY <1>3, <4>1
      <4>3. conns[l[j]] \in Nat /\ conns[l[i]] \in Nat
        BY <1>1, <1>2
      <4>4. ~(i < j) /\ i # j
        BY <1>4, <4>1, <4>2, <4>3
      <4>5. j \in B
        BY <1>1, <4>4
      <4> QED BY <4>2, <4>5
    <3>2. ASSUME NEW j \in B PROVE l[j] \in T
      <4>1. l[j] \in D /\ conns[l[j]] > conns[l[i]]
        BY <1>2, <1>4, <2>1
      <4> QED BY <4>1 DEF UsedAfter, D
    <3> QED BY <3>1, <3>2
  <2>3. f \in Bijection(B, T)
    <3>1. f \in [B -> T] /\ \A x \in T : \E j \in B : f[j] = x
      BY <2>2
    <3>2. \A j, k \in B : f[j] = f[k] => j = k
      BY <1>2, <2>1
    <3> HIDE DEF f, T, B
    <3> QED BY <3>1, <3>2 DEF Bijection, Injection, Surjection, IsInjective
  <2>4. IsFiniteSet(B) /\ Cardinality(B) = i - 1
    BY <1>1, FS_Interval
  <2> HIDE DEF B, T, f
  <2>5. ExistsBijection(B, T)
    BY <2>3, Zenon DEF ExistsBijection
  <2> QED BY <2>4, <2>5, FS_Bijection DEF T
<1>6. ASSUME NEW i \in 1 .. c
      PROVE  (CHOOSE n \in D : Cardinality(UsedAfter(conns, n)) = i - 1) = l[i]
  <2>1. l[i] \in D /\ Cardinality(UsedAfter(conns, l[i])) = i - 1
    BY <1>2, <1>5
  <2>2. ASSUME NEW n \in D, Cardinality(UsedAfter(conns, n)) = i - 1
        PROVE  n = l[i]
    <3>1. PICK k \in 1 .. c : l[k] = n
      BY <1>3
    <3>2. k - 1 = i - 1
      BY <1>5, <2>2, <3>1
    <3>3. k = i
      BY <1>1, <3>2
    <3> QED BY <3>1, <3>3
  <2> QED BY <2>1, <2>2
<1>7. MostRecentFirst(conns) = [i \in 1 .. c |-> l[i]]
  BY <1>6 DEF MostRecentFirst, c, D
<1> QED BY <1>2, <1>7

(* What MostRecentFirst returns: every setting once, the ticks falling.    *)
LEMMA MostRecentFirstSorts ==
  ASSUME NEW conns, Ticked(conns)
  PROVE  LET l == MostRecentFirst(conns)
         IN  /\ l \in SetToSeqs(DOMAIN conns) /\ Falling(l, conns)
             /\ l \in Seq(DOMAIN conns) /\ DOMAIN l = 1 .. Len(l)
             /\ Len(l) = Cardinality(DOMAIN conns)
             /\ ToSet(l) = DOMAIN conns
             /\ \A i, j \in DOMAIN l : l[i] = l[j] => i = j
<1> DEFINE l == MostRecentFirst(conns)
           D == DOMAIN conns
           c == Cardinality(D)
<1>1. l \in SetToSeqs(D) /\ Falling(l, conns)
  BY FallingExists, FallingIsMostRecent
<1>2. c \in Nat /\ IsFiniteSet(D)
  BY FS_CardinalityType DEF Ticked
<1> HIDE DEF l, D, c
<1>3. l \in [1 .. c -> D] /\ \A i, j \in 1 .. c : i # j => l[i] # l[j]
  BY <1>1 DEF SetToSeqs, c
<1>4. l \in Seq(D) /\ DOMAIN l = 1 .. Len(l) /\ Len(l) = c
  BY <1>2, <1>3
<1>5. ToSet(l) = D
  <2>1. l \in Injection(1 .. c, D)
    BY <1>3 DEF Injection, IsInjective
  <2>2. IsFiniteSet(1 .. c) /\ Cardinality(1 .. c) = c
    BY <1>2, FS_Interval
  <2>3. l \in Surjection(1 .. c, D)
    BY <1>2, <2>1, <2>2, FS_Injection DEF c
  <2> QED BY <1>3, <2>3 DEF Surjection, ToSet
<1> QED BY <1>1, <1>3, <1>4, <1>5 DEF l, D, c

(* There is only one such list.                                            *)
LEMMA OnlyFalling ==
  ASSUME NEW conns, Ticked(conns),
         NEW l \in Seq(DOMAIN conns), ToSet(l) = DOMAIN conns, Falling(l, conns),
         NEW m \in Seq(DOMAIN conns), ToSet(m) = DOMAIN conns, Falling(m, conns)
  PROVE  l = m
<1> DEFINE D == DOMAIN conns
<1>1. /\ DOMAIN l = 1 .. Len(l) /\ Len(l) \in Nat /\ \A i \in DOMAIN l : l[i] \in D
      /\ DOMAIN m = 1 .. Len(m) /\ Len(m) \in Nat /\ \A i \in DOMAIN m : m[i] \in D
  BY LenProperties
<1>2. \A x \in D : conns[x] \in Nat
  BY DEF Ticked
<1>3. /\ \A i, j \in DOMAIN l : l[i] = l[j] => i = j
      /\ \A i, j \in DOMAIN m : m[i] = m[j] => i = j
  <2>1. ASSUME NEW i \in DOMAIN l, NEW j \in DOMAIN l, i < j PROVE l[i] # l[j]
    <3>1. conns[l[i]] > conns[l[j]]
      BY <2>1 DEF Falling
    <3> QED BY <1>1, <1>2, <3>1
  <2>2. ASSUME NEW i \in DOMAIN m, NEW j \in DOMAIN m, i < j PROVE m[i] # m[j]
    <3>1. conns[m[i]] > conns[m[j]]
      BY <2>2 DEF Falling
    <3> QED BY <1>1, <1>2, <3>1
  <2> QED BY <1>1, <2>1, <2>2
<1>4. /\ \A x \in D : \E i \in DOMAIN l : l[i] = x
      /\ \A x \in D : \E i \in DOMAIN m : m[i] = x
  BY DEF ToSet
<1> DEFINE Differ == {i \in Nat : i \in DOMAIN l /\ i \in DOMAIN m /\ l[i] # m[i]}
<1>5. Differ = {}
  <2> SUFFICES ASSUME Differ # {} PROVE FALSE
    OBVIOUS
  <2>1. PICK i \in Differ : \A j \in Differ : ~(j < i)
    <3>1. Differ \subseteq Nat
      OBVIOUS
    <3> HIDE DEF Differ
    <3> QED BY <3>1, Load!LeastNumber
  <2>2. i \in DOMAIN l /\ i \in DOMAIN m /\ l[i] # m[i] /\ i \in Nat
    OBVIOUS
  <2>3. \A j \in Nat : j \in DOMAIN l /\ j \in DOMAIN m /\ j < i => l[j] = m[j]
    BY <2>1
  <2>4. PICK j \in DOMAIN m : m[j] = l[i]
    BY <1>1, <1>4, <2>2
  <2>5. j > i
    <3>1. j # i
      BY <2>2, <2>4
    <3>2. ~(j < i)
      <4> SUFFICES ASSUME j < i PROVE FALSE
        OBVIOUS
      <4>1. j \in DOMAIN l /\ j \in Nat
        BY <1>1, <2>2
      <4>2. l[j] = l[i]
        BY <2>3, <2>4, <4>1
      <4> QED BY <1>3, <2>2, <4>1, <4>2
    <3> QED BY <1>1, <2>2, <3>1, <3>2
  <2>6. PICK k \in DOMAIN l : l[k] = m[i]
    BY <1>1, <1>4, <2>2
  <2>7. k > i
    <3>1. k # i
      BY <2>2, <2>6
    <3>2. ~(k < i)
      <4> SUFFICES ASSUME k < i PROVE FALSE
        OBVIOUS
      <4>1. k \in DOMAIN m /\ k \in Nat
        BY <1>1, <2>2
      <4>2. m[k] = m[i]
        BY <2>3, <2>6, <4>1
      <4> QED BY <1>3, <2>2, <4>1, <4>2
    <3> QED BY <1>1, <2>2, <3>1, <3>2
  <2>8. conns[m[i]] > conns[l[i]]
    BY <2>2, <2>4, <2>5 DEF Falling
  <2>9. conns[l[i]] > conns[m[i]]
    BY <2>2, <2>6, <2>7 DEF Falling
  <2>10. conns[l[i]] \in Nat /\ conns[m[i]] \in Nat
    BY <1>1, <1>2, <2>2
  <2> QED BY <2>8, <2>9, <2>10
<1>6. \A i \in Nat : i \in DOMAIN l /\ i \in DOMAIN m => l[i] = m[i]
  BY <1>5
<1>7. Len(l) = Len(m)
  <2>1. ASSUME Len(l) < Len(m) PROVE FALSE
    <3>1. Len(m) \in DOMAIN m
      BY <1>1, <2>1
    <3>2. PICK j \in DOMAIN l : l[j] = m[Len(m)]
      BY <1>1, <1>4, <3>1
    <3>3. j \in DOMAIN m /\ j \in Nat /\ j < Len(m)
      BY <1>1, <2>1
    <3>4. m[j] = m[Len(m)]
      BY <1>6, <3>2, <3>3
    <3> QED BY <1>3, <3>1, <3>3, <3>4
  <2>2. ASSUME Len(m) < Len(l) PROVE FALSE
    <3>1. Len(l) \in DOMAIN l
      BY <1>1, <2>2
    <3>2. PICK j \in DOMAIN m : m[j] = l[Len(l)]
      BY <1>1, <1>4, <3>1
    <3>3. j \in DOMAIN l /\ j \in Nat /\ j < Len(l)
      BY <1>1, <2>2
    <3>4. l[j] = l[Len(l)]
      BY <1>6, <3>2, <3>3
    <3> QED BY <1>3, <3>1, <3>3, <3>4
  <2>3. Len(l) \in Nat /\ Len(m) \in Nat
    BY <1>1
  <2> QED BY <2>1, <2>2, <2>3
<1>8. \A i \in 1 .. Len(l) : l[i] = m[i]
  BY <1>1, <1>6, <1>7
<1> QED BY <1>7, <1>8, SeqEqual

-----------------------------------------------------------------------------
(* The memory.                                                             *)

TickTables == UNION {[S -> Nat] : S \in SUBSET Name}
Memory ==
  [conns : TickTables, ticker : Nat,
   history : History \cup {None}, options : Options, key : Key \cup {None}]

(* Every tick was taken from the ticker.                                   *)
Sound(m) ==
  m \in Memory /\ Ticked(m.conns) /\ \A n \in DOMAIN m.conns : m.conns[n] < m.ticker

(* m differs from k in the settings only.                                  *)
SameRest(m, k) ==
  m.history = k.history /\ m.options = k.options /\ m.key = k.key

LEMMA MemoryFields ==
  ASSUME NEW m \in Memory
  PROVE  /\ m.conns \in [DOMAIN m.conns -> Nat] /\ DOMAIN m.conns \subseteq Name
         /\ m.ticker \in Nat /\ m.history \in History \cup {None}
         /\ m.options \in Options /\ m.key \in Key \cup {None}
<1>1. PICK S \in SUBSET Name : m.conns \in [S -> Nat]
  BY DEF Memory, TickTables
<1> QED BY <1>1 DEF Memory

LEMMA MemoryIntro ==
  ASSUME NEW conns, DOMAIN conns \subseteq Name, conns \in [DOMAIN conns -> Nat]
  PROVE  conns \in TickTables
BY DEF TickTables

(* updateSetting: the setting has the old tick of the ticker.              *)
LEMMA UpdateMemory ==
  ASSUME NEW m \in Memory, NEW n \in Name
  PROVE  /\ Update(m, n) \in Memory
         /\ Update(m, n).conns = With(m.conns, n, m.ticker)
         /\ DOMAIN Update(m, n).conns = DOMAIN m.conns \cup {n}
         /\ Update(m, n).ticker = m.ticker + 1
         /\ SameRest(Update(m, n), m)
<1> DEFINE w == With(m.conns, n, m.ticker)
<1>1. /\ m.conns \in [DOMAIN m.conns -> Nat] /\ DOMAIN m.conns \subseteq Name
      /\ m.ticker \in Nat
  BY MemoryFields
<1>2. w \in [DOMAIN m.conns \cup {n} -> Nat]
  BY <1>1 DEF With
<1>3. w \in TickTables /\ DOMAIN w = DOMAIN m.conns \cup {n}
  BY <1>1, <1>2 DEF TickTables
<1> HIDE DEF w
<1>4. Update(m, n) = [m EXCEPT !.conns = w, !.ticker = m.ticker + 1]
  BY DEF Update, w, Memory
<1>5. /\ Update(m, n).conns = w /\ Update(m, n).ticker = m.ticker + 1
      /\ SameRest(Update(m, n), m)
  BY <1>4 DEF Memory, SameRest
<1>6. Update(m, n) \in Memory
  <2>1. m = [conns |-> m.conns, ticker |-> m.ticker, history |-> m.history,
             options |-> m.options, key |-> m.key]
    BY DEF Memory
  <2>2. Update(m, n) = [conns |-> w, ticker |-> m.ticker + 1, history |-> m.history,
                        options |-> m.options, key |-> m.key]
    BY <1>4, <2>1
  <2>3. /\ w \in TickTables /\ m.ticker + 1 \in Nat /\ m.options \in Options
        /\ m.history \in History \cup {None} /\ m.key \in Key \cup {None}
    BY <1>1, <1>3, MemoryFields
  <2> QED BY <2>2, <2>3 DEF Memory
<1> QED BY <1>3, <1>5, <1>6 DEF w

LEMMA UpdateSound ==
  ASSUME NEW m, Sound(m), NEW n \in Name
  PROVE  Sound(Update(m, n))
<1> DEFINE u == Update(m, n)
<1>1. /\ m \in Memory /\ m.conns \in [DOMAIN m.conns -> Nat] /\ m.ticker \in Nat
      /\ DOMAIN m.conns \subseteq Name /\ IsFiniteSet(DOMAIN m.conns)
      /\ \A a \in DOMAIN m.conns : m.conns[a] < m.ticker
      /\ \A a, b \in DOMAIN m.conns : m.conns[a] = m.conns[b] => a = b
  BY MemoryFields DEF Sound, Ticked
<1>2. /\ u \in Memory /\ u.conns = With(m.conns, n, m.ticker)
      /\ DOMAIN u.conns = DOMAIN m.conns \cup {n} /\ u.ticker = m.ticker + 1
  BY <1>1, UpdateMemory
<1>3. IsFiniteSet(DOMAIN u.conns)
  BY <1>1, <1>2, FS_AddElement
<1>4. \A a \in DOMAIN u.conns : u.conns[a] = IF a = n THEN m.ticker ELSE m.conns[a]
  BY <1>2 DEF With
<1>5. u.conns \in [DOMAIN u.conns -> Nat] /\ DOMAIN u.conns \subseteq Name
  BY <1>2, MemoryFields
<1> HIDE DEF u
<1>6. \A a \in DOMAIN u.conns : u.conns[a] < u.ticker
  BY <1>1, <1>2, <1>4
<1>7. \A a, b \in DOMAIN u.conns : u.conns[a] = u.conns[b] => a = b
  BY <1>1, <1>2, <1>4
<1> QED BY <1>2, <1>3, <1>5, <1>6, <1>7 DEF Sound, Ticked, u

(* Settings read one after the other take one tick each.                   *)
LEMMA LoadInOrder ==
  ASSUME NEW m, Sound(m), DOMAIN m.conns = {},
         NEW src \in Seq(Name), IsInjective(src)
  PROVE  LET l == FoldLeft(Update, m, src)
         IN  /\ Sound(l) /\ SameRest(l, m) /\ l.ticker = m.ticker + Len(src)
             /\ DOMAIN l.conns = ToSet(src)
             /\ \A i \in DOMAIN src : l.conns[src[i]] = m.ticker + i - 1
<1> DEFINE n == Len(src)
<1>1. m \in Memory /\ m.ticker \in Nat
  BY MemoryFields DEF Sound
<1>2. n \in Nat /\ DOMAIN src = 1 .. n /\ \A i \in 1 .. n : src[i] \in Name
  BY LenProperties
<1>3. \A v \in Memory, e \in Name : Update(v, e) \in Memory
  BY UpdateMemory
<1>4. PICK g \in [0 .. n -> Memory] : Load!Steps(g, m, src) /\ Load!Fold(m, src) = g[n]
  BY <1>1, <1>3, Load!FoldSteps
<1>5. FoldLeft(Update, m, src) = g[n]
  <2>1. FoldLeft(Update, m, src) = Load!Fold(m, src)
    BY DEF Load!Fold, Load!FoldLeft, FoldLeft, Load!MapThenFoldSet, MapThenFoldSet,
           Load!Max, Max
  <2> QED BY <1>4, <2>1
<1>6. g[0] = m /\ \A k \in 1 .. n : g[k] = Update(g[k - 1], src[k])
  BY <1>4 DEF Load!Steps
<1> DEFINE Loads(k) ==
             /\ Sound(g[k]) /\ SameRest(g[k], m) /\ g[k].ticker = m.ticker + k
             /\ DOMAIN g[k].conns = {src[i] : i \in 1 .. k}
             /\ \A i \in 1 .. k : g[k].conns[src[i]] = m.ticker + i - 1
           W == {k \in 0 .. n : Loads(k)}
<1> HIDE DEF n
<1>7. 0 \in W
  <2>1. Loads(0)
    BY <1>1, <1>6 DEF SameRest
  <2> HIDE DEF Loads
  <2> QED BY <1>2, <2>1
<1>8. ASSUME NEW k \in 0 .. (n - 1), k \in W PROVE k + 1 \in W
  <2>1. k + 1 \in 1 .. n /\ (k + 1) - 1 = k /\ k \in Nat
    BY <1>2
  <2>2. Loads(k) /\ src[k + 1] \in Name
    BY <1>2, <1>8, <2>1
  <2>3. g[k + 1] = Update(g[k], src[k + 1])
    BY <1>6, <2>1
  <2>4. g[k] \in Memory
    BY <2>2 DEF Sound
  <2>5. /\ g[k + 1].conns = With(g[k].conns, src[k + 1], g[k].ticker)
        /\ DOMAIN g[k + 1].conns = DOMAIN g[k].conns \cup {src[k + 1]}
        /\ g[k + 1].ticker = g[k].ticker + 1
        /\ SameRest(g[k + 1], g[k])
    BY <2>2, <2>3, <2>4, UpdateMemory
  <2>6. Sound(g[k + 1])
    BY <2>2, <2>3, UpdateSound
  <2>7. DOMAIN g[k + 1].conns = {src[i] : i \in 1 .. (k + 1)}
    <3>1. {src[i] : i \in 1 .. (k + 1)} = {src[i] : i \in 1 .. k} \cup {src[k + 1]}
      BY <2>1
    <3>2. DOMAIN g[k].conns = {src[i] : i \in 1 .. k}
      BY <2>2
    <3> QED BY <2>5, <3>1, <3>2, Zenon
  <2>8. ASSUME NEW i \in 1 .. (k + 1)
        PROVE  g[k + 1].conns[src[i]] = m.ticker + i - 1
    <3>1. src[i] \in DOMAIN g[k + 1].conns
      BY <2>7
    <3>2. g[k + 1].conns[src[i]] = IF src[i] = src[k + 1] THEN g[k].ticker
                                                          ELSE g[k].conns[src[i]]
      BY <2>5, <3>1 DEF With
    <3>3. i \in DOMAIN src /\ k + 1 \in DOMAIN src
      BY <1>2, <2>1
    <3>4. src[i] = src[k + 1] => i = k + 1
      BY <3>3 DEF IsInjective
    <3>5. CASE i = k + 1
      BY <1>1, <2>1, <2>2, <3>2, <3>5
    <3>6. CASE i # k + 1
      <4>1. i \in 1 .. k
        BY <2>1, <3>6
      <4> QED BY <2>2, <3>2, <3>4, <3>6, <4>1
    <3> QED BY <3>5, <3>6
  <2>9. SameRest(g[k + 1], m) /\ g[k + 1].ticker = m.ticker + (k + 1)
    <3>1. SameRest(g[k], m) /\ g[k].ticker = m.ticker + k
      BY <2>2
    <3> HIDE DEF Loads
    <3> QED BY <1>1, <2>1, <2>5, <3>1 DEF SameRest
  <2>10. Loads(k + 1)
    BY <2>6, <2>7, <2>8, <2>9
  <2> HIDE DEF Loads
  <2> QED BY <1>2, <2>1, <2>10
<1>9. Loads(n)
  <2>1. 0 .. n \subseteq W
    <3> HIDE DEF W
    <3> QED BY <1>2, <1>7, <1>8, Load!BoundedInduction
  <2> HIDE DEF Loads
  <2> QED BY <1>2, <2>1
<1>10. {src[i] : i \in 1 .. n} = ToSet(src)
  BY <1>2 DEF ToSet
<1> QED BY <1>2, <1>5, <1>9, <1>10 DEF n

LEMMA ReverseProperties ==
  ASSUME NEW S, NEW s \in Seq(S)
  PROVE  /\ Reverse(s) \in Seq(S) /\ Len(Reverse(s)) = Len(s)
         /\ DOMAIN Reverse(s) = 1 .. Len(s)
         /\ \A i \in 1 .. Len(s) : Reverse(s)[i] = s[Len(s) - i + 1]
         /\ ToSet(Reverse(s)) = ToSet(s)
         /\ Reverse(Reverse(s)) = s
         /\ IsInjective(s) => IsInjective(Reverse(s))
<1>1. Len(s) \in Nat /\ DOMAIN s = 1 .. Len(s) /\ \A i \in 1 .. Len(s) : s[i] \in S
  BY LenProperties
<1>2. \A i \in 1 .. Len(s) : Len(s) - i + 1 \in 1 .. Len(s)
  BY <1>1
<1>3. /\ Reverse(s) \in Seq(S) /\ Len(Reverse(s)) = Len(s)
      /\ DOMAIN Reverse(s) = 1 .. Len(s)
      /\ \A i \in 1 .. Len(s) : Reverse(s)[i] = s[Len(s) - i + 1]
  BY <1>1, <1>2 DEF Reverse
<1>4. ToSet(Reverse(s)) = ToSet(s)
  <2>1. \A i \in 1 .. Len(s) : Reverse(s)[i] \in ToSet(s)
    BY <1>1, <1>2, <1>3 DEF ToSet
  <2>2. ASSUME NEW i \in 1 .. Len(s) PROVE s[i] \in ToSet(Reverse(s))
    <3>1. Len(s) - i + 1 \in 1 .. Len(s) /\ Len(s) - (Len(s) - i + 1) + 1 = i
      BY <1>1
    <3>2. Reverse(s)[Len(s) - i + 1] = s[i]
      BY <1>3, <3>1
    <3> QED BY <1>3, <3>1, <3>2 DEF ToSet
  <2> QED BY <1>1, <1>3, <2>1, <2>2 DEF ToSet
<1>5. Reverse(Reverse(s)) = s
  <2>1. Reverse(Reverse(s)) \in Seq(S) /\ Len(Reverse(Reverse(s))) = Len(s)
    <3>1. \A i \in 1 .. Len(s) : Reverse(s)[i] \in S
      BY <1>1, <1>2, <1>3
    <3> QED BY <1>1, <1>2, <1>3, <3>1 DEF Reverse
  <2>2. ASSUME NEW i \in 1 .. Len(s) PROVE Reverse(Reverse(s))[i] = s[i]
    <3>1. Reverse(Reverse(s))[i] = Reverse(s)[Len(s) - i + 1]
      BY <1>1, <1>3 DEF Reverse
    <3>2. Len(s) - i + 1 \in 1 .. Len(s) /\ Len(s) - (Len(s) - i + 1) + 1 = i
      BY <1>1
    <3> QED BY <1>3, <3>1, <3>2
  <2> QED BY <2>1, <2>2, SeqEqual
<1>6. ASSUME IsInjective(s) PROVE IsInjective(Reverse(s))
  <2> SUFFICES ASSUME NEW i \in 1 .. Len(s), NEW j \in 1 .. Len(s),
                      Reverse(s)[i] = Reverse(s)[j]
               PROVE  i = j
    BY <1>3 DEF IsInjective
  <2>1. s[Len(s) - i + 1] = s[Len(s) - j + 1]
    BY <1>3
  <2>2. Len(s) - i + 1 = Len(s) - j + 1
    BY <1>1, <1>2, <1>6, <2>1 DEF IsInjective
  <2> QED BY <1>1, <2>2
<1> QED BY <1>3, <1>4, <1>5, <1>6

(* Where an empty map of settings is filled from.                          *)
Source(read) == IF read = NoFile THEN Generic ELSE read.settings

LEMMA SourceProperties ==
  ASSUME file \in File, IsInjective(file.settings), NEW read \in Readings
  PROVE  Source(read) \in Seq(Name) /\ IsInjective(Source(read))
<1>1. file.settings \in Seq(Name) /\ Generic \in Seq(Name) /\ IsInjective(Generic)
  BY SettingsAssumption DEF File
<1> QED BY <1>1 DEF Source, Readings

(* getSettings leaves settings alone that are there, and otherwise reads   *)
(* them so that their order of use is the order of the file.               *)
LEMMA LoadedSound ==
  ASSUME NEW m, Sound(m), file \in File, IsInjective(file.settings),
         NEW read \in Readings
  PROVE  LET l == Loaded(m, read)
         IN  /\ Sound(l) /\ SameRest(l, m)
             /\ DOMAIN m.conns # {} => l = m
             /\ DOMAIN m.conns = {} =>
                  /\ DOMAIN l.conns = ToSet(Source(read))
                  /\ MostRecentFirst(l.conns) = Reverse(Source(read))
<1> DEFINE src == Source(read)
<1>1. m \in Memory /\ m.conns \in [DOMAIN m.conns -> Nat] /\ m.ticker \in Nat
  BY MemoryFields DEF Sound
<1>2. src \in Seq(Name) /\ IsInjective(src) /\ Len(src) \in Nat
  BY SourceProperties
<1>3. m.conns = <<>> => Loaded(m, read) = FoldLeft(Update, m, src)
  BY DEF Loaded, Source
<1> HIDE DEF src
<1>4. CASE DOMAIN m.conns # {}
  <2>1. Loaded(m, read) = m
    BY <1>1, <1>4 DEF Loaded
  <2> QED BY <1>1, <1>4, <2>1 DEF SameRest
<1>5. CASE DOMAIN m.conns = {}
  <2> DEFINE l == FoldLeft(Update, m, src)
  <2>1. m.conns = <<>>
    BY <1>1, <1>5
  <2>2. Loaded(m, read) = l
    BY <1>3, <2>1
  <2>3. /\ Sound(l) /\ SameRest(l, m)
        /\ DOMAIN l.conns = ToSet(src)
        /\ \A i \in DOMAIN src : l.conns[src[i]] = m.ticker + i - 1
    BY <1>2, <1>5, LoadInOrder
  <2> HIDE DEF l
  <2> DEFINE r == Reverse(src)
             conns == l.conns
             f == MostRecentFirst(conns)
  <2>4. /\ DOMAIN src = 1 .. Len(src)
        /\ r \in Seq(ToSet(src)) /\ ToSet(r) = ToSet(src)
        /\ DOMAIN r = 1 .. Len(src)
        /\ \A i \in 1 .. Len(src) : r[i] = src[Len(src) - i + 1]
    <3>1. src \in Seq(ToSet(src))
      <4>1. Range(src) = ToSet(src)
        BY DEF Range, ToSet
      <4> QED BY <1>2, <4>1, SeqOfRange
    <3> QED BY <1>2, <3>1, ReverseProperties, LenProperties
  <2>5. Ticked(conns) /\ DOMAIN conns = ToSet(src)
    BY <2>3 DEF Sound
  <2>6. Falling(r, conns)
    <3> SUFFICES ASSUME NEW i \in 1 .. Len(src), NEW j \in 1 .. Len(src), i < j
                 PROVE  conns[r[i]] > conns[r[j]]
      BY <2>4 DEF Falling
    <3>1. /\ Len(src) - i + 1 \in 1 .. Len(src)
          /\ Len(src) - j + 1 \in 1 .. Len(src)
      BY <1>2
    <3>2. /\ conns[r[i]] = m.ticker + (Len(src) - i + 1) - 1
          /\ conns[r[j]] = m.ticker + (Len(src) - j + 1) - 1
      BY <2>3, <2>4, <3>1
    <3> QED BY <1>1, <1>2, <3>2
  <2>7. f \in Seq(DOMAIN conns) /\ ToSet(f) = DOMAIN conns /\ Falling(f, conns)
    BY <2>5, MostRecentFirstSorts
  <2>8. f = r
    <3> HIDE DEF f, r, conns
    <3> QED BY <2>4, <2>5, <2>6, <2>7, OnlyFalling
  <2> QED BY <1>5, <2>2, <2>3, <2>8 DEF src
<1> QED BY <1>4, <1>5

-----------------------------------------------------------------------------
(* The inductive invariant: besides what the file mirrors, that no listed  *)
(* setting is repeated and that the ticks are those of the ticker.         *)
StoreInv ==
  /\ file \in File /\ IsInjective(file.settings)
  /\ apart \subseteq Parts
  /\ Running => Sound(mem) /\ mem.ticker <= MaxTicker
  /\ FileMirrorsMemory
  /\ KeyOnlyForLocal

LEMMA SoundRuns == ASSUME NEW m, Sound(m) PROVE m # Off
BY MemoryFields DEF Sound, Off, Memory

LEMMA StoreInit == Init => StoreInv
<1> SUFFICES ASSUME Init PROVE StoreInv
  OBVIOUS
<1>1. mem = Off /\ apart = {} /\ file \in File /\ IsInjective(file.settings)
  BY SettingsAssumption DEF Init
<1> QED BY <1>1 DEF StoreInv, Running, FileMirrorsMemory, KeyOnlyForLocal

(* What a save writes, and a write cut short, are files; the settings      *)
(* written are those in memory.                                            *)
LEMMA WrittenIsFile ==
  ASSUME NEW m, Sound(m), NEW o \in Options, NEW h \in History \cup {None}
  PROVE  LET f == Written(m, o, h)
         IN  /\ f \in File /\ IsInjective(f.settings)
             /\ f.settings = Reverse(MostRecentFirst(m.conns))
             /\ ToSet(f.settings) = DOMAIN m.conns
             /\ f.options = o /\ f.history = h
<1> DEFINE l == MostRecentFirst(m.conns)
<1>1. Ticked(m.conns) /\ DOMAIN m.conns \subseteq Name
  BY DEF Sound, Ticked
<1>2. /\ l \in Seq(DOMAIN m.conns) /\ ToSet(l) = DOMAIN m.conns
      /\ DOMAIN l = 1 .. Len(l)
      /\ \A i, j \in DOMAIN l : l[i] = l[j] => i = j
  BY <1>1, MostRecentFirstSorts
<1> HIDE DEF l
<1>3. IsInjective(l) /\ l \in Seq(Name)
  BY <1>1, <1>2, SeqMonotonic DEF IsInjective
<1>4. /\ Reverse(l) \in Seq(Name) /\ IsInjective(Reverse(l))
      /\ ToSet(Reverse(l)) = DOMAIN m.conns
  BY <1>2, <1>3, ReverseProperties
<1>5. Keyed(l) = Reverse(l)
  BY <1>2 DEF Keyed, Reverse
<1>6. Written(m, o, h) = [settings |-> Reverse(l), options |-> o, history |-> h]
  BY <1>5 DEF Written, l
<1> QED BY <1>4, <1>6 DEF File, l

LEMMA TornIsFile ==
  ASSUME NEW f \in File, IsInjective(f.settings), NEW t \in Torn(f)
  PROVE  t \in File /\ IsInjective(t.settings)
<1> DEFINE s == f.settings
<1>1. CASE t = [f EXCEPT !.options = None]
  BY <1>1 DEF File
<1>2. CASE t # [f EXCEPT !.options = None]
  <2>1. PICK k \in 0 .. Len(s) :
          t = [settings |-> SubSeq(s, 1, k), options |-> None, history |-> None]
    BY <1>2 DEF Torn, Prefixes, NoFile
  <2>2. s \in Seq(Name)
    BY DEF File
  <2> HIDE DEF s
  <2>3. Len(s) \in Nat /\ DOMAIN s = 1 .. Len(s) /\ \A i \in 1 .. Len(s) : s[i] \in Name
    BY <2>2, LenProperties
  <2>4. k \in Nat /\ k <= Len(s)
    BY <2>3
  <2>5. /\ SubSeq(s, 1, k) \in Seq(Name) /\ DOMAIN SubSeq(s, 1, k) = 1 .. k
        /\ \A i \in 1 .. k : SubSeq(s, 1, k)[i] = s[i]
    BY <2>3, <2>4
  <2>6. IsInjective(SubSeq(s, 1, k))
    <3> SUFFICES ASSUME NEW i \in 1 .. k, NEW j \in 1 .. k, s[i] = s[j] PROVE i = j
      BY <2>5 DEF IsInjective
    <3>1. i \in DOMAIN s /\ j \in DOMAIN s
      BY <2>3, <2>4
    <3> QED BY <3>1 DEF IsInjective, s
  <2> QED BY <2>1, <2>5, <2>6 DEF File
<1> QED BY <1>1, <1>2

(* Saving m keeps the invariant, whichever way the write goes, if m and    *)
(* the old file only differ in what the failed write is recorded for, and  *)
(* the options and the history written are those of m.                     *)
LEMMA SaveKeeps ==
  ASSUME StoreInv,
         NEW m, Sound(m),
         NEW o \in Options, NEW h \in {None, m.history},
         NEW done, NEW kept, kept \subseteq Parts,
         Save(m, Written(m, o, h), done, kept),
         "options" \notin apart \ done => o = m.options,
         "settings" \notin apart \cup kept /\ file # NoFile /\ m.conns # <<>> =>
           file.settings = Reverse(MostRecentFirst(m.conns)),
         "options" \notin apart \cup kept /\ file.options # None =>
           file.options = m.options,
         "history" \notin apart \cup kept /\ file.history # None =>
           file.history = m.history,
         m.options \in AllowsOthers => m.key = None
  PROVE  StoreInv'
<1> DEFINE f == Written(m, o, h)
<1>1. h \in History \cup {None}
  BY MemoryFields DEF Sound
<1>2. /\ f \in File /\ IsInjective(f.settings) /\ f.options = o /\ f.history = h
      /\ f.settings = Reverse(MostRecentFirst(m.conns))
  BY <1>1, WrittenIsFile
<1>3. file \in File /\ IsInjective(file.settings) /\ apart \subseteq Parts
  BY DEF StoreInv
<1>4. m # Off /\ m.ticker <= MaxTicker
  BY SoundRuns DEF Save, Bounded
<1> HIDE DEF f
<1>5. CASE mem' = m /\ file' = f /\ apart' = apart \ done
  <2>1. FileMirrorsMemory'
    BY <1>2, <1>5 DEF FileMirrorsMemory, Running
  <2>2. KeyOnlyForLocal'
    BY <1>5 DEF KeyOnlyForLocal
  <2> QED BY <1>2, <1>3, <1>4, <1>5, <2>1, <2>2 DEF StoreInv, Running
<1>6. CASE mem' = m /\ file' = file /\ apart' = apart \cup kept
  <2>1. FileMirrorsMemory'
    BY <1>6 DEF FileMirrorsMemory, Running
  <2>2. KeyOnlyForLocal'
    BY <1>6 DEF KeyOnlyForLocal
  <2> QED BY <1>3, <1>4, <1>6, <2>1, <2>2 DEF StoreInv, Running
<1>7. CASE mem' = m /\ file' \in Torn(f) /\ apart' = Parts
  <2>1. file' \in File /\ IsInjective(file'.settings)
    BY <1>2, <1>7, TornIsFile
  <2>2. FileMirrorsMemory' /\ KeyOnlyForLocal'
    BY <1>7 DEF FileMirrorsMemory, KeyOnlyForLocal, Parts
  <2> QED BY <1>4, <1>7, <2>1, <2>2 DEF StoreInv, Running
<1>8. CASE mem' = Off /\ file' \in Torn(f) /\ apart' = {}
  <2>1. file' \in File /\ IsInjective(file'.settings)
    BY <1>2, <1>8, TornIsFile
  <2> QED BY <1>8, <2>1 DEF StoreInv, Running, FileMirrorsMemory, KeyOnlyForLocal
<1> QED BY <1>5, <1>6, <1>7, <1>8 DEF Save, f

(* What saveProperties(null) writes: the options found in the old file, or *)
(* those of the memory.                                                    *)
LEMMA PlainIsWritten ==
  ASSUME file \in File, NEW m, Sound(m), NEW old \in OldOptions
  PROVE  \E o \in Options :
           /\ WrittenPlain(m, old) = Written(m, o, m.history)
           /\ \/ o = m.options /\ PlainDone(old) = Parts
              \/ /\ o = file.options /\ file.options # None
                 /\ PlainDone(old) = {"settings", "history"}
<1>1. m.options \in Options
  BY MemoryFields DEF Sound
<1>2. old = None \/ old = file.options
  BY DEF OldOptions, Readings, NoFile
<1>3. file.options \in Options \cup {None}
  BY DEF File
<1>4. CASE old = None
  BY <1>1, <1>4 DEF WrittenPlain, PlainDone
<1>5. CASE old # None
  <2>1. old = file.options /\ old \in Options
    BY <1>2, <1>3, <1>5
  <2> QED BY <1>5, <2>1 DEF WrittenPlain, PlainDone
<1> QED BY <1>4, <1>5

LEMMA PlainSaveKeeps ==
  ASSUME StoreInv, Running, NEW m, Sound(m),
         m.options = mem.options, m.key = mem.key,
         NEW old \in OldOptions, NEW kept, kept \subseteq Parts,
         Save(m, WrittenPlain(m, old), PlainDone(old), kept),
         "settings" \notin apart \cup kept /\ file # NoFile /\ m.conns # <<>> =>
           file.settings = Reverse(MostRecentFirst(m.conns)),
         "history" \in kept \/ m.history = mem.history
  PROVE  StoreInv'
<1>1. file \in File /\ FileMirrorsMemory /\ KeyOnlyForLocal
  BY DEF StoreInv
<1>2. PICK o \in Options :
        /\ WrittenPlain(m, old) = Written(m, o, m.history)
        /\ \/ o = m.options /\ PlainDone(old) = Parts
           \/ /\ o = file.options /\ file.options # None
              /\ PlainDone(old) = {"settings", "history"}
  BY <1>1, PlainIsWritten
<1>3. "options" \notin apart \ PlainDone(old) => o = m.options
  BY <1>1, <1>2 DEF FileMirrorsMemory
<1>4. /\ "options" \notin apart \cup kept /\ file.options # None =>
           file.options = m.options
      /\ "history" \notin apart \cup kept /\ file.history # None =>
           file.history = m.history
      /\ m.options \in AllowsOthers => m.key = None
  BY <1>1 DEF FileMirrorsMemory, KeyOnlyForLocal
<1>5. Save(m, Written(m, o, m.history), PlainDone(old), kept)
  BY <1>2
<1>6. m.history \in {None, m.history}
  OBVIOUS
<1> QED BY <1>3, <1>4, <1>5, <1>6, SaveKeeps

-----------------------------------------------------------------------------
(* What the operations do to the memory before they save it.               *)

LEMMA RestrictSound ==
  ASSUME NEW m, Sound(m), NEW n \in Name
  PROVE  LET r == [m EXCEPT !.conns = Restrict(@, DOMAIN @ \ {n})]
         IN  /\ Sound(r) /\ SameRest(r, m) /\ r.ticker = m.ticker
             /\ DOMAIN r.conns = DOMAIN m.conns \ {n}
             /\ \A a \in DOMAIN m.conns \ {n} : r.conns[a] = m.conns[a]
<1> DEFINE c == Restrict(m.conns, DOMAIN m.conns \ {n})
           r == [m EXCEPT !.conns = c]
<1>1. /\ m \in Memory /\ m.conns \in [DOMAIN m.conns -> Nat]
      /\ DOMAIN m.conns \subseteq Name /\ IsFiniteSet(DOMAIN m.conns)
      /\ \A a \in DOMAIN m.conns : m.conns[a] < m.ticker
      /\ \A a, b \in DOMAIN m.conns : m.conns[a] = m.conns[b] => a = b
  BY MemoryFields DEF Sound, Ticked
<1>2. /\ DOMAIN c = DOMAIN m.conns \ {n} /\ c \in [DOMAIN c -> Nat]
      /\ \A a \in DOMAIN m.conns \ {n} : c[a] = m.conns[a]
  BY <1>1 DEF Restrict
<1>3. IsFiniteSet(DOMAIN c)
  BY <1>1, <1>2, FS_RemoveElement
<1>4. c \in TickTables /\ Ticked(c) /\ \A a \in DOMAIN c : c[a] < m.ticker
  BY <1>1, <1>2, <1>3, MemoryIntro DEF Ticked
<1> HIDE DEF c
<1>5. r \in Memory /\ r.conns = c /\ r.ticker = m.ticker /\ SameRest(r, m)
  BY <1>1, <1>4 DEF Memory, SameRest
<1>6. [m EXCEPT !.conns = Restrict(@, DOMAIN @ \ {n})] = r
  BY DEF c
<1> HIDE DEF r
<1>7. Sound(r)
  BY <1>4, <1>5 DEF Sound
<1> QED BY <1>2, <1>5, <1>6, <1>7

LEMMA OptionsSound ==
  ASSUME NEW m, Sound(m), NEW o \in Options
  PROVE  LET s == SetOptions(m, o)
         IN  /\ Sound(s) /\ s.conns = m.conns /\ s.ticker = m.ticker
             /\ s.history = m.history /\ s.options = o
             /\ o \in AllowsOthers => s.key = None
<1>1. m \in Memory /\ Ticked(m.conns) /\ \A a \in DOMAIN m.conns : m.conns[a] < m.ticker
  BY DEF Sound
<1>2. /\ SetOptions(m, o) \in Memory /\ SetOptions(m, o).conns = m.conns
      /\ SetOptions(m, o).ticker = m.ticker /\ SetOptions(m, o).history = m.history
      /\ SetOptions(m, o).options = o
      /\ o \in AllowsOthers => SetOptions(m, o).key = None
  BY <1>1 DEF SetOptions, Memory
<1> QED BY <1>1, <1>2 DEF Sound

LEMMA HistorySound ==
  ASSUME NEW m, Sound(m), NEW x \in History
  PROVE  LET s == [m EXCEPT !.history = x]
         IN  /\ Sound(s) /\ s.conns = m.conns /\ s.ticker = m.ticker
             /\ s.history = x /\ s.options = m.options /\ s.key = m.key
<1>1. m \in Memory /\ Ticked(m.conns) /\ \A a \in DOMAIN m.conns : m.conns[a] < m.ticker
  BY DEF Sound
<1> DEFINE s == [m EXCEPT !.history = x]
<1>2. /\ s \in Memory /\ s.conns = m.conns /\ s.ticker = m.ticker
      /\ s.history = x /\ s.options = m.options /\ s.key = m.key
  BY <1>1 DEF Memory
<1> HIDE DEF s
<1>3. Sound(s)
  BY <1>1, <1>2 DEF Sound
<1> QED BY <1>2, <1>3 DEF s

(* Loading keeps what the file mirrors, if the read does not fail.         *)
LEMMA LoadedMirrors ==
  ASSUME StoreInv, Running, NEW read \in Readings,
         NEW m, Sound(m), m.conns = mem.conns
  PROVE  /\ Sound(Loaded(m, read)) /\ SameRest(Loaded(m, read), m)
         /\ Misread(mem, read) \subseteq Parts
         /\ "settings" \notin apart \cup Misread(mem, read)
              /\ file # NoFile /\ Loaded(m, read).conns # <<>> =>
              file.settings = Reverse(MostRecentFirst(Loaded(m, read).conns))
<1>1. file \in File /\ IsInjective(file.settings) /\ FileMirrorsMemory
  BY DEF StoreInv
<1>2. /\ Sound(Loaded(m, read)) /\ SameRest(Loaded(m, read), m)
      /\ DOMAIN m.conns # {} => Loaded(m, read) = m
      /\ DOMAIN m.conns = {} =>
           MostRecentFirst(Loaded(m, read).conns) = Reverse(Source(read))
  BY <1>1, LoadedSound
<1>3. ASSUME "settings" \notin apart \cup Misread(mem, read), file # NoFile,
             Loaded(m, read).conns # <<>>
      PROVE  file.settings = Reverse(MostRecentFirst(Loaded(m, read).conns))
  <2>1. CASE DOMAIN m.conns # {}
    <3>1. m.conns = mem.conns /\ Loaded(m, read) = m
      BY <1>2, <2>1
    <3> QED BY <1>1, <1>3, <3>1 DEF FileMirrorsMemory
  <2>2. CASE DOMAIN m.conns = {}
    <3>1. m.conns \in [DOMAIN m.conns -> Nat]
      BY MemoryFields DEF Sound
    <3>2. mem.conns = <<>>
      BY <2>2, <3>1
    <3>3. read = file
      BY <1>3, <3>2 DEF Misread
    <3>4. Source(read) = file.settings /\ file.settings \in Seq(Name)
      BY <1>1, <1>3, <3>3 DEF Source, File
    <3> QED BY <1>2, <2>2, <3>4, ReverseProperties
  <2> QED BY <2>1, <2>2
<1>4. Misread(mem, read) \subseteq Parts
  BY DEF Misread, Parts
<1> QED BY <1>2, <1>3, <1>4

-----------------------------------------------------------------------------
(* Each step keeps the invariant.                                          *)

LEMMA StartKeeps == StoreInv /\ Start => StoreInv'
<1> SUFFICES ASSUME StoreInv, Start PROVE StoreInv'
  OBVIOUS
<1>1. PICK read \in Readings :
        /\ mem' = [conns |-> <<>>, ticker |-> 0, history |-> read.history,
                   options |-> IF read.options = None THEN DefaultOptions
                                                      ELSE read.options,
                   key |-> None]
        /\ apart' = IF read = file THEN {} ELSE {"options", "history"}
  BY DEF Start
<1> DEFINE o == IF read.options = None THEN DefaultOptions ELSE read.options
           m == [conns |-> <<>>, ticker |-> 0, history |-> read.history,
                 options |-> o, key |-> None]
<1>2. file \in File /\ IsInjective(file.settings)
  BY DEF StoreInv
<1>3. mem' = m /\ file' = file /\ apart' \subseteq Parts
  BY <1>1 DEF Start, Parts
<1>4. o \in Options /\ read.history \in History \cup {None}
  BY <1>2, SettingsAssumption DEF File, Readings, NoFile
<1>5. "options" \notin apart' \/ "history" \notin apart' => read = file
  BY <1>1
<1> HIDE DEF o
<1>6. Sound(m)
  <2>1. <<>> \in TickTables /\ Ticked(<<>>)
    BY FS_EmptySet DEF TickTables, Ticked
  <2> QED BY <1>4, <2>1 DEF Sound, Memory
<1>7. m.ticker <= MaxTicker /\ m.conns = <<>> /\ m.key = None /\ m.history = read.history
  BY SettingsAssumption
<1>8. read.options # None => m.options = read.options
  BY DEF o
<1> HIDE DEF m
<1>9. FileMirrorsMemory' /\ KeyOnlyForLocal'
  BY <1>3, <1>5, <1>7, <1>8 DEF FileMirrorsMemory, KeyOnlyForLocal
<1> QED BY <1>2, <1>3, <1>6, <1>7, <1>9 DEF StoreInv, Running

LEMMA StopKeeps == StoreInv /\ Stop => StoreInv'
BY DEF StoreInv, Stop, Running, FileMirrorsMemory, KeyOnlyForLocal

LEMMA GetSettingsKeeps == StoreInv /\ GetSettings => StoreInv'
<1> SUFFICES ASSUME StoreInv, GetSettings PROVE StoreInv'
  OBVIOUS
<1>1. PICK read \in Readings :
        /\ Bounded(Loaded(mem, read)) /\ mem' = Loaded(mem, read)
        /\ apart' = apart \cup Misread(mem, read)
  BY DEF GetSettings
<1> DEFINE m == Loaded(mem, read)
<1>2. Running /\ Sound(mem) /\ file' = file
  BY DEF GetSettings, StoreInv
<1>3. /\ Sound(m) /\ SameRest(m, mem) /\ Misread(mem, read) \subseteq Parts
      /\ "settings" \notin apart \cup Misread(mem, read)
           /\ file # NoFile /\ m.conns # <<>> =>
           file.settings = Reverse(MostRecentFirst(m.conns))
  BY <1>2, LoadedMirrors
<1>4. m.ticker <= MaxTicker
  BY <1>1 DEF Bounded
<1> HIDE DEF m
<1>5. FileMirrorsMemory'
  BY <1>1, <1>2, <1>3 DEF FileMirrorsMemory, StoreInv, SameRest, m
<1>6. KeyOnlyForLocal'
  BY <1>1, <1>2, <1>3 DEF KeyOnlyForLocal, StoreInv, SameRest, m
<1> QED BY <1>1, <1>2, <1>3, <1>4, <1>5, <1>6 DEF StoreInv, Running, m

LEMMA SettingSaveKeeps ==
  ASSUME StoreInv, NEW n \in Name, SettingSave(n)
  PROVE  StoreInv'
<1> DEFINE m == Update(mem, n)
<1>1. Running /\ Sound(mem)
  BY DEF SettingSave, StoreInv
<1>2. PICK old \in OldOptions :
        Save(m, WrittenPlain(m, old), PlainDone(old), {"settings"})
  BY DEF SettingSave
<1>3. Sound(m) /\ SameRest(m, mem)
  BY <1>1, UpdateSound, UpdateMemory DEF Sound
<1> HIDE DEF m
<1>4. {"settings"} \subseteq Parts
  BY DEF Parts
<1> QED BY <1>1, <1>2, <1>3, <1>4, PlainSaveKeeps DEF SameRest

LEMMA SettingRemoveKeeps ==
  ASSUME StoreInv, NEW n \in Name, NEW old \in OldOptions, NEW read \in Readings,
         SettingRemove(n, old, read)
  PROVE  StoreInv'
<1> DEFINE r == [mem EXCEPT !.conns = Restrict(@, DOMAIN @ \ {n})]
           m == Loaded(r, read)
<1>1. /\ Running /\ Sound(mem) /\ file \in File /\ IsInjective(file.settings)
      /\ Save(m, WrittenPlain(m, old), PlainDone(old), {"settings"})
  BY DEF SettingRemove, StoreInv
<1>2. Sound(r) /\ SameRest(r, mem)
  BY <1>1, RestrictSound
<1> HIDE DEF r
<1>3. Sound(m) /\ SameRest(m, r)
  BY <1>1, <1>2, LoadedSound
<1> HIDE DEF m
<1>4. {"settings"} \subseteq Parts
  BY DEF Parts
<1> QED BY <1>1, <1>2, <1>3, <1>4, PlainSaveKeeps DEF SameRest

LEMMA AdminSaveKeeps ==
  ASSUME StoreInv, NEW o \in Options, NEW read \in Readings, AdminSave(o, read)
  PROVE  StoreInv'
<1> DEFINE s == SetOptions(mem, o)
           m == Loaded(s, read)
           kept == {"options"} \cup Misread(mem, read)
<1>1. /\ Running /\ Sound(mem)
      /\ Save(m, Written(m, o, None), Parts, kept)
  BY DEF AdminSave, StoreInv
<1>2. /\ Sound(s) /\ s.conns = mem.conns
      /\ s.history = mem.history /\ s.options = o
      /\ o \in AllowsOthers => s.key = None
  BY <1>1, OptionsSound
<1> HIDE DEF s
<1>3. /\ Sound(m) /\ SameRest(m, s) /\ kept \subseteq Parts
      /\ "settings" \notin apart \cup kept /\ file # NoFile /\ m.conns # <<>> =>
           file.settings = Reverse(MostRecentFirst(m.conns))
  BY <1>1, <1>2, LoadedMirrors DEF Parts
<1>4. "options" \in kept
  OBVIOUS
<1> HIDE DEF m, kept
<1>5. m.options = o /\ m.history = mem.history /\ (m.options \in AllowsOthers => m.key = None)
  BY <1>2, <1>3 DEF SameRest
<1>6. "history" \notin apart /\ file.history # None => file.history = m.history
  BY <1>1, <1>5 DEF StoreInv, FileMirrorsMemory
<1>7. None \in {None, m.history}
  OBVIOUS
<1> QED BY <1>1, <1>3, <1>4, <1>5, <1>6, <1>7, SaveKeeps

LEMMA HistorySaveKeeps ==
  ASSUME StoreInv, NEW x \in History, NEW old \in OldOptions, NEW read \in Readings,
         HistorySave(x, old, read)
  PROVE  StoreInv'
<1> DEFINE s == [mem EXCEPT !.history = x]
           m == Loaded(s, read)
           kept == {"history"} \cup Misread(mem, read)
<1>1. /\ Running /\ Sound(mem)
      /\ Save(m, WrittenPlain(m, old), PlainDone(old), kept)
  BY DEF HistorySave, StoreInv
<1>2. /\ Sound(s) /\ s.conns = mem.conns
      /\ s.options = mem.options /\ s.key = mem.key
  BY <1>1, HistorySound
<1> HIDE DEF s
<1>3. /\ Sound(m) /\ SameRest(m, s) /\ kept \subseteq Parts
      /\ "settings" \notin apart \cup kept /\ file # NoFile /\ m.conns # <<>> =>
           file.settings = Reverse(MostRecentFirst(m.conns))
  BY <1>1, <1>2, LoadedMirrors DEF Parts
<1>4. "history" \in kept
  OBVIOUS
<1> HIDE DEF m, kept
<1> QED BY <1>1, <1>2, <1>3, <1>4, PlainSaveKeeps DEF SameRest

LEMMA SetKeyKeeps ==
  ASSUME StoreInv, NEW k \in Key, SetKey(k)
  PROVE  StoreInv'
<1>1. /\ Running /\ Sound(mem) /\ mem.options \notin AllowsOthers
      /\ mem' = [mem EXCEPT !.key = k] /\ file' = file /\ apart' = apart
  BY DEF SetKey, StoreInv
<1>2. /\ mem' \in Memory /\ mem'.conns = mem.conns /\ mem'.ticker = mem.ticker
      /\ mem'.history = mem.history /\ mem'.options = mem.options
  BY <1>1 DEF Sound, Memory
<1>3. Sound(mem)'
  BY <1>1, <1>2 DEF Sound
<1>4. FileMirrorsMemory' /\ KeyOnlyForLocal'
  BY <1>1, <1>2 DEF FileMirrorsMemory, KeyOnlyForLocal, StoreInv
<1> QED BY <1>1, <1>2, <1>3, <1>4 DEF StoreInv

LEMMA StoreStep == StoreInv /\ [Next]_vars => StoreInv'
<1> SUFFICES ASSUME StoreInv, [Next]_vars PROVE StoreInv'
  OBVIOUS
<1>1. CASE UNCHANGED vars
  BY <1>1 DEF vars, StoreInv, Running, FileMirrorsMemory, KeyOnlyForLocal
<1>2. CASE Next
  BY <1>2, StartKeeps, StopKeeps, GetSettingsKeeps, SettingSaveKeeps, SettingRemoveKeeps,
     AdminSaveKeeps, HistorySaveKeeps, SetKeyKeeps DEF Next
<1> QED BY <1>1, <1>2

LEMMA StoreInvariant == Spec => []StoreInv
BY StoreInit, StoreStep, PTL DEF Spec

-----------------------------------------------------------------------------
(* The types are right in every instance, and no two settings ever have    *)
(* the same tick.                                                          *)
THEOREM TypeCorrect == Spec => []TypeOK
<1>1. StoreInv => TypeOK
  <2> SUFFICES ASSUME StoreInv PROVE TypeOK
    OBVIOUS
  <2>1. CASE ~Running
    BY <2>1 DEF StoreInv, TypeOK
  <2>2. CASE Running
    <3>1. /\ Sound(mem) /\ mem.ticker <= MaxTicker /\ MaxTicker \in Nat
          /\ mem.conns \in [DOMAIN mem.conns -> Nat] /\ DOMAIN mem.conns \subseteq Name
          /\ mem.ticker \in Nat /\ mem.history \in History \cup {None}
          /\ mem.options \in Options /\ mem.key \in Key \cup {None}
      BY <2>2, SettingsAssumption, MemoryFields DEF StoreInv, Sound
    <3>2. \A n \in DOMAIN mem.conns : mem.conns[n] \in 0 .. (mem.ticker - 1)
      BY <3>1 DEF Sound
    <3>3. IsInjective(mem.conns)
      BY <3>1 DEF Sound, Ticked, IsInjective
    <3> QED BY <2>2, <3>1, <3>2, <3>3 DEF StoreInv, TypeOK, Ticks
  <2> QED BY <2>1, <2>2
<1> QED BY <1>1, StoreInvariant, PTL

(* Memory and file agree in every instance, across restarts, saves that    *)
(* fail before or after the file is truncated and reads that fail, but for *)
(* what such a failure has set apart: saveProperties and getSettings are   *)
(* each other's inverse on the order of use.                               *)
THEOREM MirrorHolds == Spec => []FileMirrorsMemory
<1>1. StoreInv => FileMirrorsMemory
  BY DEF StoreInv
<1> QED BY <1>1, StoreInvariant, PTL

(* A key for privileged connections never exists beside access for others. *)
THEOREM KeysAreLocal == Spec => []KeyOnlyForLocal
<1>1. StoreInv => KeyOnlyForLocal
  BY DEF StoreInv
<1> QED BY <1>1, StoreInvariant, PTL

(* A saved file without one of the old file's settings: only those memory  *)
(* did not have are missing, unless the write was cut short.               *)
LEMMA SavedSettings ==
  ASSUME NEW m, Sound(m), NEW o \in Options, NEW h \in {None, m.history},
         NEW done, NEW kept, Save(m, Written(m, o, h), done, kept), mem' # Off
  PROVE  /\ "settings" \notin apart' =>
              \A n \in ToSet(file.settings) \ ToSet(file'.settings) :
                n \notin DOMAIN m.conns
         /\ "history" \notin apart' => file'.history \in {file.history, h}
<1>1. h \in History \cup {None}
  BY MemoryFields DEF Sound
<1>2. ToSet(Written(m, o, h).settings) = DOMAIN m.conns /\ Written(m, o, h).history = h
  BY <1>1, WrittenIsFile
<1> QED BY <1>2 DEF Save, Parts

LEMMA PlainSavedSettings ==
  ASSUME StoreInv, NEW m, Sound(m), NEW old \in OldOptions, NEW done, NEW kept,
         Save(m, WrittenPlain(m, old), done, kept), mem' # Off
  PROVE  /\ "settings" \notin apart' =>
              \A n \in ToSet(file.settings) \ ToSet(file'.settings) :
                n \notin DOMAIN m.conns
         /\ "history" \notin apart' => file'.history \in {file.history, m.history}
<1>1. file \in File
  BY DEF StoreInv
<1>2. PICK o \in Options : WrittenPlain(m, old) = Written(m, o, m.history)
  BY <1>1, PlainIsWritten
<1>3. Save(m, Written(m, o, m.history), done, kept) /\ m.history \in {None, m.history}
  BY <1>2
<1> QED BY <1>3, SavedSettings

(* What the file lists and the map of settings agree on.                   *)
LEMMA ListedIsLoaded ==
  ASSUME StoreInv, Running, "settings" \notin apart, file.settings # <<>>,
         NEW m, Sound(m), m.conns = mem.conns \/ DOMAIN m.conns = {},
         NEW read \in Readings, DOMAIN m.conns = {} => read = file
  PROVE  DOMAIN Loaded(m, read).conns = ToSet(file.settings)
<1>1. /\ file \in File /\ IsInjective(file.settings) /\ FileMirrorsMemory /\ Sound(mem)
      /\ file # NoFile
  BY DEF StoreInv, NoFile
<1>2. /\ DOMAIN m.conns # {} => Loaded(m, read) = m
      /\ DOMAIN m.conns = {} => DOMAIN Loaded(m, read).conns = ToSet(Source(read))
  BY <1>1, LoadedSound
<1>3. CASE DOMAIN m.conns = {}
  BY <1>1, <1>2, <1>3 DEF Source
<1>4. CASE DOMAIN m.conns # {}
  <2> DEFINE l == MostRecentFirst(mem.conns)
  <2>1. Loaded(m, read).conns = mem.conns /\ mem.conns # <<>>
    BY <1>2, <1>4
  <2>2. file.settings = Reverse(l)
    BY <1>1, <2>1 DEF FileMirrorsMemory
  <2>3. l \in Seq(DOMAIN mem.conns) /\ ToSet(l) = DOMAIN mem.conns
    BY <1>1, MostRecentFirstSorts DEF Sound
  <2> HIDE DEF l
  <2> QED BY <2>1, <2>2, <2>3, ReverseProperties
<1> QED BY <1>3, <1>4

(* The settings in memory are those in the file, once they are loaded.     *)
LEMMA MapIsListed ==
  ASSUME StoreInv, Running, "settings" \notin apart, mem.conns # <<>>,
         NEW n \in ToSet(file.settings)
  PROVE  n \in DOMAIN mem.conns
<1>1. Sound(mem) /\ file.settings # <<>> /\ file \in Readings
  BY DEF StoreInv, ToSet, Readings
<1>2. mem.conns \in [DOMAIN mem.conns -> Nat]
  BY <1>1, MemoryFields DEF Sound
<1>3. DOMAIN mem.conns # {}
  <2>1. DOMAIN mem.conns = {} => mem.conns = <<>>
    BY <1>2
  <2> QED BY <2>1
<1>4. DOMAIN Loaded(mem, file).conns = ToSet(file.settings)
  BY <1>1, <1>3, ListedIsLoaded
<1>5. Loaded(mem, file) = mem
  BY DEF Loaded
<1> QED BY <1>4, <1>5

(* No setting is lost but as LossesExplained says, whatever fails.         *)
LossExplained ==
  /\ \A n \in ToSet(file.settings) \ ToSet(file'.settings) :
       \/ mem' = Off
       \/ "settings" \in apart \cup apart'
       \/ \E old \in OldOptions, read \in Readings : SettingRemove(n, old, read)
       \/ SavesMisread
       \/ mem.conns = <<>> /\ \E other \in Name : SettingSave(other)
  /\ file.history # None /\ file'.history = None =>
       \/ mem' = Off
       \/ "history" \in apart \cup apart'
       \/ \E o \in Options, read \in Readings : AdminSave(o, read)

LEMMA LossStep == StoreInv /\ [Next]_vars => [LossExplained]_vars
<1> SUFFICES ASSUME StoreInv, Next PROVE LossExplained
  BY DEF vars
<1>1. ASSUME file' = file PROVE LossExplained
  BY <1>1 DEF LossExplained
<1>2. /\ Running => Sound(mem)
      /\ file \in File /\ IsInjective(file.settings)
      /\ "history" \notin apart /\ file.history # None /\ Running =>
           mem.history = file.history
  BY DEF StoreInv, FileMirrorsMemory
<1>3. \A read \in Readings : read # file => read = NoFile
  BY DEF Readings
<1>4. ASSUME NEW x \in Name, SettingSave(x) PROVE LossExplained
  <2> DEFINE m == Update(mem, x)
  <2>1. Running /\ Sound(mem)
    BY <1>2, <1>4 DEF SettingSave
  <2>2. PICK old \in OldOptions :
          Save(m, WrittenPlain(m, old), PlainDone(old), {"settings"})
    BY <1>4 DEF SettingSave
  <2>3. /\ Sound(m) /\ m.history = mem.history
        /\ DOMAIN m.conns = DOMAIN mem.conns \cup {x}
    BY <2>1, UpdateSound, UpdateMemory DEF Sound, SameRest
  <2> HIDE DEF m
  <2>4. mem' # Off =>
          /\ "settings" \notin apart' =>
               \A n \in ToSet(file.settings) \ ToSet(file'.settings) :
                 n \notin DOMAIN m.conns
          /\ "history" \notin apart' => file'.history \in {file.history, m.history}
    BY <2>2, <2>3, PlainSavedSettings
  <2>5. "settings" \notin apart /\ mem.conns # <<>> =>
          \A n \in ToSet(file.settings) : n \in DOMAIN m.conns
    BY <2>1, <2>3, MapIsListed
  <2> QED BY <1>2, <1>4, <2>1, <2>3, <2>4, <2>5 DEF LossExplained
<1>5. ASSUME NEW x \in Name, NEW old \in OldOptions, NEW read \in Readings,
             SettingRemove(x, old, read)
      PROVE  LossExplained
  <2> DEFINE r == [mem EXCEPT !.conns = Restrict(@, DOMAIN @ \ {x})]
             m == Loaded(r, read)
  <2>1. /\ Running /\ Sound(mem)
        /\ Save(m, WrittenPlain(m, old), PlainDone(old), {"settings"})
    BY <1>2, <1>5 DEF SettingRemove
  <2>2. Sound(r) /\ SameRest(r, mem) /\ DOMAIN r.conns = DOMAIN mem.conns \ {x}
    BY <2>1, RestrictSound
  <2> HIDE DEF r
  <2>3. /\ Sound(m) /\ m.history = mem.history /\ (DOMAIN r.conns # {} => m = r)
    BY <1>2, <2>2, LoadedSound DEF SameRest
  <2>4. "settings" \notin apart /\ file.settings # <<>> /\ DOMAIN r.conns = {}
          /\ read = file => DOMAIN m.conns = ToSet(file.settings)
    BY <2>1, <2>2, ListedIsLoaded
  <2> HIDE DEF m
  <2>5. mem' # Off =>
          /\ "settings" \notin apart' =>
               \A n \in ToSet(file.settings) \ ToSet(file'.settings) :
                 n \notin DOMAIN m.conns
          /\ "history" \notin apart' => file'.history \in {file.history, m.history}
    BY <2>1, <2>3, PlainSavedSettings
  <2>6. ASSUME "settings" \notin apart, ~SavesMisread,
               NEW n \in ToSet(file.settings), n # x
        PROVE  n \in DOMAIN m.conns
    <3>1. file.settings # <<>>
      BY <2>6 DEF ToSet
    <3>2. CASE mem.conns = <<>>
      <4>1. read = file
        BY <1>3, <1>5, <2>6, <3>2 DEF SavesMisread
      <4>2. DOMAIN r.conns = {}
        BY <2>2, <3>2
      <4> QED BY <2>4, <2>6, <3>1, <4>1, <4>2
    <3>3. CASE mem.conns # <<>>
      <4>1. n \in DOMAIN r.conns
        BY <2>1, <2>2, <2>6, <3>3, MapIsListed
      <4> QED BY <2>3, <4>1
    <3> QED BY <3>2, <3>3
  <2> QED BY <1>2, <1>5, <2>1, <2>3, <2>5, <2>6 DEF LossExplained
<1>6. ASSUME NEW o \in Options, NEW read \in Readings, AdminSave(o, read)
      PROVE  LossExplained
  <2> DEFINE s == SetOptions(mem, o)
             m == Loaded(s, read)
             kept == {"options"} \cup Misread(mem, read)
  <2>1. /\ Running /\ Sound(mem) /\ Save(m, Written(m, o, None), Parts, kept)
        /\ mem.conns = <<>> /\ read # file => SavesMisread
    BY <1>2, <1>3, <1>6 DEF AdminSave, SavesMisread
  <2>2. Sound(s) /\ s.conns = mem.conns
    BY <2>1, OptionsSound
  <2> HIDE DEF s
  <2>3. Sound(m) /\ None \in {None, m.history}
    BY <1>2, <2>2, LoadedSound
  <2>4. DOMAIN s.conns = {} => mem.conns = <<>>
    <3>1. mem.conns \in [DOMAIN mem.conns -> Nat]
      BY <2>1, MemoryFields DEF Sound
    <3> QED BY <2>2, <3>1
  <2>5. "settings" \notin apart /\ file.settings # <<>> /\ ~SavesMisread =>
          DOMAIN m.conns = ToSet(file.settings)
    BY <2>1, <2>2, <2>4, ListedIsLoaded
  <2> HIDE DEF m, kept
  <2>6. mem' # Off /\ "settings" \notin apart' =>
          \A n \in ToSet(file.settings) \ ToSet(file'.settings) : n \notin DOMAIN m.conns
    BY <2>1, <2>3, SavedSettings
  <2>7. file.settings = <<>> => ToSet(file.settings) = {}
    BY DEF ToSet
  <2> QED BY <1>6, <2>5, <2>6, <2>7 DEF LossExplained
<1>7. ASSUME NEW x \in History, NEW old \in OldOptions, NEW read \in Readings,
             HistorySave(x, old, read)
      PROVE  LossExplained
  <2> DEFINE s == [mem EXCEPT !.history = x]
             m == Loaded(s, read)
             kept == {"history"} \cup Misread(mem, read)
  <2>1. /\ Running /\ Sound(mem)
        /\ Save(m, WrittenPlain(m, old), PlainDone(old), kept)
        /\ mem.conns = <<>> /\ read # file => SavesMisread
    BY <1>2, <1>3, <1>7 DEF HistorySave, SavesMisread
  <2>2. Sound(s) /\ s.conns = mem.conns /\ s.history = x
    BY <2>1, HistorySound
  <2> HIDE DEF s
  <2>3. Sound(m) /\ m.history = x /\ x # None
    BY <1>2, <2>2, LoadedSound, SettingsAssumption DEF SameRest
  <2>4. DOMAIN s.conns = {} => mem.conns = <<>>
    <3>1. mem.conns \in [DOMAIN mem.conns -> Nat]
      BY <2>1, MemoryFields DEF Sound
    <3> QED BY <2>2, <3>1
  <2>5. "settings" \notin apart /\ file.settings # <<>> /\ ~SavesMisread =>
          DOMAIN m.conns = ToSet(file.settings)
    BY <2>1, <2>2, <2>4, ListedIsLoaded
  <2> HIDE DEF m, kept
  <2>6. mem' # Off =>
          /\ "settings" \notin apart' =>
               \A n \in ToSet(file.settings) \ ToSet(file'.settings) :
                 n \notin DOMAIN m.conns
          /\ "history" \notin apart' => file'.history \in {file.history, m.history}
    BY <2>1, <2>3, PlainSavedSettings
  <2>7. file.settings = <<>> => ToSet(file.settings) = {}
    BY DEF ToSet
  <2> QED BY <2>3, <2>5, <2>6, <2>7 DEF LossExplained
<1>8. ASSUME Start \/ Stop \/ GetSettings \/ \E k \in Key : SetKey(k) PROVE file' = file
  BY <1>8 DEF Start, Stop, GetSettings, SetKey
<1> QED BY <1>1, <1>4, <1>5, <1>6, <1>7, <1>8 DEF Next

(* A setting leaves the file by settingRemove, a write cut short, a read   *)
(* or write that failed and was swallowed, or a settingSave that follows a *)
(* restart, and the permission to store the history only by an admin save, *)
(* such a write or such a failure.                                         *)
THEOREM LossesAreExplained == Spec => LossesExplained
<1>1. [LossExplained]_vars =>
        [/\ \A n \in ToSet(file.settings) \ ToSet(file'.settings) :
              \/ mem' = Off
              \/ "settings" \in apart \cup apart'
              \/ \E old \in OldOptions, read \in Readings :
                   SettingRemove(n, old, read)
              \/ SavesMisread
              \/ mem.conns = <<>> /\ \E other \in Name : SettingSave(other)
         /\ file.history # None /\ file'.history = None =>
              \/ mem' = Off
              \/ "history" \in apart \cup apart'
              \/ \E o \in Options, read \in Readings : AdminSave(o, read)]_vars
  BY DEF LossExplained
<1> QED BY <1>1, LossStep, StoreInvariant, PTL DEF Spec, LossesExplained

-----------------------------------------------------------------------------
(* The order of use as a list.                                             *)

LEMMA UsedLastIsFirst ==
  ASSUME NEW m, Sound(m), NEW n \in Name
  PROVE  Head(MostRecentFirst(Update(m, n).conns)) = n
<1> DEFINE c == Update(m, n).conns
           l == MostRecentFirst(c)
<1>1. Sound(Update(m, n)) /\ m \in Memory
  BY UpdateSound DEF Sound
<1>2. c = With(m.conns, n, m.ticker) /\ DOMAIN c = DOMAIN m.conns \cup {n}
  BY <1>1, UpdateMemory
<1> HIDE DEF c
<1>3. /\ l \in Seq(DOMAIN c) /\ DOMAIN l = 1 .. Len(l) /\ Falling(l, c)
      /\ ToSet(l) = DOMAIN c
      /\ \A i, j \in DOMAIN l : l[i] = l[j] => i = j
  BY <1>1, MostRecentFirstSorts DEF Sound, c
<1> HIDE DEF l
<1>4. PICK i \in 1 .. Len(l) : l[i] = n
  BY <1>2, <1>3 DEF ToSet
<1>5. Len(l) \in Nat /\ 1 \in 1 .. Len(l) /\ l[1] \in DOMAIN c /\ Head(l) = l[1]
  BY <1>3, <1>4
<1>6. i = 1
  <2> SUFFICES ASSUME i # 1 PROVE FALSE
    OBVIOUS
  <2>1. l[1] # n
    BY <1>3, <1>4, <1>5
  <2>4. c[l[1]] > c[n]
    <3>1. 1 < i
      BY <1>4
    <3> QED BY <1>3, <1>4, <1>5, <3>1 DEF Falling
  <2>2. c[n] = m.ticker /\ c[l[1]] = m.conns[l[1]] /\ l[1] \in DOMAIN m.conns
    BY <1>2, <1>5, <2>1 DEF With
  <2>3. m.conns[l[1]] < m.ticker /\ m.ticker \in Nat /\ m.conns[l[1]] \in Nat
    BY <1>1, <2>2, MemoryFields DEF Sound
  <2> QED BY <2>2, <2>3, <2>4
<1> QED BY <1>4, <1>5, <1>6 DEF l, c

TopListed ==
  Running /\ mem' # Off =>
    /\ \A n \in Name :
         SettingSave(n) => Head(MostRecentFirst(mem'.conns)) = n
    /\ mem.conns = <<>> /\ file = NoFile /\ GetSettings =>
         Head(MostRecentFirst(mem'.conns)) = Generic[Len(Generic)]

LEMMA TopStep == StoreInv => TopListed
<1> SUFFICES ASSUME StoreInv, Running, mem' # Off
             PROVE  /\ \A n \in Name :
                         SettingSave(n) => Head(MostRecentFirst(mem'.conns)) = n
                    /\ mem.conns = <<>> /\ file = NoFile /\ GetSettings =>
                         Head(MostRecentFirst(mem'.conns)) = Generic[Len(Generic)]
  BY DEF TopListed
<1>1. Sound(mem) /\ file \in File /\ IsInjective(file.settings)
  BY DEF StoreInv
<1>2. ASSUME NEW n \in Name, SettingSave(n)
      PROVE  Head(MostRecentFirst(mem'.conns)) = n
  <2>1. mem' = Update(mem, n)
    BY <1>2 DEF SettingSave, Save
  <2> QED BY <1>1, <2>1, UsedLastIsFirst
<1>3. ASSUME GetSettings, mem.conns = <<>>, file = NoFile
      PROVE  Head(MostRecentFirst(mem'.conns)) = Generic[Len(Generic)]
  <2>1. PICK read \in Readings : mem' = Loaded(mem, read)
    BY <1>3 DEF GetSettings
  <2>2. DOMAIN mem.conns = {} /\ Source(read) = Generic
    BY <1>3 DEF Source, Readings
  <2>3. MostRecentFirst(mem'.conns) = Reverse(Generic)
    BY <1>1, <2>1, <2>2, LoadedSound
  <2>4. Generic \in Seq(Name) /\ Generic # <<>>
    BY SettingsAssumption
  <2>5. Len(Generic) \in Nat \ {0}
    BY <2>4, EmptySeq
  <2>6. /\ Reverse(Generic) \in Seq(Name) /\ Len(Reverse(Generic)) = Len(Generic)
        /\ Reverse(Generic)[1] = Generic[Len(Generic) - 1 + 1]
    BY <2>4, <2>5, ReverseProperties
  <2>7. Head(Reverse(Generic)) = Reverse(Generic)[1] /\ Len(Generic) - 1 + 1 = Len(Generic)
    BY <2>5, <2>6
  <2> QED BY <2>3, <2>6, <2>7
<1> QED BY <1>2, <1>3

(* The setting saved last is the first the login page offers; on a new     *)
(* installation the last generic one is.                                   *)
THEOREM LastUsedIsListedOnTop == Spec => ListedOnTop
<1>1. TopListed =>
        [Running /\ mem' # Off =>
           /\ \A n \in Name :
                SettingSave(n) => Head(MostRecentFirst(mem'.conns)) = n
           /\ mem.conns = <<>> /\ file = NoFile /\ GetSettings =>
                Head(MostRecentFirst(mem'.conns)) = Generic[Len(Generic)]]_vars
  BY DEF TopListed
<1> QED BY <1>1, TopStep, StoreInvariant, PTL DEF Spec, ListedOnTop

LEMMA BeforeIsTick ==
  ASSUME NEW conns, Ticked(conns), NEW a \in DOMAIN conns, NEW b \in DOMAIN conns
  PROVE  Recent!Before(MostRecentFirst(conns), a, b) <=> conns[a] > conns[b]
<1> DEFINE l == MostRecentFirst(conns)
<1>1. /\ DOMAIN l = 1 .. Len(l) /\ Falling(l, conns) /\ ToSet(l) = DOMAIN conns
      /\ Len(l) \in Nat
  BY MostRecentFirstSorts, FS_CardinalityType DEF Ticked
<1>2. conns[a] \in Nat /\ conns[b] \in Nat
  BY DEF Ticked
<1> HIDE DEF l
<1>3. PICK i \in DOMAIN l : l[i] = a
  BY <1>1 DEF ToSet
<1>4. PICK j \in DOMAIN l : l[j] = b
  BY <1>1 DEF ToSet
<1>5. ASSUME conns[a] > conns[b] PROVE i < j
  <2> SUFFICES ASSUME ~(i < j) PROVE FALSE
    OBVIOUS
  <2>1. i # j
    BY <1>2, <1>3, <1>4, <1>5
  <2>2. j < i
    BY <1>1, <2>1
  <2>3. conns[l[j]] > conns[l[i]]
    BY <1>1, <2>2 DEF Falling
  <2> QED BY <1>2, <1>3, <1>4, <1>5, <2>3
<1>6. ASSUME NEW p \in DOMAIN l, NEW q \in DOMAIN l, p < q, l[p] = a, l[q] = b
      PROVE  conns[a] > conns[b]
  BY <1>1, <1>6 DEF Falling
<1>7. (\E p, q \in DOMAIN l : p < q /\ l[p] = a /\ l[q] = b) <=> conns[a] > conns[b]
  BY <1>3, <1>4, <1>5, <1>6
<1> QED BY <1>7 DEF Recent!Before, l

(* Two maps with the same ticks for some settings list them in one order.  *)
LEMMA SameTicksSameOrder ==
  ASSUME NEW c, Ticked(c), NEW d, Ticked(d),
         NEW S, S \subseteq DOMAIN c, S \subseteq DOMAIN d,
         \A a \in S : c[a] = d[a]
  PROVE  \A a, b \in S : Recent!Before(MostRecentFirst(d), a, b)
                           <=> Recent!Before(MostRecentFirst(c), a, b)
<1> SUFFICES ASSUME NEW a \in S, NEW b \in S
             PROVE  Recent!Before(MostRecentFirst(d), a, b)
                      <=> Recent!Before(MostRecentFirst(c), a, b)
  OBVIOUS
<1>1. a \in DOMAIN c /\ b \in DOMAIN c /\ a \in DOMAIN d /\ b \in DOMAIN d
      /\ c[a] = d[a] /\ c[b] = d[b]
  OBVIOUS
<1> QED BY <1>1, BeforeIsTick

Listed == IF Running THEN MostRecentFirst(mem.conns) ELSE <<>>

LEMMA NothingListed == MostRecentFirst(<<>>) = <<>>
<1>1. Ticked(<<>>) /\ DOMAIN <<>> = {} /\ Cardinality({}) = 0
  BY FS_EmptySet DEF Ticked
<1>2. /\ MostRecentFirst(<<>>) \in Seq({}) /\ Len(MostRecentFirst(<<>>)) = 0
  BY <1>1, MostRecentFirstSorts
<1> QED BY <1>2, EmptySeq

(* The operators of the abstract module are those of this one.             *)
LEMMA SameOperators ==
  /\ \A l : Recent!ToSet(l) = ToSet(l)
  /\ \A l : Recent!IsInjective(l) <=> IsInjective(l)
BY DEF Recent!ToSet, ToSet, Recent!IsInjective, IsInjective

LEMMA ListedIsList ==
  ASSUME NEW m, Sound(m)
  PROVE  /\ Recent!IsList(MostRecentFirst(m.conns))
         /\ ToSet(MostRecentFirst(m.conns)) = DOMAIN m.conns
<1> DEFINE l == MostRecentFirst(m.conns)
<1>1. Ticked(m.conns) /\ DOMAIN m.conns \subseteq Name
  BY DEF Sound, Ticked
<1>2. /\ l \in Seq(DOMAIN m.conns) /\ ToSet(l) = DOMAIN m.conns
      /\ \A i, j \in DOMAIN l : l[i] = l[j] => i = j
  BY <1>1, MostRecentFirstSorts
<1> HIDE DEF l
<1>3. l \in Seq(Name) /\ IsInjective(l)
  BY <1>1, <1>2, SeqMonotonic DEF IsInjective
<1> QED BY <1>2, <1>3, SameOperators DEF Recent!IsList, l

(* A step of the list is a step of the abstract module.                    *)
LEMMA ListStep ==
  ASSUME Recent!IsList(Listed'),
         \/ Listed' = <<>> \/ Listed = <<>>
         \/ \E n \in Name : \/ ToSet(Listed) \subseteq {n}
                            \/ Recent!Use(Listed, Listed', n)
                            \/ Recent!Drop(Listed, Listed', n)
  PROVE  Recent!Next
BY SameOperators DEF Recent!Next, Recent!Close, Recent!Fill, Recent!DropLast, Listed

LEMMA UseStep ==
  ASSUME NEW m, Sound(m), NEW n \in Name,
         Listed = MostRecentFirst(m.conns),
         Listed' = MostRecentFirst(Update(m, n).conns)
  PROVE  Recent!Next
<1> DEFINE u == Update(m, n)
<1>1. /\ Sound(u) /\ u.conns = With(m.conns, n, m.ticker)
      /\ DOMAIN u.conns = DOMAIN m.conns \cup {n}
  BY UpdateSound, UpdateMemory DEF Sound
<1>2. Head(Listed') = n
  BY UsedLastIsFirst
<1> HIDE DEF u
<1>3. /\ ToSet(Listed) = DOMAIN m.conns /\ ToSet(Listed') = DOMAIN m.conns \cup {n}
      /\ Recent!IsList(Listed')
  BY <1>1, ListedIsList DEF u
<1>4. Listed' # <<>>
  BY <1>3 DEF ToSet
<1>5. \A a \in DOMAIN m.conns \ {n} : u.conns[a] = m.conns[a]
  BY <1>1 DEF With
<1>6. \A a, b \in DOMAIN m.conns \ {n} :
        Recent!Before(MostRecentFirst(u.conns), a, b)
          <=> Recent!Before(MostRecentFirst(m.conns), a, b)
  <2>1. Ticked(m.conns) /\ Ticked(u.conns)
    BY <1>1 DEF Sound
  <2>2. DOMAIN m.conns \ {n} \subseteq DOMAIN m.conns /\ DOMAIN m.conns \ {n} \subseteq DOMAIN u.conns
    BY <1>1
  <2> QED BY <1>5, <2>1, <2>2, SameTicksSameOrder
<1>7. Recent!KeepsOrder(Listed, Listed', ToSet(Listed) \ {n})
  BY <1>3, <1>6 DEF Recent!KeepsOrder, u
<1>8. Recent!Use(Listed, Listed', n)
  BY <1>2, <1>3, <1>4, <1>7, SameOperators DEF Recent!Use
<1> QED BY <1>3, <1>8, ListStep

LEMMA DropStep ==
  ASSUME NEW m, Sound(m), NEW r, Sound(r), NEW n \in Name,
         DOMAIN r.conns = DOMAIN m.conns \ {n},
         \A a \in DOMAIN m.conns \ {n} : r.conns[a] = m.conns[a],
         Listed = MostRecentFirst(m.conns),
         Listed' = MostRecentFirst(r.conns)
  PROVE  Recent!Next
<1>1. /\ ToSet(Listed) = DOMAIN m.conns /\ ToSet(Listed') = DOMAIN m.conns \ {n}
      /\ Recent!IsList(Listed')
  BY ListedIsList
<1>2. \A a, b \in DOMAIN m.conns \ {n} :
        Recent!Before(MostRecentFirst(r.conns), a, b)
          <=> Recent!Before(MostRecentFirst(m.conns), a, b)
  <2>1. Ticked(m.conns) /\ Ticked(r.conns)
    BY DEF Sound
  <2>2. DOMAIN m.conns \ {n} \subseteq DOMAIN m.conns /\ DOMAIN m.conns \ {n} \subseteq DOMAIN r.conns
    OBVIOUS
  <2> QED BY <2>1, <2>2, SameTicksSameOrder
<1>3. Recent!KeepsOrder(Listed, Listed', ToSet(Listed) \ {n})
  BY <1>1, <1>2 DEF Recent!KeepsOrder
<1>4. Recent!Drop(Listed, Listed', n)
  BY <1>1, <1>3, SameOperators DEF Recent!Drop
<1> QED BY <1>1, <1>4, ListStep

(* Loading fills an empty list or leaves the list alone.                   *)
LEMMA LoadStep ==
  ASSUME StoreInv, Running, NEW read \in Readings, NEW m, Sound(m), m.conns = mem.conns,
         Listed' = MostRecentFirst(Loaded(m, read).conns)
  PROVE  Recent!Next \/ Listed' = Listed
<1>1. Listed = MostRecentFirst(m.conns)
  BY DEF Listed
<1>2. Sound(Loaded(m, read)) /\ (DOMAIN m.conns # {} => Loaded(m, read) = m)
  BY LoadedSound DEF StoreInv
<1>3. CASE DOMAIN m.conns = {}
  <2>1. m.conns = <<>>
    <3>1. m.conns \in [DOMAIN m.conns -> Nat]
      BY MemoryFields DEF Sound
    <3> QED BY <1>3, <3>1
  <2>2. Listed = <<>> /\ Recent!IsList(Listed')
    BY <1>1, <1>2, <2>1, ListedIsList, NothingListed
  <2> QED BY <2>2, ListStep
<1> QED BY <1>1, <1>2, <1>3

LEMMA CloseStep == mem' = Off => Recent!Next
<1> SUFFICES ASSUME mem' = Off PROVE Recent!Next
  OBVIOUS
<1>1. Listed' = <<>>
  BY DEF Listed, Running
<1>2. Recent!IsList(<<>>)
  <2>1. IsInjective(<<>>)
    BY DEF IsInjective
  <2> QED BY <2>1, SameOperators DEF Recent!IsList
<1> QED BY <1>1, <1>2, ListStep

(* A save lists what it was given, or the process has died.                *)
LEMMA SaveStep ==
  ASSUME NEW m, Sound(m), NEW f, NEW done, NEW kept, Save(m, f, done, kept)
  PROVE  Listed' = MostRecentFirst(m.conns) \/ Recent!Next
<1>1. CASE mem' = m
  BY <1>1, SoundRuns DEF Listed, Running
<1> QED BY <1>1, CloseStep DEF Save

LEMMA RecentStep == StoreInv /\ [Next]_vars => Recent!Next \/ Listed' = Listed
<1> SUFFICES ASSUME StoreInv, [Next]_vars PROVE Recent!Next \/ Listed' = Listed
  OBVIOUS
<1>1. CASE mem' = mem
  BY <1>1 DEF Listed, Running
<1>2. (Running => Sound(mem)) /\ file \in File /\ IsInjective(file.settings)
  BY DEF StoreInv
<1>3. CASE Start
  <2>1. Listed = <<>> /\ mem' # Off /\ mem'.conns = <<>>
    BY <1>3 DEF Start, Listed, Off
  <2> QED BY <2>1, NothingListed DEF Listed, Running
<1>4. CASE Stop
  BY <1>4, CloseStep DEF Stop
<1>5. CASE GetSettings
  <2>1. PICK read \in Readings : mem' = Loaded(mem, read)
    BY <1>5 DEF GetSettings
  <2>2. Running /\ Sound(mem) /\ mem' # Off
    BY <1>2, <1>5, <2>1, LoadedSound, SoundRuns DEF GetSettings
  <2>3. Listed' = MostRecentFirst(Loaded(mem, read).conns)
    BY <2>1, <2>2 DEF Listed, Running
  <2> QED BY <2>2, <2>3, LoadStep
<1>6. ASSUME NEW n \in Name, SettingSave(n) PROVE Recent!Next \/ Listed' = Listed
  <2> DEFINE m == Update(mem, n)
  <2>1. /\ Running /\ Sound(mem) /\ Sound(m)
    BY <1>2, <1>6, UpdateSound DEF SettingSave
  <2>2. PICK old \in OldOptions :
          Save(m, WrittenPlain(m, old), PlainDone(old), {"settings"})
    BY <1>6 DEF SettingSave
  <2> HIDE DEF m
  <2>3. Listed = MostRecentFirst(mem.conns)
    BY <2>1 DEF Listed
  <2>4. CASE Listed' = MostRecentFirst(m.conns)
    BY <2>1, <2>3, <2>4, UseStep DEF m
  <2> QED BY <2>1, <2>2, <2>4, SaveStep
<1>7. ASSUME NEW n \in Name, NEW old \in OldOptions, NEW read \in Readings,
             SettingRemove(n, old, read)
      PROVE  Recent!Next \/ Listed' = Listed
  <2> DEFINE r == [mem EXCEPT !.conns = Restrict(@, DOMAIN @ \ {n})]
             m == Loaded(r, read)
  <2>1. /\ Running /\ Sound(mem)
        /\ Save(m, WrittenPlain(m, old), PlainDone(old), {"settings"})
    BY <1>2, <1>7 DEF SettingRemove
  <2>2. /\ Sound(r) /\ DOMAIN r.conns = DOMAIN mem.conns \ {n}
        /\ \A a \in DOMAIN mem.conns \ {n} : r.conns[a] = mem.conns[a]
    BY <2>1, RestrictSound
  <2> HIDE DEF r
  <2>3. Sound(m) /\ (DOMAIN r.conns # {} => m = r)
    BY <1>2, <2>2, LoadedSound
  <2> HIDE DEF m
  <2>4. Listed = MostRecentFirst(mem.conns)
    BY <2>1 DEF Listed
  <2>5. CASE Listed' = MostRecentFirst(m.conns) /\ DOMAIN r.conns # {}
    BY <2>1, <2>2, <2>3, <2>4, <2>5, DropStep
  <2>6. CASE Listed' = MostRecentFirst(m.conns) /\ DOMAIN r.conns = {}
    <3>1. ToSet(Listed) \subseteq {n} /\ Recent!IsList(Listed')
      BY <2>1, <2>2, <2>3, <2>4, <2>6, ListedIsList
    <3> QED BY <3>1, ListStep
  <2> QED BY <2>1, <2>3, <2>5, <2>6, SaveStep
<1>8. ASSUME NEW o \in Options, NEW read \in Readings, AdminSave(o, read)
      PROVE  Recent!Next \/ Listed' = Listed
  <2> DEFINE s == SetOptions(mem, o)
             m == Loaded(s, read)
  <2>1. /\ Running /\ Sound(mem)
        /\ Save(m, Written(m, o, None), Parts, {"options"} \cup Misread(mem, read))
    BY <1>2, <1>8 DEF AdminSave
  <2>2. Sound(s) /\ s.conns = mem.conns
    BY <2>1, OptionsSound
  <2> HIDE DEF s
  <2>3. Sound(m)
    BY <1>2, <2>2, LoadedSound
  <2> QED BY <2>1, <2>2, <2>3, SaveStep, LoadStep
<1>9. ASSUME NEW x \in History, NEW old \in OldOptions, NEW read \in Readings,
             HistorySave(x, old, read)
      PROVE  Recent!Next \/ Listed' = Listed
  <2> DEFINE s == [mem EXCEPT !.history = x]
             m == Loaded(s, read)
  <2>1. /\ Running /\ Sound(mem)
        /\ Save(m, WrittenPlain(m, old), PlainDone(old),
                {"history"} \cup Misread(mem, read))
    BY <1>2, <1>9 DEF HistorySave
  <2>2. Sound(s) /\ s.conns = mem.conns
    BY <2>1, HistorySound
  <2> HIDE DEF s
  <2>3. Sound(m)
    BY <1>2, <2>2, LoadedSound
  <2> QED BY <2>1, <2>2, <2>3, SaveStep, LoadStep
<1>10. ASSUME NEW k \in Key, SetKey(k) PROVE Recent!Next \/ Listed' = Listed
  <2>1. Running /\ Sound(mem) /\ mem' = [mem EXCEPT !.key = k]
    BY <1>2, <1>10 DEF SetKey
  <2>2. mem'.conns = mem.conns /\ mem' # Off
    BY <2>1 DEF Sound, Memory, Off
  <2> QED BY <2>1, <2>2 DEF Listed, Running
<1> QED BY <1>1, <1>3, <1>4, <1>5, <1>6, <1>7, <1>8, <1>9, <1>10 DEF Next, vars

(* The settings are a list in the order of use, through every save,        *)
(* removal, failure and restart.                                           *)
THEOREM KeepsRecentList == Spec => RecentListSpec
<1>1. Init => Recent!Init
  BY DEF Init, Recent!Init, Running
<1>2. StoreInv /\ [Next]_vars =>
        [Recent!Next]_(IF Running THEN MostRecentFirst(mem.conns) ELSE <<>>)
  BY RecentStep DEF Listed
<1> QED BY <1>1, <1>2, StoreInvariant, PTL DEF Spec, RecentListSpec, Recent!Spec
=============================================================================
