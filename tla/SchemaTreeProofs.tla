-------------------------- MODULE SchemaTreeProofs --------------------------
(* Proofs about SchemaTree.                                                *)
EXTENDS SchemaTree, FiniteSetTheorems, SequenceTheorems, TLAPS

(* Induction, and the fold of setNode.                                     *)
Load == INSTANCE Folding WITH op <- SetNode

-----------------------------------------------------------------------------
(* Sequences made of sets.                                                 *)

(* A set of blocks, one for each element of a finite set, is finite.       *)
LEMMA FiniteImage ==
  ASSUME NEW S, IsFiniteSet(S), NEW f, DOMAIN f = S
  PROVE  IsFiniteSet({f[x] : x \in S})
<1>1. PICK seq \in Seq(S) : \A x \in S : \E n \in 1 .. Len(seq) : seq[n] = x
  BY DEF IsFiniteSet
<1> DEFINE T == {f[x] : x \in S}
           im == [i \in 1 .. Len(seq) |-> f[seq[i]]]
<1>2. im \in Seq(T) /\ Len(im) = Len(seq)
  <2>1. \A i \in 1 .. Len(seq) : seq[i] \in S
    BY ElementOfSeq
  <2>2. im \in [1 .. Len(seq) -> T] /\ Len(seq) \in Nat
    BY <2>1
  <2> HIDE DEF im, T
  <2> QED BY <2>2
<1>3. ASSUME NEW y \in T PROVE \E n \in 1 .. Len(im) : im[n] = y
  <2>1. PICK x \in S : y = f[x]
    OBVIOUS
  <2>2. PICK n \in 1 .. Len(seq) : seq[n] = x
    BY <1>1
  <2>3. im[n] = y
    BY <2>1, <2>2
  <2> HIDE DEF im
  <2> QED BY <1>2, <2>3
<1>4. \E e \in Seq(T) : \A y \in T : \E n \in 1 .. Len(e) : e[n] = y
  <2> HIDE DEF im, T
  <2> QED BY <1>2, <1>3
<1> HIDE DEF T
<1>5. IsFiniteSet(T)
  BY <1>4 DEF IsFiniteSet
<1> QED BY <1>5 DEF T

(* SetToSeq lists a finite set.                                            *)
LEMMA Enumerated ==
  ASSUME NEW S, IsFiniteSet(S)
  PROVE  SetToSeq(S) \in Seq(S) /\ (S # {} => SetToSeq(S) # <<>>)
<1> DEFINE n == Cardinality(S)
<1>1. n \in Nat
  BY FS_CardinalityType
<1>2. \E f \in [1 .. n -> S] : IsInjective(f)
  <2>1. ExistsBijection(1 .. n, S)
    BY FS_CardinalityType
  <2>2. PICK f \in [1 .. n -> S] : \A a, b \in 1 .. n : f[a] = f[b] => a = b
    BY <2>1 DEF ExistsBijection, Bijection, Injection, IsInjective
  <2> HIDE DEF n
  <2> QED BY <2>2 DEF IsInjective
<1>3. SetToSeq(S) \in [1 .. n -> S]
  BY <1>2 DEF SetToSeq
<1>4. S # {} => n # 0
  BY FS_EmptySet
<1> HIDE DEF n
<1>5. SetToSeq(S) \in Seq(S) /\ Len(SetToSeq(S)) = n
  BY <1>1, <1>3
<1> QED BY <1>1, <1>4, <1>5

(* What holds of every block, and still holds when a block is appended,    *)
(* holds of all of them one after the other.                               *)
LEMMA Flattened ==
  ASSUME NEW E, NEW Q, Q \subseteq Seq(E), NEW seqs \in Seq(Q), seqs # <<>>,
         \A q \in Q, b \in Q : q \o b \in Q
  PROVE  FlattenSeq(seqs) \in Q
<1> DEFINE n == Len(seqs)
           D == 1 .. n
           Def(f, i) == IF i = 1 THEN seqs[i] ELSE f[i - 1] \o seqs[i]
           Is(f) == f = [i \in D |-> Def(f, i)]
<1>1. n \in Nat \ {0} /\ \A i \in D : seqs[i] \in Q
  BY ElementOfSeq, EmptySeq
<1> HIDE DEF n
<1>2. \E f : Is(f)
  <2> DEFINE first == seqs[1]
             grow == [k \in Nat |-> [q \in Q |->
                        IF k + 2 <= n THEN q \o seqs[k + 2] ELSE q]]
  <2>1. first \in Q
    BY <1>1
  <2>2. grow \in [Nat -> [Q -> Q]]
    <3> SUFFICES ASSUME NEW k \in Nat, NEW q \in Q
                 PROVE  (IF k + 2 <= n THEN q \o seqs[k + 2] ELSE q) \in Q
      OBVIOUS
    <3>1. CASE k + 2 <= n
      <4>1. k + 2 \in D
        BY <1>1, <3>1
      <4> QED BY <1>1, <3>1, <4>1
    <3> QED BY <3>1
  <2>3. PICK g \in [Nat -> Q] : Load!Iterates(g, first, grow)
    <3> HIDE DEF first, grow
    <3> QED BY <2>1, <2>2, Load!Iteration
  <2> DEFINE f == [i \in D |-> g[i - 1]]
  <2>4. ASSUME NEW i \in D PROVE f[i] = Def(f, i)
    <3>1. CASE i = 1
      BY <2>3, <3>1 DEF Load!Iterates
    <3>2. CASE i # 1
      <4>1. i - 2 \in Nat /\ (i - 2) + 1 = i - 1 /\ (i - 2) + 2 = i /\ i - 1 \in D /\ i <= n
        BY <1>1, <3>2
      <4>2. g[i - 1] = grow[i - 2][g[i - 2]]
        <5> HIDE DEF grow
        <5> QED BY <2>3, <4>1 DEF Load!Iterates
      <4>3. g[i - 1] = g[i - 2] \o seqs[i]
        BY <2>3, <4>1, <4>2
      <4>4. f[i - 1] = g[i - 2] /\ f[i] = g[i - 1]
        BY <4>1
      <4> QED BY <3>2, <4>3, <4>4
    <3> QED BY <3>1, <3>2
  <2>5. f = [i \in D |-> f[i]]
    OBVIOUS
  <2>6. f = [i \in D |-> Def(f, i)]
    <3> HIDE DEF Def, f, D
    <3> QED BY <2>4, <2>5
  <2> HIDE DEF Def, f, D
  <2> QED BY <2>6
<1> DEFINE flat == CHOOSE f : Is(f)
<1>3. FlattenSeq(seqs) = flat[n]
  BY <1>1 DEF FlattenSeq, n
<1>4. Is(flat)
  <2> HIDE DEF Is
  <2> QED BY <1>2
<1> HIDE DEF flat
<1>5. \A i \in D : flat[i] = Def(flat, i)
  <2> HIDE DEF Def
  <2> QED BY <1>4
<1> DEFINE U == {k \in 0 .. (n - 1) : flat[k + 1] \in Q}
<1>6. 0 \in U
  <2>1. 1 \in D /\ 0 + 1 = 1
    BY <1>1
  <2> QED BY <1>1, <1>5, <2>1
<1>7. ASSUME NEW k \in 0 .. ((n - 1) - 1), k \in U PROVE k + 1 \in U
  <2>1. (k + 1) + 1 \in D /\ ((k + 1) + 1) - 1 = k + 1 /\ (k + 1) + 1 # 1
    BY <1>1
  <2>2. flat[(k + 1) + 1] = flat[k + 1] \o seqs[(k + 1) + 1]
    BY <1>5, <2>1
  <2>3. flat[(k + 1) + 1] \in Q
    BY <1>1, <1>7, <2>1, <2>2
  <2> QED BY <1>1, <2>3
<1>8. 0 .. (n - 1) \subseteq U
  <2> HIDE DEF U
  <2>1. n - 1 \in Nat
    BY <1>1
  <2> QED BY <1>6, <1>7, <2>1, Load!BoundedInduction
<1>9. flat[n] \in Q
  <2>1. n - 1 \in 0 .. (n - 1) /\ (n - 1) + 1 = n
    BY <1>1
  <2> QED BY <1>8, <2>1
<1> QED BY <1>3, <1>9

-----------------------------------------------------------------------------
(* The order in which objects are listed.                                  *)

Kinds == {"database", "folder", "table", "users", "user", "admin", "info"}
Names == Schema \cup User \cup {""}
Listed == [kind : Kinds, name : Names]
Thing == [kind : Kinds \cup {"schemas", "tables", "allUsers"}, name : Names]

(* An object that begins a part of the tree may come after any other.      *)
Begins(o) == o.kind \in {"folder", "users", "info", "schemas", "allUsers"}

(* What may come right behind p.                                           *)
Follows(p, o) ==
  \/ Begins(o)
  \/ o.kind = "table" /\ p \in {Object("folder", o.name), Object("table", o.name)}
  \/ o.kind = "tables" /\ p = Object("folder", o.name)
  \/ o.kind = "user" /\ (p = Only("users") \/ p.kind \in {"user", "admin"})
  \/ o.kind = "admin" /\ p = Object("user", o.name)

LEMMA ObjectFields ==
  ASSUME NEW k, NEW n
  PROVE  /\ Object(k, n).kind = k /\ Object(k, n).name = n
         /\ k \in Kinds /\ n \in Names => Object(k, n) \in Listed
         /\ k \in Kinds \cup {"schemas", "tables", "allUsers"} /\ n \in Names =>
              Object(k, n) \in Thing
BY DEF Object, Listed, Thing

Chain(s) == \A i \in 1 .. Len(s) - 1 : Follows(s[i], s[i + 1])

LEMMA ChainConcat ==
  ASSUME NEW s \in Seq(Thing), NEW t \in Seq(Thing), Chain(s), Chain(t),
         s # <<>> /\ t # <<>> => Follows(s[Len(s)], t[1])
  PROVE  /\ s \o t \in Seq(Thing) /\ Chain(s \o t)
         /\ s # <<>> => s \o t # <<>> /\ (s \o t)[1] = s[1]
         /\ t # <<>> => s \o t # <<>> /\ (s \o t)[Len(s \o t)] = t[Len(t)]
         /\ s = <<>> => s \o t = t
<1> DEFINE m == Len(s)
           n == Len(t)
           c == s \o t
<1>1. /\ m \in Nat /\ n \in Nat /\ c \in Seq(Thing) /\ Len(c) = m + n
      /\ \A i \in 1 .. m : c[i] = s[i]
      /\ \A i \in 1 .. n : c[m + i] = t[i]
  BY ConcatProperties, LenProperties
<1>2. (s = <<>> <=> m = 0) /\ (t = <<>> <=> n = 0) /\ (c = <<>> <=> m + n = 0)
  BY <1>1, EmptySeq
<1>3. s = <<>> => c = t
  BY ConcatEmptySeq
<1> HIDE DEF m, n, c
<1>4. ASSUME NEW i \in 1 .. Len(c) - 1 PROVE Follows(c[i], c[i + 1])
  <2>1. CASE i < m
    <3>1. i \in 1 .. m /\ i + 1 \in 1 .. m /\ i \in 1 .. m - 1
      BY <1>1, <2>1
    <3>2. Follows(s[i], s[i + 1])
      BY <3>1 DEF Chain, m
    <3> QED BY <1>1, <3>1, <3>2
  <2>2. CASE i = m
    <3>1. i \in 1 .. m /\ 1 \in 1 .. n /\ s # <<>> /\ t # <<>>
      BY <1>1, <1>2, <2>2
    <3>2. c[i] = s[m] /\ c[i + 1] = t[1]
      BY <1>1, <2>2, <3>1
    <3> QED BY <3>1, <3>2 DEF m
  <2>3. CASE i > m
    <3>1. i - m \in 1 .. n /\ (i - m) + 1 \in 1 .. n /\ i - m \in 1 .. n - 1
      BY <1>1, <2>3
    <3>2. c[m + (i - m)] = t[i - m] /\ c[m + ((i - m) + 1)] = t[(i - m) + 1]
      BY <1>1, <3>1
    <3>3. Follows(t[i - m], t[(i - m) + 1])
      BY <3>1 DEF Chain, n
    <3>4. m + (i - m) = i /\ m + ((i - m) + 1) = i + 1
      BY <1>1
    <3> QED BY <3>2, <3>3, <3>4
  <2> QED BY <1>1, <2>1, <2>2, <2>3
<1>5. Chain(c)
  BY <1>4 DEF Chain
<1>6. s # <<>> => c # <<>> /\ c[1] = s[1]
  BY <1>1, <1>2
<1>7. t # <<>> => c # <<>> /\ c[Len(c)] = t[n]
  <2> SUFFICES ASSUME t # <<>> PROVE c # <<>> /\ c[Len(c)] = t[n]
    OBVIOUS
  <2>1. n \in 1 .. n
    BY <1>1, <1>2
  <2> QED BY <1>1, <1>2, <2>1
<1> QED BY <1>1, <1>3, <1>5, <1>6, <1>7 DEF c, n

LEMMA ChainTail ==
  ASSUME NEW s \in Seq(Thing), Chain(s), s # <<>>
  PROVE  /\ Tail(s) \in Seq(Thing) /\ Chain(Tail(s)) /\ Head(s) = s[1] /\ s[1] \in Thing
         /\ Tail(s) # <<>> => Follows(s[1], Tail(s)[1])
<1> DEFINE t == Tail(s)
<1>1. /\ Len(s) \in Nat /\ Len(s) > 0 /\ t \in Seq(Thing) /\ Len(t) = Len(s) - 1
      /\ \A i \in 1 .. Len(t) : t[i] = s[i + 1]
      /\ Head(s) = s[1] /\ s[1] \in Thing
  BY EmptySeq, LenProperties, HeadTailProperties, ElementOfSeq
<1>2. t # <<>> => Len(t) > 0
  BY <1>1, EmptySeq
<1> HIDE DEF t
<1>3. ASSUME NEW i \in 1 .. Len(t) - 1 PROVE Follows(t[i], t[i + 1])
  <2>1. i + 1 \in 1 .. Len(s) - 1 /\ i \in 1 .. Len(t) /\ i + 1 \in 1 .. Len(t)
    BY <1>1
  <2> QED BY <1>1, <2>1 DEF Chain
<1>4. t # <<>> => Follows(s[1], t[1])
  <2> SUFFICES ASSUME t # <<>> PROVE Follows(s[1], t[1])
    OBVIOUS
  <2>1. 1 \in 1 .. Len(s) - 1 /\ 1 \in 1 .. Len(t)
    BY <1>1, <1>2
  <2> QED BY <1>1, <2>1 DEF Chain
<1> QED BY <1>1, <1>3, <1>4 DEF t, Chain

(* Blocks that begin with a kind of First and end with one of Final.       *)
Blocks(First, Final) ==
  {s \in Seq(Thing) : /\ s # <<>> /\ Chain(s)
                      /\ s[1].kind \in First /\ s[Len(s)].kind \in Final}

(* The folders of the schemas, each with the list of its tables.           *)
LEMMA SchemasListed ==
  ASSUME NEW S \in SUBSET Schema, IsFiniteSet(S)
  PROVE  LET r == FlattenSeq(SetToSeq({ListedSchema(s) : s \in S}))
         IN  r = <<>> \/ r \in Blocks({"folder"}, {"tables"})
<1> DEFINE Q == Blocks({"folder"}, {"tables"})
           f == [s \in S |-> ListedSchema(s)]
           T == {ListedSchema(s) : s \in S}
<1>1. IsFiniteSet(T)
  <2>1. T = {f[s] : s \in S} /\ DOMAIN f = S
    OBVIOUS
  <2> HIDE DEF f, T
  <2> QED BY <2>1, FiniteImage
<1>2. ASSUME NEW s \in S PROVE ListedSchema(s) \in Q
  <2> DEFINE b == <<Object("folder", s), Object("tables", s)>>
  <2>1. b \in Seq(Thing) /\ b # <<>> /\ Len(b) = 2
    <3>1. Object("folder", s) \in Thing /\ Object("tables", s) \in Thing
      BY ObjectFields DEF Kinds, Names
    <3> QED BY <3>1
  <2>2. b[1] = Object("folder", s) /\ b[2] = Object("tables", s)
    OBVIOUS
  <2>3. Follows(b[1], b[2])
    BY <2>2 DEF Follows, Object
  <2> HIDE DEF b
  <2>4. Chain(b)
    BY <2>1, <2>3 DEF Chain
  <2> QED BY <2>1, <2>2, <2>4 DEF Blocks, ListedSchema, Object, b
<1>3. ASSUME NEW q \in Q, NEW b \in Q PROVE q \o b \in Q
  <2>1. Follows(q[Len(q)], b[1])
    BY DEF Blocks, Follows, Begins
  <2> QED BY <2>1, ChainConcat DEF Blocks
<1>4. Q \subseteq Seq(Thing) /\ T \subseteq Q
  BY <1>2 DEF Blocks
<1> HIDE DEF Q, T
<1>5. SetToSeq(T) \in Seq(T)
  BY <1>1, Enumerated
<1>6. SetToSeq(T) \in Seq(Q)
  BY <1>4, <1>5
<1>7. CASE SetToSeq(T) = <<>>
  BY <1>7 DEF FlattenSeq, T
<1>8. CASE SetToSeq(T) # <<>>
  BY <1>3, <1>4, <1>6, <1>8, Flattened DEF T, Q
<1> QED BY <1>7, <1>8

(* The users, each administrator with its mark.                            *)
LEMMA UsersListed ==
  ASSUME NEW S \in SUBSET User, IsFiniteSet(S), S # {}
  PROVE  FlattenSeq(SetToSeq({ListedUser(u) : u \in S}))
           \in Blocks({"user"}, {"user", "admin"})
<1> DEFINE Q == Blocks({"user"}, {"user", "admin"})
           f == [u \in S |-> ListedUser(u)]
           T == {ListedUser(u) : u \in S}
<1>1. IsFiniteSet(T)
  <2>1. T = {f[u] : u \in S} /\ DOMAIN f = S
    OBVIOUS
  <2> HIDE DEF f, T
  <2> QED BY <2>1, FiniteImage
<1>2. ASSUME NEW u \in S PROVE ListedUser(u) \in Q
  <2> DEFINE a == <<Object("user", u)>>
             b == IF u \in Admin THEN <<Object("admin", u)>> ELSE <<>>
  <2>1. /\ a \in Seq(Thing) /\ a # <<>> /\ Len(a) = 1 /\ a[1] = Object("user", u)
        /\ Chain(a)
    <3>1. Object("user", u) \in Thing
      BY ObjectFields DEF Kinds, Names
    <3> QED BY <3>1 DEF Chain
  <2>2. /\ b \in Seq(Thing) /\ Chain(b)
        /\ b # <<>> => Len(b) = 1 /\ b[1] = Object("admin", u)
    <3>1. Object("admin", u) \in Thing
      BY ObjectFields DEF Kinds, Names
    <3>2. CASE u \in Admin
      BY <3>1, <3>2 DEF Chain
    <3>3. CASE u \notin Admin
      BY <3>3 DEF Chain
    <3> QED BY <3>2, <3>3
  <2> HIDE DEF a, b
  <2>3. b # <<>> => Follows(a[Len(a)], b[1])
    BY <2>1, <2>2 DEF Follows, Object
  <2>4. CASE b = <<>>
    <3>1. a \o b = a
      BY <2>1, <2>4, ConcatEmptySeq
    <3>2. a \in Q
      <4>1. a[1].kind = "user" /\ a[Len(a)].kind = "user"
        BY <2>1, ObjectFields
      <4> QED BY <2>1, <4>1 DEF Blocks
    <3> QED BY <3>1, <3>2 DEF ListedUser, a, b
  <2>5. CASE b # <<>>
    <3>1. a[1].kind = "user" /\ b[Len(b)].kind = "admin"
      <4>1. Object("user", u).kind = "user" /\ Object("admin", u).kind = "admin"
        BY ObjectFields
      <4> QED BY <2>1, <2>2, <2>5, <4>1
    <3>2. /\ a \o b \in Seq(Thing) /\ Chain(a \o b) /\ a \o b # <<>>
          /\ (a \o b)[1] = a[1] /\ (a \o b)[Len(a \o b)] = b[Len(b)]
      BY <2>1, <2>2, <2>3, <2>5, ChainConcat
    <3>3. a \o b \in Q
      BY <3>1, <3>2 DEF Blocks
    <3> QED BY <3>3 DEF ListedUser, a, b
  <2> QED BY <2>4, <2>5
<1>3. ASSUME NEW q \in Q, NEW b \in Q PROVE q \o b \in Q
  <2>1. Follows(q[Len(q)], b[1])
    BY DEF Blocks, Follows
  <2> QED BY <2>1, ChainConcat DEF Blocks
<1>4. Q \subseteq Seq(Thing) /\ T \subseteq Q /\ T # {}
  BY <1>2 DEF Blocks
<1> HIDE DEF Q, T
<1>5. SetToSeq(T) \in Seq(T) /\ SetToSeq(T) # <<>>
  BY <1>1, <1>4, Enumerated
<1>6. SetToSeq(T) \in Seq(Q)
  BY <1>4, <1>5
<1> QED BY <1>3, <1>4, <1>5, <1>6, Flattened DEF T, Q

(* A list holds a chain that may stand where the list stood.               *)
LEMMA ReadChain ==
  ASSUME NEW h \in Thing, IsList(h), users \subseteq User,
         DOMAIN tables \subseteq Schema, \A s \in DOMAIN tables : tables[s] \in Nat
  PROVE  /\ Read(h) \in Seq(Thing) /\ Chain(Read(h))
         /\ Read(h) # <<>> => \A p : Follows(p, h) => Follows(p, Read(h)[1])
<1>1. IsFiniteSet(DOMAIN tables) /\ IsFiniteSet(users)
  BY TreeAssumption, FS_Subset
<1>2. CASE h.kind = "schemas"
  <2> DEFINE r == FlattenSeq(SetToSeq({ListedSchema(s) : s \in DOMAIN tables}))
  <2>1. Read(h) = r
    BY <1>2 DEF Read
  <2>2. r = <<>> \/ r \in Blocks({"folder"}, {"tables"})
    BY <1>1, SchemasListed
  <2> HIDE DEF r
  <2>3. CASE r = <<>>
    BY <2>1, <2>3 DEF Chain
  <2>4. CASE r \in Blocks({"folder"}, {"tables"})
    BY <2>1, <2>4 DEF Blocks, Follows, Begins
  <2> QED BY <2>2, <2>3, <2>4
<1>3. CASE h.kind = "tables"
  <2> DEFINE n == IF h.name \in DOMAIN tables THEN tables[h.name] ELSE 0
             r == [i \in 1 .. n |-> Object("table", h.name)]
  <2>1. Read(h) = r /\ n \in Nat
    BY <1>3 DEF Read
  <2>2. Object("table", h.name) \in Thing
    BY DEF Object, Thing, Kinds
  <2> HIDE DEF n
  <2>3. r \in Seq(Thing) /\ Len(r) = n
    BY <2>1, <2>2
  <2>4. \A i \in 1 .. n : r[i] = Object("table", h.name)
    OBVIOUS
  <2> HIDE DEF r
  <2>5. Chain(r)
    BY <2>1, <2>3, <2>4 DEF Chain, Follows, Object
  <2>6. ASSUME r # <<>>, NEW p, Follows(p, h) PROVE Follows(p, r[1])
    <3>1. n # 0
      BY <2>1, <2>3, <2>6, EmptySeq
    <3>2. r[1] = Object("table", h.name)
      BY <2>1, <2>4, <3>1
    <3>3. p = Object("folder", h.name)
      BY <1>3, <2>6 DEF Follows, Begins
    <3> QED BY <3>2, <3>3 DEF Follows, Object
  <2> QED BY <2>1, <2>3, <2>5, <2>6
<1>4. CASE h.kind = "allUsers" /\ users = {}
  <2>1. Read(h) = <<>>
    BY <1>4 DEF Read
  <2> QED BY <2>1 DEF Chain
<1>5. CASE h.kind = "allUsers" /\ users # {}
  <2> DEFINE a == <<Only("users")>>
             b == FlattenSeq(SetToSeq({ListedUser(u) : u \in users}))
  <2>1. Read(h) = a \o b
    BY <1>5 DEF Read
  <2>2. /\ a \in Seq(Thing) /\ a # <<>> /\ Len(a) = 1 /\ a[1] = Only("users")
        /\ Chain(a)
    <3>1. Only("users") \in Thing
      BY ObjectFields DEF Only, Kinds, Names
    <3> QED BY <3>1 DEF Chain
  <2>3. b \in Blocks({"user"}, {"user", "admin"})
    BY <1>1, <1>5, UsersListed
  <2> HIDE DEF a, b
  <2>6. Only("users").kind = "users"
    <3>1. Object("users", "").kind = "users"
      BY ObjectFields
    <3> QED BY <3>1 DEF Only
  <2>4. Follows(a[Len(a)], b[1])
    <3>1. a[Len(a)] = Only("users")
      BY <2>2
    <3>2. b[1].kind = "user"
      BY <2>3 DEF Blocks
    <3> QED BY <3>1, <3>2 DEF Follows
  <2>5. a \o b \in Seq(Thing) /\ Chain(a \o b) /\ (a \o b)[1] = a[1]
    BY <2>2, <2>3, <2>4, ChainConcat DEF Blocks
  <2>7. \A p : Follows(p, a[1])
    BY <2>2, <2>6 DEF Follows, Begins
  <2> QED BY <2>1, <2>5, <2>7
<1> QED BY <1>2, <1>3, <1>4, <1>5 DEF IsList

-----------------------------------------------------------------------------
(* The inductive invariant: what is listed, is listed in order and         *)
(* numbered from 0; what is still to be listed goes on from there; and the *)
(* page holds the answer it showed last, in front of what older ones left. *)

WellListed(l) ==
  /\ l \in Seq(NodeType)
  /\ \A i \in 1 .. Len(l) : l[i] = Node(i - 1, l[i].object)
  /\ \A i \in 1 .. Len(l) - 1 : Follows(l[i].object, l[i + 1].object)
  /\ l # <<>> => l[1].object.kind = "database"

GoesOn(l, o) ==
  IF l = <<>> THEN o.kind = "database" ELSE Follows(l[Len(l)].object, o)

ListInv ==
  /\ WellListed(listing)
  /\ todo \in Seq(Thing) /\ Chain(todo)
  /\ todo # <<>> => reading /\ GoesOn(listing, todo[1])

Holds(list, a) ==
  \E n \in Nat : /\ list \in [0 .. n - 1 -> NodeType] /\ Len(a) <= n
                 /\ \A i \in 1 .. Len(a) : list[i - 1] = a[i]

PageInv ==
  /\ Holds(nodeList, shown) /\ WellListed(shown)
  /\ \A a \in answers : WellListed(a)

TreeInv == TypeOK /\ ListInv /\ PageInv

LEMMA NodeFields ==
  ASSUME NEW id \in Nat, NEW o \in Listed
  PROVE  /\ Node(id, o) \in NodeType /\ Node(id, o).object = o
         /\ Node(id, o).id = id /\ Node(id, o).level = Level(o.kind)
         /\ Node(id, o).type = Type(o.kind)
<1>1. Level(o.kind) \in 0 .. 2 /\ Type(o.kind) \in 0 .. 2
  BY DEF Level, Type
<1> QED BY <1>1 DEF Node, NodeType, Listed, Kinds, Names

LEMMA ListingGrows ==
  ASSUME NEW l, WellListed(l), NEW o \in Listed, GoesOn(l, o)
  PROVE  WellListed(Append(l, Node(Len(l), o)))
<1> DEFINE n == Len(l)
           x == Node(n, o)
           t == Append(l, x)
<1>1. l \in Seq(NodeType) /\ n \in Nat
  BY LenProperties DEF WellListed
<1>2. x \in NodeType /\ x.object = o
  BY <1>1, NodeFields
<1>3. /\ t \in Seq(NodeType) /\ Len(t) = n + 1 /\ t # <<>> /\ t[n + 1] = x
      /\ \A i \in 1 .. n : t[i] = l[i]
  <2> HIDE DEF x
  <2> QED BY <1>1, <1>2, AppendProperties
<1>4. l = <<>> <=> n = 0
  BY <1>1, EmptySeq
<1>5. x = Node((n + 1) - 1, x.object)
  BY <1>1, <1>2
<1> HIDE DEF n, x, t
<1>6. ASSUME NEW i \in 1 .. n + 1 PROVE t[i] = Node(i - 1, t[i].object)
  <2>1. CASE i = n + 1
    BY <1>3, <1>5, <2>1
  <2>2. CASE i # n + 1
    <3>1. i \in 1 .. n
      BY <1>1, <2>2
    <3> QED BY <1>3, <3>1 DEF WellListed, n
  <2> QED BY <2>1, <2>2
<1>7. ASSUME NEW i \in 1 .. (n + 1) - 1
      PROVE  Follows(t[i].object, t[i + 1].object)
  <2>1. CASE i = n
    <3>1. t[i] = l[n] /\ t[i + 1] = x /\ l # <<>>
      BY <1>1, <1>3, <1>4, <2>1
    <3> QED BY <1>2, <3>1 DEF GoesOn, n
  <2>2. CASE i # n
    <3>1. i \in 1 .. n - 1 /\ i \in 1 .. n /\ i + 1 \in 1 .. n
      BY <1>1, <2>2
    <3> QED BY <1>3, <3>1 DEF WellListed, n
  <2> QED BY <2>1, <2>2
<1>8. t[1].object.kind = "database"
  <2>1. CASE l = <<>>
    BY <1>1, <1>2, <1>3, <1>4, <2>1 DEF GoesOn
  <2>2. CASE l # <<>>
    <3>1. 1 \in 1 .. n
      BY <1>1, <1>4, <2>2
    <3> QED BY <1>3, <2>2, <3>1 DEF WellListed
  <2> QED BY <2>1, <2>2
<1>9. WellListed(t)
  BY <1>3, <1>6, <1>7, <1>8 DEF WellListed
<1> QED BY <1>9 DEF n, x, t

(* setNode sets one node, in the array or right behind it.                 *)
LEMMA OneNodeSet ==
  ASSUME NEW m \in Nat, NEW list \in [0 .. m - 1 -> NodeType],
         NEW e \in NodeType, e.id <= m
  PROVE  \E k \in Nat :
           /\ SetNode(list, e) \in [0 .. k - 1 -> NodeType]
           /\ m <= k /\ e.id < k
           /\ SetNode(list, e)[e.id] = e
           /\ \A i \in 0 .. m - 1 : i # e.id => SetNode(list, e)[i] = list[i]
<1> DEFINE c == e.id
           k == IF c = m THEN m + 1 ELSE m
           D == 0 .. m - 1
           r == [i \in D \cup {c} |-> IF i = c THEN e ELSE list[i]]
<1>1. SetNode(list, e) = r
  BY DEF SetNode
<1>2. c \in Nat /\ c <= m
  BY DEF NodeType
<1> HIDE DEF c
<1>3. k \in Nat /\ m <= k /\ c < k /\ D \cup {c} = 0 .. k - 1
  BY <1>2
<1>4. r \in [D \cup {c} -> NodeType] /\ r[c] = e /\ \A i \in D : i # c => r[i] = list[i]
  OBVIOUS
<1> HIDE DEF r, D, k
<1> QED BY <1>1, <1>3, <1>4 DEF c, D

LEMMA AnswerHeld ==
  ASSUME NEW n \in Nat, NEW list \in [0 .. n - 1 -> NodeType], NEW a, WellListed(a)
  PROVE  Holds(FoldLeft(SetNode, list, a), a)
<1> DEFINE k == Len(a)
           V == UNION {[D -> NodeType] : D \in SUBSET Nat}
<1>1. a \in Seq(NodeType) /\ k \in Nat
  BY LenProperties DEF WellListed
<1>2. ASSUME NEW i \in 1 .. k PROVE a[i] \in NodeType /\ a[i].id = i - 1
  <2>1. a[i] \in NodeType
    BY <1>1, ElementOfSeq
  <2>2. a[i] = Node(i - 1, a[i].object)
    BY DEF WellListed
  <2>3. Node(i - 1, a[i].object).id = i - 1
    BY DEF Node
  <2> QED BY <2>1, <2>2, <2>3
<1>3. list \in V
  <2>1. 0 .. n - 1 \in SUBSET Nat
    OBVIOUS
  <2> QED BY <2>1
<1>4. ASSUME NEW v \in V, NEW e \in NodeType PROVE SetNode(v, e) \in V
  <2>1. PICK D \in SUBSET Nat : v \in [D -> NodeType]
    OBVIOUS
  <2>2. D \cup {e.id} \in SUBSET Nat
    BY DEF NodeType
  <2>3. SetNode(v, e) \in [D \cup {e.id} -> NodeType]
    BY <2>1 DEF SetNode
  <2> QED BY <2>2, <2>3
<1> HIDE DEF V
<1>5. PICK g \in [0 .. k -> V] : Load!Steps(g, list, a) /\ Load!Fold(list, a) = g[k]
  BY <1>1, <1>3, <1>4, Load!FoldSteps
<1>6. FoldLeft(SetNode, list, a) = g[k]
  <2>1. FoldLeft(SetNode, list, a) = Load!Fold(list, a)
    BY DEF Load!Fold, Load!FoldLeft, FoldLeft, Load!MapThenFoldSet, MapThenFoldSet,
           Load!Max, Max
  <2> QED BY <1>5, <2>1
<1>7. g[0] = list /\ \A j \in 1 .. k : g[j] = SetNode(g[j - 1], a[j])
  BY <1>5 DEF Load!Steps
<1> DEFINE H(l, j) == \E m \in Nat : /\ l \in [0 .. m - 1 -> NodeType] /\ j <= m
                                     /\ \A i \in 1 .. j : l[i - 1] = a[i]
           U == {j \in 0 .. k : H(g[j], j)}
<1> HIDE DEF k
<1>8. 0 \in U
  BY <1>1, <1>7
<1>9. ASSUME NEW j \in 0 .. (k - 1), j \in U PROVE j + 1 \in U
  <2>1. PICK m \in Nat : /\ g[j] \in [0 .. m - 1 -> NodeType] /\ j <= m
                         /\ \A i \in 1 .. j : g[j][i - 1] = a[i]
    BY <1>9
  <2>2. j + 1 \in 1 .. k /\ (j + 1) - 1 = j /\ j \in Nat
    BY <1>1
  <2>3. a[j + 1] \in NodeType /\ a[j + 1].id = j
    BY <1>2, <2>2
  <2>4. g[j + 1] = SetNode(g[j], a[j + 1])
    BY <1>7, <2>2
  <2>5. PICK p \in Nat : /\ g[j + 1] \in [0 .. p - 1 -> NodeType] /\ m <= p /\ j < p
                         /\ g[j + 1][j] = a[j + 1]
                         /\ \A i \in 0 .. m - 1 : i # j => g[j + 1][i] = g[j][i]
    <3> DEFINE l == g[j]
               e == a[j + 1]
    <3>1. m \in Nat /\ l \in [0 .. m - 1 -> NodeType] /\ e \in NodeType /\ e.id <= m
      BY <2>1, <2>3
    <3> HIDE DEF l, e
    <3>2. \E p \in Nat :
            /\ SetNode(l, e) \in [0 .. p - 1 -> NodeType]
            /\ m <= p /\ e.id < p
            /\ SetNode(l, e)[e.id] = e
            /\ \A i \in 0 .. m - 1 : i # e.id => SetNode(l, e)[i] = l[i]
      BY <3>1, OneNodeSet
    <3>3. g[j + 1] = SetNode(l, e) /\ e.id = j /\ l = g[j] /\ e = a[j + 1]
      BY <2>3, <2>4 DEF l, e
    <3> QED BY <3>2, <3>3
  <2>6. ASSUME NEW i \in 1 .. j + 1 PROVE g[j + 1][i - 1] = a[i]
    <3>1. CASE i = j + 1
      BY <2>2, <2>5, <3>1
    <3>2. CASE i # j + 1
      <4>1. i \in 1 .. j /\ i - 1 \in 0 .. m - 1 /\ i - 1 # j
        BY <2>1, <2>2, <3>2
      <4> QED BY <2>1, <2>5, <4>1
    <3> QED BY <3>1, <3>2
  <2>7. j + 1 <= p
    BY <2>2, <2>5
  <2>8. H(g[j + 1], j + 1)
    BY <2>5, <2>6, <2>7
  <2> HIDE DEF H
  <2> QED BY <1>1, <2>2, <2>8
<1>10. 0 .. k \subseteq U
  <2> HIDE DEF U
  <2> QED BY <1>1, <1>8, <1>9, Load!BoundedInduction
<1>11. H(g[k], k)
  BY <1>1, <1>10
<1> QED BY <1>6, <1>11 DEF Holds, k

-----------------------------------------------------------------------------
(* The invariant is inductive.                                             *)

LEMMA Begun ==
  ASSUME Init
  PROVE  TreeInv
<1>1. <<>> \in Seq(NodeType) /\ <<>> \in Seq(Thing) /\ Len(<<>>) = 0
  OBVIOUS
<1>2. WellListed(<<>>) /\ Chain(<<>>)
  BY <1>1 DEF WellListed, Chain
<1>3. Holds(<<>>, <<>>)
  <2>1. <<>> \in [0 .. 0 - 1 -> NodeType]
    OBVIOUS
  <2> QED BY <1>1, <2>1 DEF Holds
<1>4. Range(<<>>) \subseteq NodeType
  BY DEF Range
<1>5. TypeOK
  <2>1. DOMAIN tables \subseteq Schema /\ \A s \in DOMAIN tables : tables[s] \in 0 .. MaxTables
    BY DEF Init
  <2>2. users \subseteq User /\ users # {}
    BY TreeAssumption DEF Init
  <2>3. listing \in Seq(NodeType) /\ answers \subseteq Seq(NodeType)
    BY <1>1 DEF Init
  <2>4. reading \in BOOLEAN /\ (~reading => listing = <<>>) /\ (reading => treeIndex = Len(listing))
    BY DEF Init
  <2>5. treeIndex \in Nat /\ calls \in 0 .. MaxCalls
    BY TreeAssumption DEF Init
  <2>6. Range(nodeList) \subseteq NodeType
    BY <1>4 DEF Init
  <2> QED BY <2>1, <2>2, <2>3, <2>4, <2>5, <2>6 DEF TypeOK
<1> QED BY <1>1, <1>2, <1>3, <1>5 DEF Init, TreeInv, ListInv, PageInv

LEMMA Kept ==
  ASSUME TreeInv, [Next]_vars
  PROVE  TreeInv'
<1> USE DEF TreeInv
<1>1. ASSUME NEW s \in Schema, NEW n \in 0 .. MaxTables, SetTables(s, n) PROVE TreeInv'
  <2>1. TypeOK'
    BY <1>1 DEF SetTables, TypeOK, serviceVars, pageVars
  <2>2. ListInv' /\ PageInv'
    BY <1>1 DEF SetTables, serviceVars, pageVars, ListInv, PageInv
  <2> QED BY <2>1, <2>2
<1>2. ASSUME NEW s \in Schema, DropSchema(s) PROVE TreeInv'
  <2>1. TypeOK'
    BY <1>2 DEF DropSchema, TypeOK, serviceVars, pageVars, Restrict
  <2>2. ListInv' /\ PageInv'
    BY <1>2 DEF DropSchema, serviceVars, pageVars, ListInv, PageInv
  <2> QED BY <2>1, <2>2
<1>3. ASSUME NEW u \in User, DropUser(u) PROVE TreeInv'
  <2>1. TypeOK'
    BY <1>3 DEF DropUser, TypeOK, serviceVars, pageVars
  <2>2. ListInv' /\ PageInv'
    BY <1>3 DEF DropUser, serviceVars, pageVars, ListInv, PageInv
  <2> QED BY <2>1, <2>2
<1>4. ASSUME Begin PROVE TreeInv'
  <2> DEFINE t == <<Only("database"), Only("schemas"), Only("allUsers"), Only("info")>>
  <2>1. TypeOK'
    <3>1. listing = <<>> /\ Len(<<>>) = 0
      BY <1>4 DEF Begin, TypeOK
    <3>2. calls + 1 \in 0 .. MaxCalls
      BY <1>4, TreeAssumption DEF Begin, TypeOK
    <3> QED BY <1>4, <3>1, <3>2 DEF Begin, TypeOK, databaseVars, pageVars
  <2>2. \A k \in {"database", "schemas", "allUsers", "info"} :
          Only(k) \in Thing /\ Only(k).kind = k
    <3> TAKE k \in {"database", "schemas", "allUsers", "info"}
    <3>1. Object(k, "").kind = k /\ Object(k, "") \in Thing
      BY ObjectFields DEF Kinds, Names
    <3> QED BY <3>1 DEF Only
  <2>3. t \in Seq(Thing) /\ Len(t) = 4 /\ t[1].kind = "database"
    BY <2>2
  <2>4. Chain(t)
    <3>1. \A i \in 2 .. 4 : Begins(t[i])
      BY <2>2 DEF Begins
    <3> HIDE DEF t
    <3> QED BY <2>3, <3>1 DEF Chain, Follows
  <2>5. listing = <<>> /\ todo' = t /\ reading'
    BY <1>4 DEF Begin, TypeOK
  <2> HIDE DEF t
  <2>6. ListInv'
    BY <1>4, <2>3, <2>4, <2>5 DEF Begin, ListInv, GoesOn
  <2>7. PageInv'
    BY <1>4 DEF Begin, pageVars, PageInv
  <2> QED BY <2>1, <2>6, <2>7
<1>5. ASSUME ReadList PROVE TreeInv'
  <2> DEFINE h == Head(todo)
             r == Read(h)
             t == Tail(todo)
  <2>1. todo # <<>> /\ IsList(h) /\ todo' = r \o t
    BY <1>5 DEF ReadList
  <2>2. /\ t \in Seq(Thing) /\ Chain(t) /\ h = todo[1] /\ h \in Thing
        /\ t # <<>> => Follows(h, t[1])
    BY <2>1, ChainTail DEF ListInv
  <2>3. /\ r \in Seq(Thing) /\ Chain(r)
        /\ r # <<>> => \A p : Follows(p, h) => Follows(p, r[1])
    <3>1. \A s \in DOMAIN tables : tables[s] \in Nat
      BY TreeAssumption DEF TypeOK
    <3> HIDE DEF h
    <3> QED BY <2>1, <2>2, <3>1, ReadChain DEF TypeOK
  <2>4. listing # <<>> /\ Follows(listing[Len(listing)].object, h) /\ reading
    <3>1. GoesOn(listing, h) /\ reading
      BY <2>1, <2>2 DEF ListInv
    <3> QED BY <2>1, <3>1 DEF GoesOn, IsList
  <2>5. t # <<>> => Begins(t[1])
    <3> HIDE DEF h, t
    <3>1. h.kind \notin {"folder", "table", "users", "user", "admin"}
      BY <2>1 DEF IsList
    <3>2. \A n : /\ h # Object("folder", n) /\ h # Object("table", n)
                 /\ h # Object("users", n) /\ h # Object("user", n)
      BY <3>1, ObjectFields
    <3> QED BY <2>2, <3>1, <3>2 DEF Follows, Only
  <2> HIDE DEF h, r, t
  <2>6. t # <<>> => \A p : Follows(p, t[1])
    BY <2>5 DEF Follows
  <2>7. /\ r \o t \in Seq(Thing) /\ Chain(r \o t)
        /\ r # <<>> => (r \o t)[1] = r[1]
        /\ r = <<>> => r \o t = t
    BY <2>2, <2>3, <2>6, ChainConcat
  <2>8. r \o t # <<>> => GoesOn(listing, (r \o t)[1])
    BY <2>3, <2>4, <2>6, <2>7 DEF GoesOn
  <2>9. ListInv'
    BY <1>5, <2>1, <2>4, <2>7, <2>8 DEF ReadList, ListInv
  <2>10. TypeOK' /\ PageInv'
    BY <1>5 DEF ReadList, TypeOK, PageInv, databaseVars, pageVars
  <2> QED BY <2>9, <2>10
<1>6. ASSUME AddNode PROVE TreeInv'
  <2> DEFINE h == Head(todo)
             t == Tail(todo)
             x == Node(treeIndex, h)
  <2>1. /\ todo # <<>> /\ ~IsList(h) /\ todo' = t /\ listing' = Append(listing, x)
        /\ treeIndex' = treeIndex + 1
    BY <1>6 DEF AddNode
  <2>2. /\ t \in Seq(Thing) /\ Chain(t) /\ h = todo[1] /\ h \in Thing
        /\ t # <<>> => Follows(h, t[1])
    BY <2>1, ChainTail DEF ListInv
  <2>3. h \in Listed
    <3> HIDE DEF h
    <3> QED BY <2>1, <2>2 DEF IsList, Thing, Listed
  <2>4. reading /\ treeIndex = Len(listing) /\ GoesOn(listing, h) /\ treeIndex \in Nat
    BY <2>1, <2>2 DEF ListInv, TypeOK
  <2>5. x \in NodeType /\ x.object = h
    <3> HIDE DEF h
    <3> QED BY <2>3, <2>4, NodeFields
  <2> HIDE DEF h, t
  <2>6. WellListed(listing')
    <3>1. WellListed(listing)
      BY DEF ListInv
    <3> QED BY <2>1, <2>3, <2>4, <3>1, ListingGrows
  <2> HIDE DEF x
  <2>7. /\ listing' \in Seq(NodeType) /\ listing' # <<>>
        /\ Len(listing') = Len(listing) + 1 /\ listing'[Len(listing')] = x
    <3>1. listing \in Seq(NodeType) /\ Len(listing) \in Nat
      BY LenProperties DEF TypeOK
    <3> QED BY <2>1, <2>5, <3>1, AppendProperties
  <2>8. ListInv'
    BY <1>6, <2>1, <2>2, <2>4, <2>5, <2>6, <2>7 DEF AddNode, ListInv, GoesOn
  <2>9. TypeOK'
    BY <1>6, <2>1, <2>4, <2>7 DEF AddNode, TypeOK, databaseVars, pageVars
  <2>10. PageInv'
    BY <1>6 DEF AddNode, PageInv, pageVars
  <2> QED BY <2>8, <2>9, <2>10
<1>7. ASSUME ListingFails PROVE TreeInv'
  <2>1. TypeOK' /\ PageInv'
    BY <1>7 DEF ListingFails, TypeOK, PageInv, databaseVars, pageVars
  <2>2. ListInv'
    BY <1>7 DEF ListingFails, ListInv, Chain
  <2> QED BY <2>1, <2>2
<1>8. ASSUME Answer PROVE TreeInv'
  <2>1. <<>> \in Seq(NodeType) /\ Len(<<>>) = 0
    OBVIOUS
  <2>2. WellListed(<<>>)
    BY <2>1 DEF WellListed
  <2>3. TypeOK'
    BY <1>8, <2>1 DEF Answer, TypeOK, databaseVars, pageVars
  <2>4. ListInv'
    BY <1>8, <2>2 DEF Answer, ListInv
  <2>5. PageInv'
    BY <1>8 DEF Answer, ListInv, PageInv, pageVars
  <2> QED BY <2>3, <2>4, <2>5
<1>9. ASSUME NEW a \in answers, Show(a) PROVE TreeInv'
  <2>1. WellListed(a)
    BY DEF PageInv
  <2>2. PICK n \in Nat : nodeList \in [0 .. n - 1 -> NodeType]
    BY DEF PageInv, Holds
  <2>3. Holds(nodeList', a)
    <3>1. Holds(FoldLeft(SetNode, nodeList, a), a)
      BY <2>1, <2>2, AnswerHeld
    <3> QED BY <1>9, <3>1 DEF Show, SetNodes
  <2>4. PageInv'
    BY <1>9, <2>1, <2>3 DEF Show, PageInv
  <2>5. Range(nodeList') \subseteq NodeType
    BY <2>3 DEF Holds, Range
  <2>6. TypeOK'
    BY <1>9, <2>5 DEF Show, TypeOK, databaseVars, serviceVars
  <2>7. ListInv'
    BY <1>9 DEF Show, ListInv, serviceVars
  <2> QED BY <2>4, <2>6, <2>7
<1>10. CASE UNCHANGED vars
  BY <1>10 DEF vars, databaseVars, serviceVars, pageVars, TypeOK, ListInv, PageInv
<1> QED BY <1>1, <1>2, <1>3, <1>4, <1>5, <1>6, <1>7, <1>8, <1>9, <1>10 DEF Next

LEMMA Inductive == Spec => []TreeInv
BY Begun, Kept, PTL DEF Spec

(* The types of the tree's variables, for any schemas and users, tables    *)
(* and calls; a call that runs numbers its nodes by their place.           *)
THEOREM TypeCorrect == Spec => []TypeOK
<1>1. TreeInv => TypeOK
  BY DEF TreeInv
<1> QED BY <1>1, Inductive, PTL

-----------------------------------------------------------------------------
(* What the page shows.                                                    *)

(* Whatever listings fail and in whatever order answers arrive, the page's *)
(* array has no hole at which writeTree would fail.                        *)
THEOREM ArrayHasNoHole == Spec => []NoHole
<1>1. ASSUME TreeInv PROVE NoHole
  <2>1. PICK n \in Nat : nodeList \in [0 .. n - 1 -> NodeType]
    BY <1>1 DEF TreeInv, PageInv, Holds
  <2>2. Cardinality(0 .. n - 1) = n
    BY FS_Interval
  <2> QED BY <2>1, <2>2 DEF NoHole
<1> QED BY <1>1, Inductive, PTL

(* When no node of an older answer is left, the array is the answer.       *)
LEMMA AnswerShown ==
  ASSUME TreeInv, NoneLeft, NEW n, n = Len(shown)
  PROVE  /\ n \in Nat /\ Indices = 0 .. n - 1
         /\ \A i \in Indices : /\ nodeList[i] = shown[i + 1]
                               /\ nodeList[i].object \in Listed
                               /\ nodeList[i].level = Level(nodeList[i].object.kind)
                               /\ nodeList[i].type = Type(nodeList[i].object.kind)
         /\ \A i \in Indices : i # 0 =>
              i - 1 \in Indices /\ Follows(nodeList[i - 1].object, nodeList[i].object)
         /\ 0 \in Indices => nodeList[0].object.kind = "database"
<1>1. PICK m \in Nat : /\ nodeList \in [0 .. m - 1 -> NodeType] /\ n <= m
                       /\ \A i \in 1 .. n : nodeList[i - 1] = shown[i]
  BY DEF TreeInv, PageInv, Holds
<1>2. WellListed(shown) /\ shown \in Seq(NodeType)
  BY DEF TreeInv, PageInv, WellListed
<1>3. m = n
  <2>1. Cardinality(0 .. m - 1) = m
    BY FS_Interval
  <2> QED BY <1>1, <2>1 DEF NoneLeft
<1>4. n \in Nat /\ Indices = 0 .. n - 1
  BY <1>1, <1>3 DEF Indices
<1>5. ASSUME NEW i \in Indices
      PROVE  /\ nodeList[i] = shown[i + 1] /\ nodeList[i].object \in Listed
             /\ nodeList[i].level = Level(nodeList[i].object.kind)
             /\ nodeList[i].type = Type(nodeList[i].object.kind)
  <2>1. i + 1 \in 1 .. n /\ (i + 1) - 1 = i
    BY <1>4
  <2>2. nodeList[i] = shown[i + 1] /\ shown[i + 1] \in NodeType
    BY <1>1, <1>2, <2>1, ElementOfSeq
  <2>3. nodeList[i] = Node(i, nodeList[i].object)
    BY <1>2, <2>1, <2>2 DEF WellListed
  <2>4. nodeList[i].object \in Listed
    BY <2>2 DEF NodeType, Listed, Kinds, Names
  <2> DEFINE o == nodeList[i].object
  <2>5. Node(i, o).level = Level(o.kind) /\ Node(i, o).type = Type(o.kind)
    BY DEF Node
  <2> QED BY <2>2, <2>3, <2>4, <2>5
<1>6. ASSUME NEW i \in Indices, i # 0
      PROVE  i - 1 \in Indices /\ Follows(nodeList[i - 1].object, nodeList[i].object)
  <2>1. i - 1 \in Indices /\ i \in 1 .. n - 1 /\ (i - 1) + 1 = i
    BY <1>4, <1>6
  <2>2. nodeList[i - 1] = shown[i] /\ nodeList[i] = shown[i + 1]
    BY <1>5, <2>1
  <2> QED BY <1>2, <2>1, <2>2 DEF WellListed
<1>7. ASSUME 0 \in Indices PROVE nodeList[0].object.kind = "database"
  <2>1. shown # <<>>
    BY <1>4, <1>7, EmptySeq
  <2>2. nodeList[0] = shown[1]
    BY <1>5, <1>7
  <2> QED BY <1>2, <2>1, <2>2 DEF WellListed
<1> QED BY <1>4, <1>5, <1>6, <1>7

(* The tree grows deeper one level at a time, below a node that unfolds.   *)
LEMMA OneLevelDeeper ==
  ASSUME NEW p \in Listed, NEW o \in Listed, Follows(p, o)
  PROVE  /\ Level(p.kind) \in 0 .. 2 /\ Level(o.kind) \in 0 .. 2
         /\ Level(o.kind) <= Level(p.kind) + 1
         /\ Level(o.kind) > Level(p.kind) => Type(p.kind) = 1
<1>1. Level(p.kind) \in 0 .. 2 /\ Level(o.kind) \in 0 .. 2
  BY DEF Level
<1>2. CASE Begins(o)
  <2>1. Level(o.kind) = 0
    BY <1>2 DEF Begins, Level
  <2> QED BY <1>1, <2>1
<1>3. CASE o.kind = "table" /\ p \in {Object("folder", o.name), Object("table", o.name)}
  <2>1. p.kind \in {"folder", "table"}
    BY <1>3, ObjectFields
  <2> QED BY <1>3, <2>1 DEF Level, Type
<1>4. CASE o.kind = "user" /\ (p = Only("users") \/ p.kind \in {"user", "admin"})
  <2>1. Object("users", "").kind = "users"
    BY ObjectFields
  <2>2. p.kind \in {"users", "user", "admin"}
    BY <1>4, <2>1 DEF Only
  <2> QED BY <1>4, <2>2 DEF Level, Type
<1>5. CASE o.kind = "admin" /\ p = Object("user", o.name)
  <2>1. p.kind = "user"
    BY <1>5, ObjectFields
  <2> QED BY <1>5, <2>1 DEF Level, Type
<1>6. o.kind # "tables"
  BY DEF Listed, Kinds
<1> QED BY <1>2, <1>3, <1>4, <1>5, <1>6 DEF Follows

(* Then every fold, hidden at first, belongs to a node that can unfold it. *)
THEOREM FoldsUnfold == Spec => []EveryFoldUnfolds
<1>1. ASSUME TreeInv PROVE EveryFoldUnfolds
  <2> SUFFICES ASSUME NoneLeft, NEW i \in Indices, OpensFold(i) PROVE HasSwitch(i - 1)
    BY DEF EveryFoldUnfolds
  <2> USE <1>1
  <2>1. i # 0
    BY DEF OpensFold, Dist
  <2> DEFINE p == nodeList[i - 1].object
             o == nodeList[i].object
  <2>2. /\ i \in Nat /\ i - 1 \in Indices /\ p \in Listed /\ o \in Listed /\ Follows(p, o)
        /\ nodeList[i].level = Level(o.kind)
        /\ nodeList[i - 1].level = Level(p.kind)
        /\ nodeList[i - 1].type = Type(p.kind)
    <3>1. Len(shown) \in Nat /\ Indices = 0 .. Len(shown) - 1
      BY AnswerShown
    <3>2. i \in Nat
      BY <3>1
    <3>3. i - 1 \in Indices /\ Follows(p, o)
      BY <2>1, AnswerShown
    <3> QED BY <3>2, <3>3, AnswerShown
  <2> HIDE DEF p, o
  <2>3. Level(o.kind) > Level(p.kind)
    <3>1. Level(o.kind) \in 0 .. 2 /\ Level(p.kind) \in 0 .. 2
      BY <2>2, OneLevelDeeper
    <3> QED BY <2>1, <2>2, <3>1 DEF OpensFold, Dist
  <2>4. Type(p.kind) = 1
    BY <2>2, <2>3, OneLevelDeeper
  <2>5. (i - 1) + 1 = i
    BY <2>2
  <2> QED BY <2>2, <2>3, <2>4, <2>5 DEF HasSwitch, Indices
<1> QED BY <1>1, Inductive, PTL

(* And a node is written inside as many folds as its level says, also when *)
(* the listing was cut short; a complete listing leaves no fold open.      *)
LEMMA FoldsCounted ==
  ASSUME TreeInv, NoneLeft
  PROVE  \A i \in Indices : Folds[i] = nodeList[i].level
<1> DEFINE n == Len(shown)
           Def(f, i) == IF i = 0 THEN 0
                        ELSE f[i - 1] + (IF OpensFold(i) THEN 1 ELSE 0) - ClosedFolds(i)
           Is(f) == f = [i \in Indices |-> Def(f, i)]
           level == [i \in Indices |-> nodeList[i].level]
<1>1. n \in Nat /\ Indices = 0 .. n - 1
  BY AnswerShown
<1>2. ASSUME NEW i \in Indices, i # 0
      PROVE  /\ i - 1 \in Indices
             /\ nodeList[i].level =
                  nodeList[i - 1].level + (IF OpensFold(i) THEN 1 ELSE 0) - ClosedFolds(i)
  <2> DEFINE p == nodeList[i - 1].object
             o == nodeList[i].object
  <2>1. /\ i - 1 \in Indices /\ p \in Listed /\ o \in Listed /\ Follows(p, o)
        /\ nodeList[i].level = Level(o.kind)
        /\ nodeList[i - 1].level = Level(p.kind)
    BY <1>2, AnswerShown
  <2> HIDE DEF p, o
  <2>2. /\ Level(o.kind) \in 0 .. 2 /\ Level(p.kind) \in 0 .. 2
        /\ Level(o.kind) <= Level(p.kind) + 1
    BY <2>1, OneLevelDeeper
  <2> QED BY <1>2, <2>1, <2>2 DEF OpensFold, ClosedFolds, Dist
<1>3. ASSUME 0 \in Indices PROVE nodeList[0].level = 0
  <2>1. nodeList[0].level = Level(nodeList[0].object.kind) /\ nodeList[0].object.kind = "database"
    BY <1>3, AnswerShown
  <2> QED BY <2>1 DEF Level
<1> HIDE DEF n
<1>4. \E f : Is(f)
  <2>1. ASSUME NEW i \in Indices PROVE level[i] = Def(level, i)
    BY <1>2, <1>3
  <2>2. level = [i \in Indices |-> level[i]]
    OBVIOUS
  <2>3. Is(level)
    <3> HIDE DEF Def, level
    <3> QED BY <2>1, <2>2
  <2> HIDE DEF Is
  <2> QED BY <2>3
<1>5. Folds = CHOOSE f : Is(f)
  BY DEF Folds
<1>6. Is(Folds)
  <2> HIDE DEF Is
  <2> QED BY <1>4, <1>5
<1>7. \A i \in Indices : Folds[i] = Def(Folds, i)
  <2> HIDE DEF Def
  <2> QED BY <1>6, Zenon
<1>8. CASE n = 0
  BY <1>1, <1>8
<1>9. CASE n # 0
  <2> DEFINE W == {i \in 0 .. n - 1 : Folds[i] = nodeList[i].level}
  <2>1. 0 \in W
    BY <1>1, <1>3, <1>7, <1>9
  <2>2. ASSUME NEW i \in 0 .. (n - 1) - 1, i \in W PROVE i + 1 \in W
    <3>1. i + 1 \in Indices /\ i + 1 # 0 /\ (i + 1) - 1 = i
      BY <1>1
    <3>2. Folds[i + 1] =
            Folds[i] + (IF OpensFold(i + 1) THEN 1 ELSE 0) - ClosedFolds(i + 1)
      BY <1>7, <3>1
    <3>3. nodeList[i + 1].level =
            nodeList[i].level + (IF OpensFold(i + 1) THEN 1 ELSE 0) - ClosedFolds(i + 1)
      BY <1>2, <3>1
    <3> QED BY <1>1, <2>2, <3>1, <3>2, <3>3
  <2>3. 0 .. n - 1 \subseteq W
    <3> HIDE DEF W
    <3>1. n - 1 \in Nat
      BY <1>1, <1>9
    <3> QED BY <2>1, <2>2, <3>1, Load!BoundedInduction
  <2> QED BY <1>1, <2>3
<1> QED BY <1>8, <1>9

THEOREM LevelsAreFolds == Spec => []FoldsAreLevels
<1>1. ASSUME TreeInv PROVE FoldsAreLevels
  <2> SUFFICES ASSUME NoneLeft, shown # <<>>
               PROVE  /\ \A i \in Indices : Folds[i] = nodeList[i].level
                      /\ Last(shown).object.kind = "info" =>
                           FoldsLeft(Len(shown) - 1) = 0
    BY DEF FoldsAreLevels
  <2> USE <1>1
  <2>1. \A i \in Indices : Folds[i] = nodeList[i].level
    BY FoldsCounted
  <2>2. ASSUME Last(shown).object.kind = "info" PROVE FoldsLeft(Len(shown) - 1) = 0
    <3> DEFINE i == Len(shown) - 1
    <3>1. Len(shown) \in Nat /\ Len(shown) # 0 /\ Indices = 0 .. Len(shown) - 1
      <4>1. shown \in Seq(NodeType)
        BY DEF TreeInv, PageInv, WellListed
      <4>2. Len(shown) # 0
        BY <4>1, EmptySeq
      <4> QED BY <4>2, AnswerShown
    <3>2. i \in Indices /\ i + 1 = Len(shown)
      BY <3>1
    <3>3. /\ nodeList[i] = shown[Len(shown)]
          /\ nodeList[i].level = Level(nodeList[i].object.kind)
          /\ nodeList[i].type = Type(nodeList[i].object.kind)
      BY <3>2, AnswerShown
    <3>4. nodeList[i].object.kind = "info"
      BY <2>2, <3>3 DEF Last
    <3>5. Folds[i] = 0 /\ nodeList[i].type = 0
      BY <2>1, <3>2, <3>3, <3>4 DEF Level, Type
    <3> QED BY <3>5 DEF FoldsLeft
  <2> QED BY <2>1, <2>2
<1> QED BY <1>1, Inductive, PTL

(* The nearest node before i with a lower level is the one i belongs to.   *)
LEMMA ParentAt ==
  ASSUME NEW i \in Nat, NEW j \in 0 .. i, nodeList[j].level < nodeList[i].level,
         \A k \in (j + 1) .. i : nodeList[k].level >= nodeList[i].level,
         \A k \in 0 .. i : nodeList[k].level \in Nat
  PROVE  Parent(i) = nodeList[j].object
<1> DEFINE Is(x) == /\ nodeList[x].level < nodeList[i].level
                    /\ \A k \in (x + 1) .. i : nodeList[k].level >= nodeList[i].level
           c == CHOOSE x \in 0 .. i : Is(x)
<1>1. c \in 0 .. i /\ Is(c)
  OBVIOUS
<1> HIDE DEF c
<1>2. ~(c < j) /\ ~(j < c)
  <2>1. ASSUME c < j PROVE FALSE
    <3>1. j \in (c + 1) .. i
      BY <1>1, <2>1
    <3> QED BY <1>1, <3>1
  <2>2. ASSUME j < c PROVE FALSE
    <3>1. c \in (j + 1) .. i
      BY <1>1, <2>2
    <3> QED BY <1>1, <3>1
  <2> QED BY <2>1, <2>2
<1>3. c = j
  BY <1>1, <1>2
<1> QED BY <1>3 DEF Parent, c

(* And a node stands in its own object's fold: a table in its schema's, a  *)
(* user among the users, the mark of an administrator in its user's.       *)
THEOREM StandsUnderItsOwn == Spec => []UnderItsOwn
<1>1. ASSUME TreeInv PROVE UnderItsOwn
  <2> SUFFICES ASSUME NoneLeft
               PROVE  \A i \in Indices :
                        LET o == nodeList[i].object
                        IN  /\ o.kind = "table" => Parent(i) = Object("folder", o.name)
                            /\ o.kind = "user" => Parent(i) = Only("users")
                            /\ o.kind = "admin" => Parent(i) = Object("user", o.name)
    BY DEF UnderItsOwn
  <2> USE <1>1
  <2> DEFINE n == Len(shown)
             ob(i) == nodeList[i].object
             lv(i) == nodeList[i].level
             Below(i, j) == /\ j \in 0 .. i /\ lv(j) = 0
                            /\ \A k \in (j + 1) .. i : lv(k) >= 1
  <2>1. n \in Nat /\ Indices = 0 .. n - 1
    BY AnswerShown
  <2>2. \A i \in Indices : ob(i) \in Listed /\ lv(i) = Level(ob(i).kind)
    BY AnswerShown
  <2>3. \A i \in Indices : i # 0 => i - 1 \in Indices /\ Follows(ob(i - 1), ob(i))
    BY AnswerShown
  <2>4. 0 \in Indices => ob(0).kind = "database"
    BY AnswerShown
  <2>5. \A i \in Indices : lv(i) \in 0 .. 2
    BY <2>2 DEF Level
  <2>6. ASSUME NEW i \in Indices, ob(i).kind \in {"table", "user", "admin"}
        PROVE  /\ i # 0 /\ i - 1 \in Indices
               /\ ob(i).kind = "table" =>
                    ob(i - 1) \in {Object("folder", ob(i).name), Object("table", ob(i).name)}
               /\ ob(i).kind = "user" =>
                    ob(i - 1) = Only("users") \/ ob(i - 1).kind \in {"user", "admin"}
               /\ ob(i).kind = "admin" => ob(i - 1) = Object("user", ob(i).name)
    BY <2>3, <2>4, <2>6 DEF Follows, Begins
  <2> HIDE DEF ob, lv, n
  <2> DEFINE Found(i) ==
               /\ ob(i).kind = "table" =>
                    \E j : Below(i, j) /\ ob(j) = Object("folder", ob(i).name)
               /\ ob(i).kind \in {"user", "admin"} =>
                    \E j : Below(i, j) /\ ob(j) = Only("users")
             W == {i \in 0 .. n - 1 : Found(i)}
  <2>7. ASSUME NEW i \in Indices, i # 0, NEW j, Below(i - 1, j), lv(i) >= 1
        PROVE  Below(i, j)
    BY <2>1, <2>7
  <2>8. ASSUME NEW i \in Indices, i # 0, lv(i - 1) = 0, lv(i) >= 1
        PROVE  Below(i, i - 1)
    BY <2>1, <2>8
  <2>9. ASSUME NEW i \in Indices, i # 0, Found(i - 1) PROVE Found(i)
    <3> HIDE DEF Below
    <3>1. CASE ob(i).kind = "table"
      <4>1. i - 1 \in Indices /\ lv(i) >= 1
        BY <2>2, <2>6, <3>1 DEF Level
      <4>2. CASE ob(i - 1) = Object("folder", ob(i).name)
        <5>1. lv(i - 1) = 0
          <6>1. ob(i - 1).kind = "folder"
            BY <4>2, ObjectFields
          <6> QED BY <2>2, <4>1, <6>1 DEF Level
        <5> QED BY <2>8, <2>9, <3>1, <4>1, <4>2, <5>1
      <4>3. CASE ob(i - 1) = Object("table", ob(i).name)
        <5>1. ob(i - 1).kind = "table" /\ ob(i - 1).name = ob(i).name
          BY <4>3, ObjectFields
        <5>2. PICK j : Below(i - 1, j) /\ ob(j) = Object("folder", ob(i).name)
          BY <2>9, <5>1
        <5> QED BY <2>7, <2>9, <3>1, <4>1, <5>2
      <4> QED BY <2>6, <3>1, <4>2, <4>3
    <3>2. CASE ob(i).kind \in {"user", "admin"}
      <4>1. i - 1 \in Indices /\ lv(i) >= 1
        BY <2>2, <2>6, <3>2 DEF Level
      <4>2. CASE ob(i - 1) = Only("users")
        <5>1. Object("users", "").kind = "users"
          BY ObjectFields
        <5>2. lv(i - 1) = 0
          BY <2>2, <4>1, <4>2, <5>1 DEF Level, Only
        <5> QED BY <2>8, <2>9, <3>2, <4>1, <4>2, <5>2
      <4>3. CASE ob(i - 1).kind \in {"user", "admin"}
        <5>1. PICK j : Below(i - 1, j) /\ ob(j) = Only("users")
          BY <2>9, <4>3
        <5> QED BY <2>7, <2>9, <3>2, <4>1, <5>1
      <4>4. Object("user", ob(i).name).kind = "user"
        BY ObjectFields
      <4> QED BY <2>6, <3>2, <4>2, <4>3, <4>4
    <3>3. CASE ob(i).kind \notin {"table", "user", "admin"}
      BY <3>3
    <3> QED BY <3>1, <3>2, <3>3
  <2> HIDE DEF Below
  <2>10. \A i \in Indices : Found(i)
    <3>1. CASE n = 0
      BY <2>1, <3>1
    <3>2. CASE n # 0
      <4>1. n - 1 \in Nat
        BY <2>1, <3>2
      <4>2. 0 \in W
        BY <2>1, <2>4, <4>1
      <4>3. ASSUME NEW i \in 0 .. (n - 1) - 1, i \in W PROVE i + 1 \in W
        <5>1. i + 1 \in Indices /\ i + 1 # 0 /\ (i + 1) - 1 = i
          BY <2>1
        <5>2. Found((i + 1) - 1)
          BY <4>3, <5>1
        <5> HIDE DEF Found
        <5> QED BY <2>1, <2>9, <5>1, <5>2
      <4>4. 0 .. n - 1 \subseteq W
        <5> HIDE DEF W
        <5> QED BY <4>1, <4>2, <4>3, Load!BoundedInduction
      <4> QED BY <2>1, <4>4
    <3> QED BY <3>1, <3>2
  <2>11. ASSUME NEW i \in Indices, NEW j, Below(i, j), lv(i) = 1 PROVE Parent(i) = ob(j)
    <3>1. i \in Nat /\ j \in 0 .. i /\ lv(j) < lv(i)
      BY <2>1, <2>11 DEF Below
    <3>2. \A k \in (j + 1) .. i : lv(k) >= lv(i)
      BY <2>11 DEF Below
    <3>3. \A k \in 0 .. i : lv(k) \in Nat
      BY <2>1, <2>5
    <3> QED BY <3>1, <3>2, <3>3, ParentAt DEF ob, lv
  <2>12. ASSUME NEW i \in Indices, ob(i).kind \in {"table", "user"}
         PROVE  /\ ob(i).kind = "table" => Parent(i) = Object("folder", ob(i).name)
                /\ ob(i).kind = "user" => Parent(i) = Only("users")
    <3>1. lv(i) = 1
      BY <2>2, <2>12 DEF Level
    <3> QED BY <2>10, <2>11, <2>12, <3>1
  <2>13. ASSUME NEW i \in Indices, ob(i).kind = "admin"
         PROVE  Parent(i) = Object("user", ob(i).name)
    <3>1. i - 1 \in Indices /\ ob(i - 1) = Object("user", ob(i).name)
      BY <2>6, <2>13
    <3>2. lv(i) = 2 /\ lv(i - 1) = 1
      <4>1. ob(i - 1).kind = "user"
        BY <3>1, ObjectFields
      <4> QED BY <2>2, <2>13, <3>1, <4>1 DEF Level
    <3>3. i \in Nat /\ i - 1 \in 0 .. i /\ \A k \in ((i - 1) + 1) .. i : k = i
      BY <2>1, <3>1
    <3>4. \A k \in 0 .. i : lv(k) \in Nat
      BY <2>1, <2>5
    <3>5. Parent(i) = ob(i - 1)
      BY <3>2, <3>3, <3>4, ParentAt DEF ob, lv
    <3> QED BY <3>1, <3>5
  <2> QED BY <2>12, <2>13 DEF ob
<1> QED BY <1>1, Inductive, PTL
=============================================================================
