----------------------------- MODULE PlanProofs ------------------------------
(***************************************************************************)
(* The lemmas about sequences, names and plans the other proofs rest on,   *)
(* for any registry: what the operations of the code keep of a slice; what *)
(* the paths of a registry, its instantiations and its interfaces are;     *)
(* that the plan of a registry that validates has everything it is asked   *)
(* for; and that it defines a concrete type once.                          *)
(***************************************************************************)
EXTENDS WitBinding, WellFoundedInduction, FiniteSetTheorems, TLAPS

\* A set of natural numbers that is not empty has a least one.
LEMMA LeastOf ==
  ASSUME NEW S \in SUBSET Nat, S # {} PROVE \E i \in S : \A j \in S : i <= j
<1>1. PICK i \in S : \A j \in S : ~ (<<j, i>> \in OpToRel(<, Nat))
  BY WFMin, NatLessThanWellFounded
<1>2. \A j \in S : ~ (j < i)
  BY <1>1 DEF OpToRel
<1> QED BY <1>2

\* A slice is a function from its positions.
LEMMA SliceParts ==
  ASSUME NEW s, IsSlice(s)
  PROVE  /\ Len(s) \in Nat
         /\ DOMAIN s = 1..Len(s)
         /\ s = [i \in 1..Len(s) |-> s[i]]
BY DEF IsSlice

\* A function from the first n positions is a slice.
LEMMA FunctionSlice ==
  ASSUME NEW n \in Nat, NEW f, f = [i \in 1..n |-> f[i]]
  PROVE  IsSlice(f) /\ Len(f) = n /\ DOMAIN f = 1..n
<1>1. DOMAIN f = 1..n
  OBVIOUS
<1>2. \A i \in 1..n : f[i] \in ToSet(f)
  BY <1>1 DEF ToSet
<1>3. f \in [1..n -> ToSet(f)]
  BY <1>2
<1> QED BY <1>1, <1>3 DEF IsSlice

\* A slice is a sequence over any set that has its elements.
LEMMA SliceIn ==
  ASSUME NEW s, IsSlice(s), NEW T, ToSet(s) \subseteq T
  PROVE  s \in Seq(T)
BY SliceParts DEF IsSlice, ToSet

\* What a concatenation holds.
LEMMA ConcatSlices ==
  ASSUME NEW s, NEW t, IsSlice(s), IsSlice(t)
  PROVE  IsSlice(s \o t) /\ ToSet(s \o t) = ToSet(s) \cup ToSet(t)
<1> DEFINE T == ToSet(s) \cup ToSet(t)
<1>1. s \in Seq(T) /\ t \in Seq(T)
  BY SliceIn
<1>2. /\ s \o t \in Seq(T)
      /\ Len(s \o t) = Len(s) + Len(t)
      /\ DOMAIN (s \o t) = 1..(Len(s) + Len(t))
      /\ \A i \in 1..(Len(s) + Len(t)) :
           (s \o t)[i] = IF i <= Len(s) THEN s[i] ELSE t[i - Len(s)]
  BY <1>1
<1>3. Len(s) \in Nat /\ Len(t) \in Nat /\ DOMAIN s = 1..Len(s) /\ DOMAIN t = 1..Len(t)
  BY SliceParts
<1>4. \A i \in DOMAIN s : (s \o t)[i] = s[i] /\ i \in DOMAIN (s \o t)
  BY <1>2, <1>3
<1>5. \A i \in DOMAIN t : (s \o t)[Len(s) + i] = t[i] /\ Len(s) + i \in DOMAIN (s \o t)
  BY <1>2, <1>3
<1>6. ToSet(s \o t) = T
  <2>1. ToSet(s) \subseteq ToSet(s \o t)
    BY <1>4 DEF ToSet
  <2>2. ToSet(t) \subseteq ToSet(s \o t)
    BY <1>5 DEF ToSet
  <2>3. ToSet(s \o t) \subseteq T
    BY <1>2, <1>3 DEF ToSet
  <2> QED BY <2>1, <2>2, <2>3
<1> QED BY <1>2, <1>6 DEF IsSlice

\* Slices without elements and with one.
LEMMA SmallSlices ==
  /\ IsSlice(<<>>) /\ ToSet(<<>>) = {} /\ Len(<<>>) = 0
  /\ \A e : IsSlice(<<e>>) /\ ToSet(<<e>>) = {e}
BY DEF IsSlice, ToSet

\* What a slice holds with an element appended.
LEMMA AppendSlice ==
  ASSUME NEW s, IsSlice(s), NEW e
  PROVE  IsSlice(Append(s, e)) /\ ToSet(Append(s, e)) = ToSet(s) \cup {e}
<1> DEFINE T == ToSet(s) \cup {e}
<1>1. s \in Seq(T) /\ e \in T
  BY SliceIn
<1>2. Append(s, e) = s \o <<e>>
  BY <1>1
<1> QED BY <1>2, ConcatSlices, SmallSlices

\* What FlattenSeq leaves to recursion exists.
LEMMA FlattenExists ==
  ASSUME NEW ss, NEW n \in Nat
  PROVE  \E f : f = [i \in 1..n |-> IF i = 1 THEN ss[i] ELSE f[i - 1] \o ss[i]]
<1> DEFINE Link(f, i) == IF i = 1 THEN ss[i] ELSE f[i - 1] \o ss[i]
           Good(m) == \E f : f = [i \in 1..m |-> Link(f, i)]
           Bad == {m \in Nat : ~Good(m)}
<1>1. Good(0)
  <2> DEFINE f == [i \in 1..0 |-> ss[i]]
  <2>1. f = [i \in 1..0 |-> Link(f, i)]
    OBVIOUS
  <2> QED BY <2>1
<1>2. ASSUME NEW m \in Nat, Good(m) PROVE Good(m + 1)
  <2>1. PICK f : f = [i \in 1..m |-> Link(f, i)]
    BY <1>2
  <2> DEFINE g == [i \in 1..(m + 1) |-> IF i <= m THEN f[i] ELSE Link(f, i)]
  <2>2. ASSUME NEW i \in 1..(m + 1) PROVE g[i] = Link(g, i)
    <3>1. i = 1 \/ g[i - 1] = f[i - 1]
      OBVIOUS
    <3>2. Link(g, i) = Link(f, i)
      BY <3>1
    <3>3. i <= m => f[i] = Link(f, i)
      <4> SUFFICES ASSUME i \in 1..m PROVE f[i] = Link(f, i)
        OBVIOUS
      <4> HIDE DEF Link, g
      <4> QED BY <2>1
    <3>4. g[i] = IF i <= m THEN f[i] ELSE Link(f, i)
      OBVIOUS
    <3> HIDE DEF Link, g
    <3> QED BY <3>2, <3>3, <3>4
  <2>3. g = [i \in 1..(m + 1) |-> g[i]]
    OBVIOUS
  <2> HIDE DEF g, Link
  <2>4. g = [i \in 1..(m + 1) |-> Link(g, i)]
    BY <2>2, <2>3
  <2> QED BY <2>4
<1>3. Bad = {}
  <2> SUFFICES ASSUME Bad # {} PROVE FALSE
    OBVIOUS
  <2>0. Bad \in SUBSET Nat
    OBVIOUS
  <2>1. PICK m \in Bad : \A j \in Bad : m <= j
    <3> HIDE DEF Bad
    <3> QED BY <2>0, LeastOf
  <2> HIDE DEF Good
  <2>2. m \in Nat /\ ~Good(m)
    OBVIOUS
  <2>3. m # 0
    BY <2>2, <1>1
  <2>4. m - 1 \in Nat /\ (m - 1) + 1 = m
    BY <2>2, <2>3
  <2>5. m - 1 \notin Bad
    <3> HIDE DEF Bad
    <3> QED BY <2>1, <2>2, <2>4
  <2>6. Good(m - 1)
    BY <2>4, <2>5
  <2>7. Good((m - 1) + 1)
    BY <2>4, <2>6, <1>2
  <2> QED BY <2>2, <2>4, <2>7
<1>4. Good(n)
  BY <1>3
<1> QED BY <1>4

\* FlattenSeq of slices is a slice of all they hold.
LEMMA FlattenSlices ==
  ASSUME NEW ss, IsSlice(ss), \A i \in DOMAIN ss : IsSlice(ss[i])
  PROVE  /\ IsSlice(FlattenSeq(ss))
         /\ ToSet(FlattenSeq(ss)) = UNION {ToSet(ss[i]) : i \in DOMAIN ss}
<1> DEFINE n == Len(ss)
           Fits(f) == f = [i \in 1..n |-> IF i = 1 THEN ss[i] ELSE f[i - 1] \o ss[i]]
           flat == CHOOSE f : Fits(f)
<1>0. n \in Nat /\ DOMAIN ss = 1..n
  BY SliceParts
<1>1. CASE n = 0
  <2>1. FlattenSeq(ss) = ss
    BY <1>1 DEF FlattenSeq
  <2>2. DOMAIN ss = {}
    BY <1>0, <1>1
  <2>3. ToSet(ss) = {}
    BY <2>2 DEF ToSet
  <2> QED BY <2>1, <2>2, <2>3
<1>2. CASE n # 0
  <2>1. FlattenSeq(ss) = flat[n]
    BY <1>2 DEF FlattenSeq
  <2>2. Fits(flat)
    BY FlattenExists, <1>0
  <2> HIDE DEF flat, n
  <2>21. \A i \in 1..n : flat[i] = IF i = 1 THEN ss[i] ELSE flat[i - 1] \o ss[i]
    BY <2>2
  <2> HIDE DEF Fits
  <2> DEFINE Good(m) == IsSlice(flat[m]) /\ ToSet(flat[m]) = UNION {ToSet(ss[i]) : i \in 1..m}
             Bad == {m \in 1..n : ~Good(m)}
  <2>3. Good(1)
    <3>1. flat[1] = ss[1]
      BY <2>21, <1>0, <1>2
    <3>2. UNION {ToSet(ss[i]) : i \in 1..1} = ToSet(ss[1])
      <4>1. 1..1 = {1}
        OBVIOUS
      <4> QED BY <4>1
    <3> QED BY <3>1, <3>2, <1>0, <1>2
  <2>4. ASSUME NEW m \in 1..n, m + 1 \in 1..n, Good(m) PROVE Good(m + 1)
    <3>0. m + 1 # 1 /\ (m + 1) - 1 = m
      BY <1>0
    <3>1. flat[m + 1] = flat[m] \o ss[m + 1]
      BY <2>21, <2>4, <3>0
    <3>2. IsSlice(ss[m + 1])
      BY <2>4, <1>0
    <3>3. UNION {ToSet(ss[i]) : i \in 1..(m + 1)}
            = (UNION {ToSet(ss[i]) : i \in 1..m}) \cup ToSet(ss[m + 1])
      <4>1. 1..(m + 1) = (1..m) \cup {m + 1}
        BY <1>0
      <4> QED BY <4>1
    <3> QED BY <3>1, <3>2, <3>3, <2>4, ConcatSlices
  <2>5. Bad = {}
    <3> SUFFICES ASSUME Bad # {} PROVE FALSE
      OBVIOUS
    <3>0. Bad \in SUBSET Nat
      BY <1>0
    <3>1. PICK m \in Bad : \A j \in Bad : m <= j
      <4> HIDE DEF Bad
      <4> QED BY <3>0, LeastOf
    <3> HIDE DEF Good
    <3>2. m \in 1..n /\ ~Good(m)
      OBVIOUS
    <3>3. m # 1
      BY <3>2, <2>3
    <3>4. m - 1 \in 1..n /\ (m - 1) + 1 = m
      BY <3>2, <3>3, <1>0
    <3>5. m - 1 \notin Bad
      <4> HIDE DEF Bad
      <4> QED BY <3>1, <3>2, <3>4, <1>0
    <3>6. Good(m - 1)
      BY <3>4, <3>5
    <3>7. Good((m - 1) + 1)
      BY <3>2, <3>4, <3>6, <2>4
    <3> QED BY <3>2, <3>4, <3>7
  <2>6. Good(n)
    <3>1. n \in 1..n /\ n \notin Bad
      BY <2>5, <1>0, <1>2
    <3> HIDE DEF Good
    <3> QED BY <3>1
  <2> QED BY <2>1, <2>6, <1>0
<1> QED BY <1>1, <1>2

\* Kept leaves the elements at the given positions.
LEMMA KeptSlice ==
  ASSUME NEW s, IsSlice(s), NEW P
  PROVE  IsSlice(Kept(s, P)) /\ ToSet(Kept(s, P)) = {s[i] : i \in DOMAIN s \cap P}
<1> DEFINE one(i) == IF i \in P THEN <<s[i]>> ELSE <<>>
           ss == [i \in DOMAIN s |-> one(i)]
<1>1. \A i \in DOMAIN s : IsSlice(one(i)) /\ ToSet(one(i)) = IF i \in P THEN {s[i]} ELSE {}
  BY SmallSlices
<1>2. IsSlice(ss) /\ DOMAIN ss = DOMAIN s
  BY SliceParts, FunctionSlice
<1>3. \A i \in DOMAIN ss : ss[i] = one(i)
  OBVIOUS
<1>4. Kept(s, P) = FlattenSeq(ss)
  BY DEF Kept
<1> HIDE DEF ss
<1>5. /\ IsSlice(FlattenSeq(ss))
      /\ ToSet(FlattenSeq(ss)) = UNION {ToSet(ss[i]) : i \in DOMAIN ss}
  BY <1>1, <1>2, <1>3, FlattenSlices
<1>6. UNION {ToSet(ss[i]) : i \in DOMAIN ss} = UNION {IF i \in P THEN {s[i]} ELSE {} : i \in DOMAIN s}
  BY <1>1, <1>2, <1>3
<1>7. UNION {IF i \in P THEN {s[i]} ELSE {} : i \in DOMAIN s} = {s[i] : i \in DOMAIN s \cap P}
  OBVIOUS
<1> QED BY <1>4, <1>5, <1>6, <1>7

\* The last element of a slice is one of its elements.
LEMMA LastIn ==
  ASSUME NEW s, IsSlice(s), s # <<>>
  PROVE  Last(s) \in ToSet(s)
<1>1. Len(s) \in Nat /\ DOMAIN s = 1..Len(s) /\ s \in Seq(ToSet(s))
  BY SliceParts DEF IsSlice
<1>2. Len(s) # 0
  BY <1>1
<1> QED BY <1>1, <1>2 DEF Last, ToSet

\* A slice mapped element by element.
LEMMA MappedSlice ==
  ASSUME NEW s, IsSlice(s), NEW f, DOMAIN f = DOMAIN s, f = [i \in DOMAIN f |-> f[i]]
  PROVE  IsSlice(f) /\ DOMAIN f = DOMAIN s /\ ToSet(f) = {f[i] : i \in DOMAIN s}
<1>1. Len(s) \in Nat /\ DOMAIN s = 1..Len(s)
  BY SliceParts
<1>2. f = [i \in 1..Len(s) |-> f[i]]
  BY <1>1
<1>3. IsSlice(f)
  BY <1>1, <1>2, FunctionSlice
<1> QED BY <1>3 DEF ToSet

\* The first descriptor with an id is one of the descriptors.
LEMMA FirstWithId ==
  ASSUME NEW s, IsSlice(s), NEW id \in Ids(s)
  PROVE  \E i \in DOMAIN s : /\ WithId(s, id) = s[i] /\ s[i].id = id
                             /\ \A j \in 1..(i - 1) : s[j].id # id
<1> DEFINE Holders == {i \in DOMAIN s : s[i].id = id}
<1>1. DOMAIN s = 1..Len(s) /\ Len(s) \in Nat
  BY SliceParts
<1>2. Holders \in SUBSET Nat /\ Holders # {}
  BY <1>1 DEF Ids
<1>3. PICK i \in Holders : \A j \in Holders : i <= j
  <2> HIDE DEF Holders
  <2> QED BY <1>2, LeastOf
<1>4. i \in DOMAIN s /\ s[i].id = id /\ \A j \in 1..(i - 1) : s[j].id # id
  BY <1>1, <1>3
<1> QED BY <1>4 DEF WithId

\* ... so looking an id up that is there gives a descriptor with the id.
LEMMA WithIdIn ==
  ASSUME NEW s, IsSlice(s), NEW id \in Ids(s)
  PROVE  WithId(s, id) \in ToSet(s) /\ WithId(s, id).id = id
BY FirstWithId DEF ToSet

\* The ids of a slice are those of its elements.
LEMMA IdsOf == ASSUME NEW s PROVE Ids(s) = {d.id : d \in ToSet(s)}
BY DEF Ids, ToSet

\* What is found in the front of a concatenation is found in the whole.
LEMMA WithIdInFront ==
  ASSUME NEW s, NEW t, IsSlice(s), IsSlice(t), NEW id \in Ids(s)
  PROVE  WithId(s \o t, id) = WithId(s, id)
<1>1. /\ IsSlice(s \o t) /\ Ids(s \o t) = Ids(s) \cup Ids(t)
  BY ConcatSlices, IdsOf
<1>2. PICK i \in DOMAIN s : WithId(s, id) = s[i] /\ s[i].id = id /\ \A j \in 1..(i - 1) : s[j].id # id
  BY FirstWithId
<1>3. PICK k \in DOMAIN (s \o t) : /\ WithId(s \o t, id) = (s \o t)[k] /\ (s \o t)[k].id = id
                                   /\ \A j \in 1..(k - 1) : (s \o t)[j].id # id
  BY <1>1, FirstWithId
<1>4. DOMAIN s = 1..Len(s) /\ Len(s) \in Nat /\ DOMAIN (s \o t) = 1..Len(s \o t) /\ Len(s \o t) \in Nat
  BY <1>1, SliceParts
<1>5. \A j \in DOMAIN s : (s \o t)[j] = s[j] /\ j \in DOMAIN (s \o t)
  <2> DEFINE T == ToSet(s) \cup ToSet(t)
  <2>1. s \in Seq(T) /\ t \in Seq(T)
    BY SliceIn
  <2> HIDE DEF T
  <2> QED BY <2>1
<1>6. k = i
  BY <1>2, <1>3, <1>4, <1>5
<1> QED BY <1>2, <1>3, <1>5, <1>6

\* What only the end of a concatenation has is found there.
LEMMA WithIdBehind ==
  ASSUME NEW s, NEW t, IsSlice(s), IsSlice(t), NEW id \in Ids(t), id \notin Ids(s)
  PROVE  WithId(s \o t, id) = WithId(t, id)
<1>1. /\ IsSlice(s \o t) /\ Ids(s \o t) = Ids(s) \cup Ids(t)
  BY ConcatSlices, IdsOf
<1>2. PICK i \in DOMAIN t : WithId(t, id) = t[i] /\ t[i].id = id /\ \A j \in 1..(i - 1) : t[j].id # id
  BY FirstWithId
<1>3. PICK k \in DOMAIN (s \o t) : /\ WithId(s \o t, id) = (s \o t)[k] /\ (s \o t)[k].id = id
                                   /\ \A j \in 1..(k - 1) : (s \o t)[j].id # id
  BY <1>1, FirstWithId
<1>4. /\ DOMAIN s = 1..Len(s) /\ Len(s) \in Nat
      /\ DOMAIN t = 1..Len(t) /\ Len(t) \in Nat
      /\ DOMAIN (s \o t) = 1..(Len(s) + Len(t))
      /\ \A j \in DOMAIN s : (s \o t)[j] = s[j]
      /\ \A j \in DOMAIN t : (s \o t)[Len(s) + j] = t[j]
  <2> DEFINE T == ToSet(s) \cup ToSet(t)
  <2>1. s \in Seq(T) /\ t \in Seq(T)
    BY SliceIn
  <2> HIDE DEF T
  <2> QED BY <2>1
<1>5. \A j \in DOMAIN s : s[j].id # id
  BY DEF Ids
<1>6. k \notin DOMAIN s
  BY <1>3, <1>4, <1>5
<1>7. PICK m \in DOMAIN t : k = Len(s) + m
  <2>1. k - Len(s) \in DOMAIN t /\ k = Len(s) + (k - Len(s))
    BY <1>3, <1>4, <1>6
  <2> QED BY <2>1
<1>8. m = i
  <2>1. i \in Nat /\ m \in Nat /\ 1 <= i /\ 1 <= m
    BY <1>4
  <2>2. ~(m < i)
    BY <1>2, <1>3, <1>4, <1>7, <2>1
  <2>3. ~(i < m)
    <3>1. ASSUME i < m PROVE FALSE
      <4>1. Len(s) + i \in 1..(k - 1)
        BY <1>4, <1>7, <2>1, <3>1
      <4> QED BY <1>2, <1>3, <1>4, <4>1
    <3> QED BY <3>1
  <2> QED BY <2>1, <2>2, <2>3
<1> QED BY <1>2, <1>3, <1>4, <1>7, <1>8

\* Concatenation with nothing.
LEMMA EmptyBehind ==
  ASSUME NEW s, IsSlice(s) PROVE s \o <<>> = s
BY DEF IsSlice

-----------------------------------------------------------------------------
\* The runtime mangles a type that mentions no other by name as the plan does.
LEMMA PlainIsMangled ==
  ASSUME NEW r, NEW t, PlainMangles(t)
  PROVE  Mangled(r, t) = PlainMangled(t)
<1> DEFINE Node(u, parts) ==
             CASE u.kind = "ref" -> TypeName(r, u.name)
               [] u.kind = "instance" -> ErasedName(r, u.name) \o FlattenSeq(parts)
               [] OTHER -> Fragment(u, parts)
           S == Subterms(t)
           leaves == [u \in S |-> Node(u, <<>>)]
           up(f) == [u \in S |-> Node(u, [i \in DOMAIN u.parts |-> f[u.parts[i]]])]
           plain == [u \in S |-> Fragment(u, <<>>)]
           plainUp(f) == [u \in S |-> Fragment(u, [i \in DOMAIN u.parts |-> f[u.parts[i]]])]
<1>1. \A u \in S : \A parts : Node(u, parts) = Fragment(u, parts)
  BY DEF PlainMangles
<1>2. Mangled(r, t) = up(up(up(leaves)))[t]
  BY DEF Mangled, Walked, Nested
<1>3. PlainMangled(t) = plainUp(plainUp(plainUp(plain)))[t]
  BY DEF PlainMangled, Walked, Nested
<1> HIDE DEF S, Node
<1>4. leaves = plain
  BY <1>1
<1>5. \A f : up(f) = plainUp(f)
  BY <1>1
<1> HIDE DEF up, plainUp, leaves, plain
<1> QED BY <1>2, <1>3, <1>4, <1>5

\* ... and so does it with the name of an instantiation.
LEMMA PlainNameIsName ==
  ASSUME NEW r, NEW name, NEW args, \A t \in ToSet(args) : PlainMangles(t)
  PROVE  FnInstanceName(r, name, args) = PlainName(name, args)
<1>1. \A i \in DOMAIN args : Mangled(r, args[i]) = PlainMangled(args[i])
  BY PlainIsMangled DEF ToSet
<1>2. [i \in DOMAIN args |-> Mangled(r, args[i])] = [i \in DOMAIN args |-> PlainMangled(args[i])]
  BY <1>1
<1> QED BY <1>2 DEF FnInstanceName, PlainName

-----------------------------------------------------------------------------
\* The modules of a registry and what is nested in them, level by level.
LEMMA ModulesClosed ==
  ASSUME NEW r, IsRegistry(r), NEW m \in ModulesUnder(r.modules)
  PROVE  IsModule(m) /\ ToSet(m.submodules) \subseteq ModulesUnder(r.modules)
<1> DEFINE down(S) == S \cup UNION {ToSet(n.submodules) : n \in S}
           under(S) == down(down(down(S)))
<1>1. \A s : ModulesUnder(s) = under(ToSet(s))
  BY DEF ModulesUnder, Nested
<1>2. \A root : ToSet(<<root>>) = {root}
  BY SmallSlices
<1>3. \A S : under(S) = UNION {under({root}) : root \in S}
  <2>1. \A S, T : S \subseteq T => down(S) \subseteq down(T)
    OBVIOUS
  <2>2. \A S : down(S) = UNION {down({x}) : x \in S}
    OBVIOUS
  <2>3. ASSUME NEW S PROVE down(down(S)) = UNION {down(down({x})) : x \in S}
    OBVIOUS
  <2> QED
    OBVIOUS
<1> HIDE DEF under
<1>4. PICK root \in ToSet(r.modules) : m \in under({root})
  BY <1>1, <1>3
<1>5. IsModuleTree(root) /\ under({root}) = ModulesUnder(<<root>>)
  BY <1>1, <1>2 DEF IsRegistry
<1>6. IsModule(m) /\ ToSet(m.submodules) \subseteq under({root})
  BY <1>4, <1>5 DEF IsModuleTree
<1>7. under({root}) \subseteq under(ToSet(r.modules))
  <2> DEFINE S == ToSet(r.modules)
  <2>1. under(S) = UNION {under({x}) : x \in S} /\ root \in S
    BY <1>3
  <2> QED BY <2>1
<1> QED BY <1>1, <1>6, <1>7

\* The modules themselves are under them.
LEMMA TopModules == ASSUME NEW s PROVE ToSet(s) \subseteq ModulesUnder(s)
BY DEF ModulesUnder, Nested

\* A path leads from a module of the registry to one nested in it.
ArePaths(paths, all) ==
  IsSlice(paths) /\ \A p \in ToSet(paths) : IsSlice(p) /\ p # <<>> /\ ToSet(p) \subseteq all

\* The interfaces of modules are named by paths through the registry.
LEMMA PathsOf ==
  ASSUME NEW r, IsRegistry(r)
  PROVE  ArePaths(ModulePaths(r), ModulesUnder(r.modules))
<1> DEFINE all == ModulesUnder(r.modules)
           nested(m, under) == FlattenSeq([i \in DOMAIN m.submodules |-> under[m.submodules[i]]])
           up(under) == [m \in all |-> <<<<m>>>> \o [i \in DOMAIN nested(m, under) |->
                                                        <<m>> \o nested(m, under)[i]]]
           start == [m \in all |-> <<<<m>>>>]
           top(under) == [i \in DOMAIN r.modules |-> under[r.modules[i]]]
           Good(under) == \A m \in all : ArePaths(under[m], all)
<1>1. ModulePaths(r) = FlattenSeq(top(up(up(up(start)))))
  BY DEF ModulePaths, Nested
<1>2. Good(start)
  <2> SUFFICES ASSUME NEW m \in all PROVE ArePaths(<<<<m>>>>, all)
    OBVIOUS
  <2>1. IsSlice(<<<<m>>>>) /\ ToSet(<<<<m>>>>) = {<<m>>}
    BY SmallSlices
  <2>2. IsSlice(<<m>>) /\ ToSet(<<m>>) = {m} /\ <<m>> # <<>>
    BY SmallSlices
  <2> HIDE DEF all
  <2> QED BY <2>1, <2>2 DEF ArePaths
<1>3. ASSUME NEW under, Good(under), NEW s, IsSlice(s), ToSet(s) \subseteq all
      PROVE  ArePaths(FlattenSeq([i \in DOMAIN s |-> under[s[i]]]), all)
  <2> DEFINE ss == [i \in DOMAIN s |-> under[s[i]]]
  <2>1. \A i \in DOMAIN s : ArePaths(ss[i], all)
    BY <1>3 DEF ToSet
  <2>2. IsSlice(ss) /\ DOMAIN ss = DOMAIN s
    BY <1>3, MappedSlice
  <2> HIDE DEF ss, all
  <2>3. IsSlice(FlattenSeq(ss)) /\ ToSet(FlattenSeq(ss)) = UNION {ToSet(ss[i]) : i \in DOMAIN ss}
    BY <2>1, <2>2, FlattenSlices DEF ArePaths
  <2>4. ArePaths(FlattenSeq(ss), all)
    BY <2>1, <2>2, <2>3 DEF ArePaths
  <2> QED BY <2>4 DEF ss
<1>4. ASSUME NEW under, Good(under) PROVE Good(up(under))
  <2> SUFFICES ASSUME NEW m \in all PROVE ArePaths(up(under)[m], all)
    OBVIOUS
  <2> DEFINE inner == nested(m, under)
             deeper == [i \in DOMAIN inner |-> <<m>> \o inner[i]]
  <2>1. IsSlice(m.submodules) /\ ToSet(m.submodules) \subseteq all
    BY ModulesClosed DEF IsModule
  <2>2. ArePaths(inner, all)
    BY <2>1, <1>4, <1>3
  <2>3. up(under)[m] = <<<<m>>>> \o deeper
    OBVIOUS
  <2> HIDE DEF inner, all
  <2>4. IsSlice(deeper) /\ DOMAIN deeper = DOMAIN inner /\ ToSet(deeper) = {deeper[i] : i \in DOMAIN inner}
    BY <2>2, MappedSlice DEF ArePaths
  <2>5. ASSUME NEW i \in DOMAIN inner
        PROVE  IsSlice(deeper[i]) /\ deeper[i] # <<>> /\ ToSet(deeper[i]) \subseteq all
    <3>1. IsSlice(inner[i]) /\ ToSet(inner[i]) \subseteq all
      BY <2>2 DEF ArePaths, ToSet
    <3>2. IsSlice(<<m>>) /\ ToSet(<<m>>) = {m}
      BY SmallSlices
    <3>3. IsSlice(<<m>> \o inner[i]) /\ ToSet(<<m>> \o inner[i]) = {m} \cup ToSet(inner[i])
      BY <3>1, <3>2, ConcatSlices
    <3>4. ToSet(<<>>) = {}
      BY SmallSlices
    <3> QED BY <3>1, <3>3, <3>4
  <2>6. ArePaths(deeper, all)
    BY <2>4, <2>5 DEF ArePaths
  <2>7. ArePaths(<<<<m>>>>, all)
    <3>1. IsSlice(<<<<m>>>>) /\ ToSet(<<<<m>>>>) = {<<m>>}
      BY SmallSlices
    <3>2. IsSlice(<<m>>) /\ ToSet(<<m>>) = {m} /\ <<m>> # <<>>
      BY SmallSlices
    <3> QED BY <3>1, <3>2 DEF ArePaths
  <2> HIDE DEF deeper
  <2>8. ArePaths(<<<<m>>>> \o deeper, all)
    BY <2>6, <2>7, ConcatSlices DEF ArePaths
  <2> QED BY <2>3, <2>8
<1>5. IsSlice(r.modules) /\ ToSet(r.modules) \subseteq all
  BY TopModules DEF IsRegistry
<1> HIDE DEF Good, up, start, all
<1>6. Good(up(up(up(start))))
  BY <1>2, <1>4
<1> QED BY <1>1, <1>3, <1>5, <1>6 DEF all

-----------------------------------------------------------------------------
\* The slices a plan is made of.
LEMMA KeptIn ==
  ASSUME NEW s, IsSlice(s), NEW P
  PROVE  IsSlice(Kept(s, P)) /\ ToSet(Kept(s, P)) \subseteq ToSet(s)
BY KeptSlice DEF ToSet

\* Each planned instance stands for an instantiation of the registry.
LEMMA InstancesOf ==
  ASSUME NEW r, IsRegistry(r)
  PROVE  /\ IsSlice(PlannedInstances(r))
         /\ \A p \in ToSet(PlannedInstances(r)) :
              \E inst \in ToSet(r.insts) :
                p = [id |-> inst.id, args |-> inst.args, name |-> InstanceName(r, inst.id, inst.args)]
<1> DEFINE all == [i \in DOMAIN r.insts |->
                     [id |-> r.insts[i].id, args |-> r.insts[i].args,
                      name |-> InstanceName(r, r.insts[i].id, r.insts[i].args)]]
           new == {i \in DOMAIN all : \A j \in 1..(i - 1) : all[j].name # all[i].name}
<1>1. PlannedInstances(r) = Kept(all, new)
  BY DEF PlannedInstances
<1>2. IsSlice(r.insts)
  BY DEF IsRegistry
<1>3. IsSlice(all) /\ ToSet(all) = {all[i] : i \in DOMAIN r.insts}
  <2>1. DOMAIN all = DOMAIN r.insts /\ all = [i \in DOMAIN all |-> all[i]]
    OBVIOUS
  <2> HIDE DEF all
  <2> QED BY <1>2, <2>1, MappedSlice
<1>4. \A i \in DOMAIN r.insts : r.insts[i] \in ToSet(r.insts)
  BY DEF ToSet
<1> HIDE DEF new
<1>5. IsSlice(Kept(all, new)) /\ ToSet(Kept(all, new)) \subseteq ToSet(all)
  <2> HIDE DEF all
  <2> QED BY <1>3, KeptIn
<1> QED BY <1>1, <1>3, <1>4, <1>5

\* What an interface of the program consists of.
IsProvided(iface, r) ==
  /\ AreFunctions(iface.functions) /\ IsSlice(iface.fnInsts)
  /\ IsSlice(iface.constants) /\ IsSlice(iface.types) /\ IsSlice(iface.instances)
  /\ iface.instance = <<>>

\* The interface of unclaimed types, ...
LEMMA DefaultProvided ==
  ASSUME NEW r, IsRegistry(r), NEW paths, NEW planned, IsSlice(planned)
  PROVE  LET iface == DefaultPlanned(r, paths, planned)
         IN  IsProvided(iface, r) /\ iface.direction = "provided"
<1> DEFINE values == ValueTypes(r)
           ids == [i \in DOMAIN values |-> values[i].id]
           types == OwnTypes(r, paths, ids, 1)
           instances == OwnInstances(r, paths, planned, 1)
           base == Interface(Spelling[DefaultInterface], "provided")
<1>1. IsSlice(values)
  BY ConcatSlices DEF ValueTypes, IsRegistry
<1>2. IsSlice(ids)
  <2> HIDE DEF values
  <2> QED BY <1>1, MappedSlice
<1>3. IsSlice(types) /\ IsSlice(instances)
  <2> HIDE DEF ids
  <2> QED BY <1>2, KeptSlice DEF OwnTypes, OwnInstances
<1>4. DefaultPlanned(r, paths, planned) = [base EXCEPT !.types = types, !.instances = instances]
  BY DEF DefaultPlanned
<1>5. base = [entry |-> Entry(Spelling[DefaultInterface]), name |-> ToKebab(Spelling[DefaultInterface]),
              direction |-> "provided",
              functions |-> <<>>, fnInsts |-> <<>>, constants |-> <<>>, types |-> <<>>,
              instances |-> <<>>, instance |-> <<>>]
  BY DEF Interface
<1>6. IsSlice(<<>>) /\ ToSet(<<>>) = {}
  BY SmallSlices
<1> HIDE DEF types, instances, base
<1> QED BY <1>3, <1>4, <1>5, <1>6 DEF IsProvided, AreFunctions

\* ... and that of a module, are built from slices.
LEMMA ModuleProvided ==
  ASSUME NEW r, IsRegistry(r), NEW paths, ArePaths(paths, ModulesUnder(r.modules)),
         NEW planned, IsSlice(planned), NEW i \in DOMAIN paths
  PROVE  LET iface == ModulePlanned(r, paths, planned, i)
         IN  IsProvided(iface, r) /\ iface.direction = "provided"
<1> DEFINE m == Last(paths[i])
           types == OwnTypes(r, paths, m.types, i + 1)
           instances == OwnInstances(r, paths, planned, i + 1)
           base == Interface(PathText(paths[i]), "provided")
<1>1. paths[i] \in ToSet(paths)
  BY DEF ToSet
<1>2. m \in ModulesUnder(r.modules)
  BY <1>1, LastIn DEF ArePaths
<1>3. IsModule(m)
  BY <1>2, ModulesClosed
<1> HIDE DEF m
<1>4. IsSlice(types) /\ IsSlice(instances)
  BY <1>3, KeptSlice DEF OwnTypes, OwnInstances, IsModule
<1>5. ModulePlanned(r, paths, planned, i)
        = [base EXCEPT !.functions = m.functions, !.fnInsts = m.fnInsts, !.constants = m.constants,
                       !.types = types, !.instances = instances]
  BY DEF ModulePlanned, m
<1>6. base = [entry |-> Entry(PathText(paths[i])), name |-> ToKebab(PathText(paths[i])),
              direction |-> "provided",
              functions |-> <<>>, fnInsts |-> <<>>, constants |-> <<>>, types |-> <<>>,
              instances |-> <<>>, instance |-> <<>>]
  BY DEF Interface
<1> HIDE DEF types, instances, base
<1> QED BY <1>3, <1>4, <1>5, <1>6 DEF IsProvided, IsModule, AreNamed

\* The interfaces of a plan: that of unclaimed types, those of modules, those
\* of foreign interfaces and those of their instances.
LEMMA InterfacesOf ==
  ASSUME NEW r, IsRegistry(r)
  PROVE  LET paths == ModulePaths(r)
             planned == PlannedInstances(r)
         IN  ToSet(PlanOf(r).interfaces)
               = {DefaultPlanned(r, paths, planned)}
                 \cup {ModulePlanned(r, paths, planned, i) : i \in DOMAIN paths}
                 \cup {ForeignPlanned(f) : f \in {g \in ToSet(r.foreigns) : g.generics = <<>>}}
                 \cup {InstancePlanned(r, p) : p \in {q \in ToSet(planned) : q.id \in GenericForeigns(r)}}
<1> DEFINE paths == ModulePaths(r)
           planned == PlannedInstances(r)
           plainAt == {i \in DOMAIN r.foreigns : r.foreigns[i].generics = <<>>}
           plain == Kept(r.foreigns, plainAt)
           monoAt == {i \in DOMAIN planned : planned[i].id \in GenericForeigns(r)}
           mono == Kept(planned, monoAt)
           first == <<DefaultPlanned(r, paths, planned)>>
           ofModules == [i \in DOMAIN paths |-> ModulePlanned(r, paths, planned, i)]
           ofForeigns == [i \in DOMAIN plain |-> ForeignPlanned(plain[i])]
           ofInstances == [i \in DOMAIN mono |-> InstancePlanned(r, mono[i])]
           all == first \o ofModules \o ofForeigns \o ofInstances
<1>1. PlanOf(r).interfaces = all
  BY DEF PlanOf, Planned, PlannedInterfaces
<1>2. IsSlice(paths) /\ IsSlice(planned) /\ IsSlice(r.foreigns)
  BY PathsOf, InstancesOf DEF ArePaths, IsRegistry
<1> HIDE DEF paths, planned
<1>3. IsSlice(plain) /\ ToSet(plain) = {f \in ToSet(r.foreigns) : f.generics = <<>>}
  <2>1. IsSlice(plain) /\ ToSet(plain) = {r.foreigns[i] : i \in DOMAIN r.foreigns \cap plainAt}
    <3> HIDE DEF plainAt
    <3> QED BY <1>2, KeptSlice
  <2> HIDE DEF plain
  <2> QED BY <2>1 DEF ToSet
<1>4. IsSlice(mono) /\ ToSet(mono) = {p \in ToSet(planned) : p.id \in GenericForeigns(r)}
  <2>1. IsSlice(mono) /\ ToSet(mono) = {planned[i] : i \in DOMAIN planned \cap monoAt}
    <3> HIDE DEF monoAt
    <3> QED BY <1>2, KeptSlice
  <2> HIDE DEF mono
  <2> QED BY <2>1 DEF ToSet
<1> HIDE DEF plain, mono
<1>5. IsSlice(first) /\ ToSet(first) = {DefaultPlanned(r, paths, planned)}
  BY SmallSlices
<1>6. IsSlice(ofModules) /\ ToSet(ofModules) = {ModulePlanned(r, paths, planned, i) : i \in DOMAIN paths}
  BY <1>2, MappedSlice
<1>7. IsSlice(ofForeigns) /\ ToSet(ofForeigns) = {ForeignPlanned(f) : f \in ToSet(plain)}
  <2>1. IsSlice(ofForeigns) /\ ToSet(ofForeigns) = {ForeignPlanned(plain[i]) : i \in DOMAIN plain}
    BY <1>3, MappedSlice
  <2> QED BY <2>1 DEF ToSet
<1>8. IsSlice(ofInstances) /\ ToSet(ofInstances) = {InstancePlanned(r, p) : p \in ToSet(mono)}
  <2>1. IsSlice(ofInstances) /\ ToSet(ofInstances) = {InstancePlanned(r, mono[i]) : i \in DOMAIN mono}
    BY <1>4, MappedSlice
  <2> QED BY <2>1 DEF ToSet
<1> HIDE DEF first, ofModules, ofForeigns, ofInstances
<1>9. ToSet(all) = ToSet(first) \cup ToSet(ofModules) \cup ToSet(ofForeigns) \cup ToSet(ofInstances)
  <2>1. IsSlice(first \o ofModules) /\ ToSet(first \o ofModules) = ToSet(first) \cup ToSet(ofModules)
    BY <1>5, <1>6, ConcatSlices
  <2>2. /\ IsSlice(first \o ofModules \o ofForeigns)
        /\ ToSet(first \o ofModules \o ofForeigns) = ToSet(first) \cup ToSet(ofModules) \cup ToSet(ofForeigns)
    BY <2>1, <1>7, ConcatSlices
  <2> QED BY <2>2, <1>8, ConcatSlices
<1> HIDE DEF all
<1> QED BY <1>1, <1>3, <1>4, <1>5, <1>6, <1>7, <1>8, <1>9 DEF paths, planned

\* So is every interface that the program provides.
LEMMA ProvidedInterfaces ==
  ASSUME NEW r, IsRegistry(r), NEW k \in DOMAIN PlanOf(r).interfaces,
         PlanOf(r).interfaces[k].direction = "provided"
  PROVE  IsProvided(PlanOf(r).interfaces[k], r)
<1> DEFINE iface == PlanOf(r).interfaces[k]
           paths == ModulePaths(r)
           planned == PlannedInstances(r)
<1>1. ArePaths(paths, ModulesUnder(r.modules)) /\ IsSlice(planned)
  BY PathsOf, InstancesOf
<1>2. \A f : ForeignPlanned(f).direction = "foreign"
  BY DEF ForeignPlanned, Interface
<1>3. \A p : InstancePlanned(r, p).direction = "foreign"
  BY DEF InstancePlanned, Interface
<1>4. \/ iface = DefaultPlanned(r, paths, planned)
      \/ \E i \in DOMAIN paths : iface = ModulePlanned(r, paths, planned, i)
  <2>1. iface \in ToSet(PlanOf(r).interfaces)
    BY DEF ToSet
  <2> HIDE DEF iface, paths, planned
  <2>2. iface.direction = "provided"
    BY DEF iface
  <2> QED BY <1>2, <1>3, <2>1, <2>2, InterfacesOf DEF paths, planned
<1> HIDE DEF paths, planned
<1> QED BY <1>1, <1>4, DefaultProvided, ModuleProvided

-----------------------------------------------------------------------------
\* Ids are unique: a struct, an enum and an alias are three things.
LEMMA IdsApart ==
  ASSUME NEW r, IsRegistry(r), UniqueTypes(r)
  PROVE  /\ Ids(r.structs) \cap Ids(r.enums) = {}
         /\ Ids(r.structs) \cap Ids(r.aliases) = {}
         /\ Ids(r.enums) \cap Ids(r.aliases) = {}
         /\ Ids(r.foreigns) \cap Ids(ValueTypes(r)) = {}
         /\ Ids(ValueTypes(r)) = Ids(r.structs) \cup Ids(r.enums) \cup Ids(r.aliases)
<1> DEFINE s == [i \in DOMAIN r.structs |-> r.structs[i].id]
           e == [i \in DOMAIN r.enums |-> r.enums[i].id]
           a == [i \in DOMAIN r.aliases |-> r.aliases[i].id]
           f == [i \in DOMAIN r.foreigns |-> r.foreigns[i].id]
<1>1. NoRepeats(((s \o e) \o a) \o f)
  BY DEF UniqueTypes
<1>2. /\ Ids(r.structs) = ToSet(s) /\ Ids(r.enums) = ToSet(e) /\ Ids(r.aliases) = ToSet(a)
      /\ Ids(r.foreigns) = ToSet(f)
  BY DEF Ids, ToSet
<1>3. IsSlice(s) /\ IsSlice(e) /\ IsSlice(a) /\ IsSlice(f)
  BY MappedSlice DEF IsRegistry
<1> HIDE DEF s, e, a, f
<1>4. ASSUME NEW x, NEW y, IsSlice(x), IsSlice(y), NoRepeats(x \o y)
      PROVE  NoRepeats(x) /\ ToSet(x) \cap ToSet(y) = {}
  <2> DEFINE T == ToSet(x) \cup ToSet(y)
  <2>1. x \in Seq(T) /\ y \in Seq(T)
    BY <1>4, SliceIn
  <2>2. /\ \A i \in DOMAIN x : i \in DOMAIN (x \o y) /\ (x \o y)[i] = x[i]
        /\ \A i \in DOMAIN y : Len(x) + i \in DOMAIN (x \o y) /\ (x \o y)[Len(x) + i] = y[i]
        /\ \A i \in DOMAIN x : i <= Len(x) /\ i \in Nat
        /\ \A i \in DOMAIN y : i > 0 /\ i \in Nat
    <3> HIDE DEF T
    <3> QED BY <2>1
  <2>3. NoRepeats(x)
    BY <1>4, <2>2 DEF NoRepeats
  <2>4. ASSUME NEW i \in DOMAIN x, NEW j \in DOMAIN y, x[i] = y[j] PROVE FALSE
    <3>1. i = Len(x) + j
      BY <1>4, <2>2, <2>4 DEF NoRepeats
    <3>2. Len(x) \in Nat
      BY <1>4, SliceParts
    <3> QED BY <2>2, <3>1, <3>2
  <2> QED BY <2>3, <2>4 DEF ToSet
<1>5. IsSlice(s \o e) /\ ToSet(s \o e) = ToSet(s) \cup ToSet(e)
  BY <1>3, ConcatSlices
<1>6. IsSlice((s \o e) \o a) /\ ToSet((s \o e) \o a) = ToSet(s) \cup ToSet(e) \cup ToSet(a)
  BY <1>3, <1>5, ConcatSlices
<1>7. NoRepeats((s \o e) \o a) /\ ToSet((s \o e) \o a) \cap ToSet(f) = {}
  BY <1>1, <1>3, <1>4, <1>6
<1>8. NoRepeats(s \o e) /\ ToSet(s \o e) \cap ToSet(a) = {}
  BY <1>3, <1>4, <1>5, <1>7
<1>9. ToSet(s) \cap ToSet(e) = {}
  BY <1>3, <1>4, <1>8
<1>10. Ids(ValueTypes(r)) = Ids(r.structs) \cup Ids(r.enums) \cup Ids(r.aliases)
  <2>1. /\ IsSlice(r.structs \o r.enums)
        /\ ToSet(r.structs \o r.enums) = ToSet(r.structs) \cup ToSet(r.enums)
    BY ConcatSlices DEF IsRegistry
  <2>2. ToSet(ValueTypes(r)) = ToSet(r.structs) \cup ToSet(r.enums) \cup ToSet(r.aliases)
    BY <2>1, ConcatSlices DEF IsRegistry, ValueTypes
  <2> QED BY <2>2, IdsOf
<1> QED BY <1>2, <1>5, <1>6, <1>7, <1>8, <1>9, <1>10

\* A type found by its id, among all types and among those of its sort.
LEMMA ValueTypeOf ==
  ASSUME NEW r, IsRegistry(r), UniqueTypes(r)
  PROVE  /\ \A id \in Ids(r.structs) :
              /\ WithId(ValueTypes(r), id) = WithId(r.structs, id)
              /\ WithId(r.structs \o r.enums, id) = WithId(r.structs, id)
              /\ IsStruct(WithId(r.structs, id)) /\ id \notin Ids(r.aliases) \cup Ids(r.enums)
         /\ \A id \in Ids(r.enums) :
              /\ WithId(ValueTypes(r), id) = WithId(r.structs \o r.enums, id)
              /\ IsEnum(WithId(ValueTypes(r), id)) /\ id \notin Ids(r.aliases) \cup Ids(r.structs)
<1> DEFINE both == r.structs \o r.enums
<1>1. IsSlice(r.structs) /\ IsSlice(r.enums) /\ IsSlice(r.aliases)
  BY DEF IsRegistry
<1>2. IsSlice(both) /\ ToSet(both) = ToSet(r.structs) \cup ToSet(r.enums)
  BY <1>1, ConcatSlices
<1>3. Ids(both) = Ids(r.structs) \cup Ids(r.enums)
  BY <1>2, IdsOf
<1>4. ValueTypes(r) = both \o r.aliases
  BY DEF ValueTypes
<1>5. \A id \in Ids(r.structs) : WithId(both, id) = WithId(r.structs, id)
  BY <1>1, WithIdInFront
<1> HIDE DEF both
<1>6. \A id \in Ids(both) : WithId(ValueTypes(r), id) = WithId(both, id)
  BY <1>1, <1>2, <1>4, WithIdInFront
<1>7. ASSUME NEW id \in Ids(r.structs) PROVE IsStruct(WithId(r.structs, id))
  BY <1>1, WithIdIn DEF IsRegistry
<1>8. ASSUME NEW id \in Ids(r.enums) PROVE IsEnum(WithId(both, id))
  <2>1. WithId(both, id) \in ToSet(both) /\ WithId(both, id).id = id
    BY <1>2, <1>3, WithIdIn
  <2>2. id \notin Ids(r.structs)
    BY IdsApart
  <2>3. WithId(both, id) \notin ToSet(r.structs)
    BY <2>1, <2>2, IdsOf
  <2> QED BY <1>2, <2>1, <2>3 DEF IsRegistry
<1> QED BY <1>3, <1>5, <1>6, <1>7, <1>8, IdsApart DEF both

\* The instantiations of a function are its own and its module's.
LEMMA InstantiationsAre ==
  ASSUME NEW f, IsSlice(f.insts), NEW fnInsts, IsSlice(fnInsts)
  PROVE  /\ IsSlice(InstantiationsOf(f, fnInsts))
         /\ ToSet(InstantiationsOf(f, fnInsts))
              \subseteq ToSet(f.insts) \cup {i.args : i \in {j \in ToSet(fnInsts) : j.function = f.name}}
<1> DEFINE named == {i \in DOMAIN fnInsts : fnInsts[i].function = f.name}
           ofModule == Kept(fnInsts, named)
           args == [i \in DOMAIN ofModule |-> ofModule[i].args]
           all == f.insts \o args
           new == {i \in DOMAIN all : \A j \in 1..(i - 1) : all[j] # all[i]}
<1>1. IsSlice(ofModule) /\ ToSet(ofModule) = {fnInsts[i] : i \in DOMAIN fnInsts \cap named}
  <2> HIDE DEF named
  <2> QED BY KeptSlice
<1>2. \A i \in DOMAIN ofModule : ofModule[i] \in ToSet(ofModule)
  BY DEF ToSet
<1>3. \A i \in DOMAIN fnInsts \cap named : fnInsts[i] \in ToSet(fnInsts) /\ fnInsts[i].function = f.name
  BY DEF ToSet
<1> HIDE DEF ofModule, named
<1>4. IsSlice(args) /\ ToSet(args) = {ofModule[i].args : i \in DOMAIN ofModule}
  BY <1>1, MappedSlice
<1>5. ToSet(args) \subseteq {i.args : i \in {j \in ToSet(fnInsts) : j.function = f.name}}
  BY <1>1, <1>2, <1>3, <1>4
<1> HIDE DEF args
<1>6. IsSlice(all) /\ ToSet(all) = ToSet(f.insts) \cup ToSet(args)
  BY <1>4, ConcatSlices
<1>7. InstantiationsOf(f, fnInsts) = Kept(all, new)
  BY DEF InstantiationsOf, Where, args, ofModule, named
<1> HIDE DEF all, new
<1>8. IsSlice(Kept(all, new)) /\ ToSet(Kept(all, new)) \subseteq ToSet(all)
  BY <1>6, KeptIn
<1> QED BY <1>5, <1>6, <1>7, <1>8

\* Of entries with the same key the first one is kept.
LEMMA FirstKept ==
  ASSUME NEW s, IsSlice(s), NEW key, NEW i \in DOMAIN s
  PROVE  \E j \in {x \in DOMAIN s : \A y \in 1..(x - 1) : key[y] # key[x]} : key[j] = key[i]
<1> DEFINE Same == {j \in DOMAIN s : key[j] = key[i]}
<1>1. DOMAIN s = 1..Len(s) /\ Len(s) \in Nat
  BY SliceParts
<1>2. Same \in SUBSET Nat /\ i \in Same
  BY <1>1
<1>3. PICK j \in Same : \A y \in Same : j <= y
  <2> HIDE DEF Same
  <2> QED BY <1>2, LeastOf
<1>4. \A y \in 1..(j - 1) : key[y] # key[j]
  BY <1>1, <1>3
<1> QED BY <1>3, <1>4

\* A function of a foreign interface has no instantiations of a module, ...
LEMMA OwnInstantiations ==
  ASSUME NEW f, IsSlice(f.insts)
  PROVE  ToSet(InstantiationsOf(f, <<>>)) = ToSet(f.insts)
<1> DEFINE named == {i \in DOMAIN <<>> : <<>>[i].function = f.name}
           ofModule == Kept(<<>>, named)
           args == [i \in DOMAIN ofModule |-> ofModule[i].args]
           all == f.insts \o args
           new == {i \in DOMAIN all : \A j \in 1..(i - 1) : all[j] # all[i]}
<1>1. IsSlice(ofModule) /\ ToSet(ofModule) = {}
  <2> HIDE DEF named
  <2>1. IsSlice(ofModule) /\ ToSet(ofModule) = {<<>>[i] : i \in DOMAIN <<>> \cap named}
    BY KeptSlice, SmallSlices
  <2> QED BY <2>1
<1> HIDE DEF ofModule
<1>2. DOMAIN ofModule = {} /\ Len(ofModule) = 0
  BY <1>1, SliceParts DEF ToSet
<1>3. args = <<>>
  <2>1. args = [i \in {} |-> ofModule[i].args] /\ DOMAIN <<>> = {} /\ <<>> = [i \in {} |-> ofModule[i].args]
    BY <1>2
  <2> QED BY <2>1
<1>4. InstantiationsOf(f, <<>>) = Kept(all, new)
  BY DEF InstantiationsOf, Where, ofModule
<1>5. all = f.insts
  BY <1>3, EmptyBehind
<1>6. ToSet(Kept(all, new)) = {all[i] : i \in DOMAIN all \cap new}
  <2> HIDE DEF new, all
  <2> QED BY <1>5, KeptSlice
<1>7. \A i \in DOMAIN all : \E j \in new : all[j] = all[i]
  <2> HIDE DEF all
  <2> QED BY <1>5, FirstKept
<1>8. {all[i] : i \in DOMAIN all \cap new} = {all[i] : i \in DOMAIN all}
  <2>1. new \subseteq DOMAIN all
    OBVIOUS
  <2> HIDE DEF new, all
  <2> QED BY <1>7, <2>1
<1> QED BY <1>4, <1>5, <1>6, <1>8 DEF ToSet

\* An interface of foreign functions, of a generic foreign interface or not.
IsForeignIface(iface, fns) ==
  /\ iface.direction = "foreign" /\ iface.functions = fns /\ iface.fnInsts = <<>>
  /\ iface.types = <<>> /\ iface.instances = <<>> /\ iface.constants = <<>>

-----------------------------------------------------------------------------
\* A set that is closed under parts has the subterms of its members.
LEMMA SubtermsIn ==
  ASSUME NEW C, \A x \in C : ToSet(x.parts) \subseteq C, NEW t \in C
  PROVE  Subterms(t) \subseteq C
<1> DEFINE down(S) == S \cup UNION {ToSet(s.parts) : s \in S}
<1>1. \A S : S \subseteq C => down(S) \subseteq C
  OBVIOUS
<1>2. Subterms(t) = down(down(down({t})))
  BY DEF Subterms, Nested
<1> HIDE DEF down
<1> QED BY <1>1, <1>2

\* What is mentioned by name is mentioned in one of the types.
LEMMA NamedAreRefs ==
  ASSUME NEW T, NEW u \in NamedIn(T)
  PROVE  \E t \in T : u.name \in RefsOf(t)
<1> DEFINE named(v) == v.kind \in {"instance", "ref"}
           inside(S) == S \cup UNION {ToSet(v.parts) : v \in {w \in S : ~named(w)}}
           down(S) == S \cup UNION {ToSet(s.parts) : s \in S}
<1>1. \A S, F : (\A v \in S : \E t \in T : v \in F[t])
                => \A v \in inside(S) : \E t \in T : v \in down(F[t])
  <2> SUFFICES ASSUME NEW S, NEW F, \A v \in S : \E t \in T : v \in F[t], NEW v \in inside(S)
               PROVE  \E t \in T : v \in down(F[t])
    OBVIOUS
  <2>1. CASE v \in S
    BY <2>1
  <2>2. ASSUME NEW w \in S, v \in ToSet(w.parts) PROVE \E t \in T : v \in down(F[t])
    BY <2>2
  <2> QED BY <2>1, <2>2
<1> DEFINE F0 == [t \in T |-> {t}]
           F1 == [t \in T |-> down(F0[t])]
           F2 == [t \in T |-> down(F1[t])]
<1>2. NamedIn(T) = {v \in inside(inside(inside(T))) : named(v)}
  BY DEF NamedIn, Nested
<1>3. \A t \in T : Subterms(t) = down(down(down({t})))
  BY DEF Subterms, Nested
<1>4. \A v \in T : \E t \in T : v \in F0[t]
  OBVIOUS
<1> HIDE DEF inside, down
<1>5. \A t \in T : down(F2[t]) = Subterms(t)
  BY <1>3
<1> HIDE DEF F0
<1>6. \A v \in inside(T) : \E t \in T : v \in F1[t]
  <2>1. \A v \in inside(T) : \E t \in T : v \in down(F0[t])
    BY <1>1, <1>4
  <2> QED BY <2>1
<1> HIDE DEF F1
<1>7. \A v \in inside(inside(T)) : \E t \in T : v \in F2[t]
  <2>1. \A v \in inside(inside(T)) : \E t \in T : v \in down(F1[t])
    BY <1>1, <1>6
  <2> QED BY <2>1
<1> HIDE DEF F2
<1>8. \A v \in inside(inside(inside(T))) : \E t \in T : v \in down(F2[t])
  BY <1>1, <1>7
<1>9. u \in inside(inside(inside(T))) /\ named(u)
  BY <1>2
<1>10. PICK t \in T : u \in Subterms(t)
  BY <1>5, <1>8, <1>9
<1> QED BY <1>9, <1>10 DEF RefsOf

\* Types that are written in `known` only, ...
Closed(t, known) == IsType(t) /\ RefsOf(t) \subseteq known

\* ... and an environment that binds as many types as it has parameters.
AreArgs(args, params, known) ==
  IsSlice(args) /\ Len(args) = Len(params) /\ \A a \in ToSet(args) : Closed(a, known)

IsEnv(env, known) ==
  /\ {"params", "args"} \subseteq DOMAIN env
  /\ IsSlice(env.params) /\ AreArgs(env.args, env.params, known)

\* Substitution mentions nothing that the type and the arguments do not.
LEMMA SubstitutedRefs ==
  ASSUME NEW known, NEW t, Closed(t, known), NEW params, NEW args,
         IsSlice(params), DOMAIN args = DOMAIN params,
         \A i \in DOMAIN args : Closed(args[i], known)
  PROVE  RefsOf(Substituted(t, params, args)) \subseteq known
<1> DEFINE Bind(p) == CHOOSE i \in DOMAIN params :
                        params[i] = p /\ \A j \in 1..(i - 1) : params[j] # p
           Node(u, parts) == IF u.kind = "param" /\ u.name \in ToSet(params)
                             THEN args[Bind(u.name)]
                             ELSE [u EXCEPT !.parts = parts]
           S == Subterms(t)
           up(f) == [u \in S |-> Node(u, [i \in DOMAIN u.parts |-> f[u.parts[i]]])]
           f0 == [u \in S |-> Node(u, <<>>)]
           f1 == up(f0)
           f2 == up(f1)
           f3 == up(f2)
           Of(f) == {f[u] : u \in S}
           A == UNION {Subterms(args[i]) : i \in DOMAIN args}
           C == A \cup Of(f0) \cup Of(f1) \cup Of(f2) \cup Of(f3)
           Fine(x) == x.kind \in {"ref", "instance"} => x.name \in known
<1>1. Substituted(t, params, args) = f3[t]
  BY DEF Substituted, Walked, Nested
<1>2. \A p \in ToSet(params) : Bind(p) \in DOMAIN args
  <2> TAKE p \in ToSet(params)
  <2> DEFINE P == {i \in DOMAIN params : params[i] = p}
  <2>1. DOMAIN params = 1..Len(params) /\ Len(params) \in Nat
    BY SliceParts
  <2>2. P \in SUBSET Nat /\ P # {}
    BY <2>1 DEF ToSet
  <2>3. PICK i \in P : \A j \in P : i <= j
    <3> HIDE DEF P
    <3> QED BY <2>2, LeastOf
  <2>4. i \in DOMAIN params /\ params[i] = p /\ \A j \in 1..(i - 1) : params[j] # p
    BY <2>1, <2>3
  <2> QED BY <2>4
<1>3. \A i \in DOMAIN args : args[i] \in Subterms(args[i])
  BY DEF Subterms, Nested
<1>4. \A x \in A : ToSet(x.parts) \subseteq A /\ Fine(x)
  <2> SUFFICES ASSUME NEW i \in DOMAIN args, NEW x \in Subterms(args[i])
               PROVE  ToSet(x.parts) \subseteq Subterms(args[i]) /\ Fine(x)
    OBVIOUS
  <2>1. IsType(args[i]) /\ RefsOf(args[i]) \subseteq known
    BY DEF Closed
  <2> QED BY <2>1 DEF IsType, RefsOf
<1>5. \A u \in S : /\ DOMAIN u = {"kind", "name", "parts"} /\ IsSlice(u.parts)
                   /\ ToSet(u.parts) \subseteq S /\ Fine(u)
  BY DEF Closed, IsType, RefsOf
<1>6. t \in S
  BY DEF Subterms, Nested
<1>7. ASSUME NEW u \in S, NEW parts
      PROVE  \/ Node(u, parts) \in A
             \/ Node(u, parts).parts = parts /\ Fine(Node(u, parts))
  <2>1. CASE u.kind = "param" /\ u.name \in ToSet(params)
    <3>1. Node(u, parts) = args[Bind(u.name)] /\ Bind(u.name) \in DOMAIN args
      BY <1>2, <2>1
    <3> HIDE DEF Node, Bind
    <3> QED BY <1>3, <3>1
  <2>2. CASE ~(u.kind = "param" /\ u.name \in ToSet(params))
    <3>1. Node(u, parts) = [u EXCEPT !.parts = parts]
      BY <2>2
    <3>2. /\ [u EXCEPT !.parts = parts].parts = parts
          /\ [u EXCEPT !.parts = parts].kind = u.kind
          /\ [u EXCEPT !.parts = parts].name = u.name
      BY <1>5
    <3> HIDE DEF Node
    <3> QED BY <1>5, <3>1, <3>2
  <2> QED BY <2>1, <2>2
<1> HIDE DEF Node, S, A
<1>8. \A x \in Of(f0) : x \in A \/ (ToSet(x.parts) = {} /\ Fine(x))
  <2> SUFFICES ASSUME NEW u \in S PROVE f0[u] \in A \/ (ToSet(f0[u].parts) = {} /\ Fine(f0[u]))
    OBVIOUS
  <2>1. f0[u] = Node(u, <<>>)
    OBVIOUS
  <2> HIDE DEF f0, Fine
  <2> QED BY <1>7, <2>1, SmallSlices
<1>9. ASSUME NEW f, NEW x \in Of(up(f))
      PROVE  x \in A \/ (ToSet(x.parts) \subseteq Of(f) /\ Fine(x))
  <2>1. PICK u \in S : x = up(f)[u]
    OBVIOUS
  <2> DEFINE parts == [i \in DOMAIN u.parts |-> f[u.parts[i]]]
  <2>2. x = Node(u, parts)
    BY <2>1
  <2>3. ToSet(parts) \subseteq Of(f)
    BY <1>5 DEF ToSet
  <2> HIDE DEF parts, Fine
  <2> QED BY <1>7, <2>2, <2>3
<1> HIDE DEF f0, Fine
<1>10. \A x \in C : ToSet(x.parts) \subseteq C /\ Fine(x)
  <2> HIDE DEF Of, up
  <2>1. \A x \in Of(f1) : x \in A \/ (ToSet(x.parts) \subseteq Of(f0) /\ Fine(x))
    BY <1>9
  <2> HIDE DEF f1
  <2>2. \A x \in Of(f2) : x \in A \/ (ToSet(x.parts) \subseteq Of(f1) /\ Fine(x))
    BY <1>9
  <2> HIDE DEF f2
  <2>3. \A x \in Of(f3) : x \in A \/ (ToSet(x.parts) \subseteq Of(f2) /\ Fine(x))
    BY <1>9
  <2> HIDE DEF f3
  <2> QED BY <1>4, <1>8, <2>1, <2>2, <2>3
<1>11. f3[t] \in C
  <2>1. f3[t] \in Of(f3)
    BY <1>6
  <2> HIDE DEF Of, f1, f2, f3
  <2> QED BY <2>1
<1> HIDE DEF C, f1, f2, f3
<1>12. Subterms(f3[t]) \subseteq C
  BY <1>10, <1>11, SubtermsIn
<1> QED BY <1>1, <1>10, <1>12 DEF RefsOf, Fine

\* The same of what an environment binds.
LEMMA BoundRefs ==
  ASSUME NEW known, NEW types, \A t \in types : Closed(t, known), NEW env, IsEnv(env, known),
         NEW t \in Bound(types, env)
  PROVE  RefsOf(t) \subseteq known
<1>1. PICK u \in types : t = Substituted(u, env.params, env.args)
  BY DEF Bound
<1>2. IsSlice(env.params) /\ IsSlice(env.args) /\ Len(env.params) = Len(env.args)
  BY DEF IsEnv, AreArgs
<1>3. DOMAIN env.params = DOMAIN env.args
  BY <1>2, SliceParts
<1>4. \A i \in DOMAIN env.args : Closed(env.args[i], known)
  BY DEF IsEnv, AreArgs, ToSet
<1> QED BY <1>1, <1>2, <1>3, <1>4, SubstitutedRefs

\* Nothing is bound outside of generic types and functions.
LEMMA EmptyEnv == ASSUME NEW known PROVE IsEnv(NoEnv, known)
BY SmallSlices DEF IsEnv, AreArgs, NoEnv

\* A function's own parameters are bound behind those of its owner.
LEMMA FnEnvIsEnv ==
  ASSUME NEW known, NEW env, IsEnv(env, known), NEW f, IsSlice(f.generics),
         NEW args, AreArgs(args, f.generics, known)
  PROVE  IsEnv(FnEnv(f, args, env), known)
<1> DEFINE both == env.args \o args
           params == env.params \o f.generics
           new == FnEnv(f, args, env)
<1>1. new.params = params /\ new.args = both /\ DOMAIN new = DOMAIN env
  BY DEF FnEnv, IsEnv
<1>2. IsSlice(env.params) /\ IsSlice(env.args) /\ IsSlice(args) /\ Len(env.args) = Len(env.params)
  BY DEF IsEnv, AreArgs
<1>3. /\ IsSlice(both) /\ ToSet(both) = ToSet(env.args) \cup ToSet(args)
      /\ IsSlice(params)
  BY <1>2, ConcatSlices
<1>4. Len(both) = Len(params)
  <2> DEFINE T == ToSet(env.args) \cup ToSet(args)
             U == ToSet(env.params) \cup ToSet(f.generics)
  <2>1. env.args \in Seq(T) /\ args \in Seq(T) /\ env.params \in Seq(U) /\ f.generics \in Seq(U)
    BY <1>2, SliceIn
  <2> HIDE DEF T, U
  <2>2. Len(both) = Len(env.args) + Len(args) /\ Len(params) = Len(env.params) + Len(f.generics)
    BY <2>1
  <2> QED BY <1>2, <2>2 DEF AreArgs
<1> HIDE DEF both, params, new
<1>5. \A a \in ToSet(both) : Closed(a, known)
  BY <1>3 DEF IsEnv, AreArgs
<1> QED BY <1>1, <1>3, <1>4, <1>5 DEF IsEnv, AreArgs, new

\* What validation finds out about a function and its instantiations.
FunctionResolves(f, insts, known) ==
  /\ \A t \in Signature(f) : Closed(t, known)
  /\ IsSlice(f.generics)
  /\ f.generics # <<>> => \A args \in ToSet(insts) : AreArgs(args, f.generics, known)

\* A signature, written once for every instantiation.
LEMMA SignatureRefs ==
  ASSUME NEW known, NEW f, NEW insts, FunctionResolves(f, insts, known),
         NEW env, IsEnv(env, known), NEW t \in BoundSignature(f, insts, env)
  PROVE  RefsOf(t) \subseteq known
<1>1. PICK e \in EnvsOf(f, insts, env) : t \in Bound(Signature(f), e)
  BY DEF BoundSignature
<1>2. IsEnv(e, known)
  <2>1. CASE f.generics = <<>>
    BY <1>1, <2>1 DEF EnvsOf
  <2>2. CASE f.generics # <<>>
    <3>1. PICK args \in ToSet(insts) : e = FnEnv(f, args, env)
      BY <1>1, <2>2 DEF EnvsOf
    <3>2. AreArgs(args, f.generics, known) /\ IsSlice(f.generics)
      BY <2>2 DEF FunctionResolves
    <3> QED BY <3>1, <3>2, FnEnvIsEnv
  <2> QED BY <2>1, <2>2
<1> QED BY <1>1, <1>2, BoundRefs DEF FunctionResolves

\* A function that fits resolves with the instantiations it declares.
LEMMA FittingResolves ==
  ASSUME NEW known, NEW params, NEW fns, AreFunctions(fns), FunctionsFit(fns, params, known),
         NEW f \in ToSet(fns)
  PROVE  FunctionResolves(f, f.insts, known)
<1>1. /\ IsSlice(f.generics) /\ \A args \in ToSet(f.insts) : IsSlice(args)
      /\ \A t \in Signature(f) \cup InstArgs(f) : IsType(t)
  BY DEF AreFunctions
<1>2. /\ \A t \in Signature(f) \cup InstArgs(f) : RefsOf(t) \subseteq known
      /\ f.generics # <<>> => \A args \in ToSet(f.insts) : Len(args) = Len(f.generics)
  BY DEF FunctionsFit, Resolves, FnInstFits
<1>3. \A t \in Signature(f) \cup InstArgs(f) : Closed(t, known)
  BY <1>1, <1>2 DEF Closed
<1>4. \A args \in ToSet(f.insts) : ToSet(args) \subseteq InstArgs(f)
  BY DEF InstArgs
<1> QED BY <1>1, <1>2, <1>3, <1>4 DEF FunctionResolves, AreArgs

-----------------------------------------------------------------------------
\* What a type is made of is known.
LEMMA TypeRefs ==
  ASSUME NEW r, IsRegistry(r), Validates(r), NEW id \in Known(r),
         NEW env, IsEnv(env, Known(r)), NEW t \in TypesIn(r, id, env)
  PROVE  RefsOf(t) \subseteq Known(r)
<1> DEFINE d == WithId(ValueTypes(r), id)
           known == Known(r)
           Functions(fns) == UNION {BoundSignature(f, f.insts, env) : f \in ToSet(fns)}
<1>1. UniqueTypes(r)
  BY DEF Validates
<1>2. ASSUME NEW named, AreNamed(named), Resolves(TypesOf(named), known)
      PROVE  \A u \in TypesOf(named) : Closed(u, known)
  BY <1>2 DEF AreNamed, TypesOf, Resolves, Closed
<1>3. ASSUME NEW fns, NEW params, AreFunctions(fns), FunctionsFit(fns, params, known),
             NEW u \in Functions(fns)
      PROVE  RefsOf(u) \subseteq known
  <2>1. PICK f \in ToSet(fns) : u \in BoundSignature(f, f.insts, env)
    OBVIOUS
  <2> HIDE DEF known
  <2>2. FunctionResolves(f, f.insts, known)
    BY <1>3, FittingResolves
  <2> QED BY <2>1, <2>2, SignatureRefs DEF known
<1>4. CASE id \in Ids(r.structs)
  <2>1. /\ d = WithId(r.structs, id) /\ d \in ToSet(r.structs) /\ IsStruct(d)
        /\ id \notin Ids(r.enums)
    BY <1>1, <1>4, ValueTypeOf, WithIdIn DEF IsRegistry
  <2>2. StructFits(d, known)
    BY <2>1 DEF Validates
  <2> DEFINE data == TypesOf(d.fields) \cup TypesOf(d.properties)
  <2>3. t \in Bound(data, env) \cup Functions(d.methods \o d.constructors)
    BY <1>4, <2>1 DEF TypesIn
  <2> HIDE DEF d, known
  <2>4. /\ AreNamed(d.fields) /\ AreNamed(d.properties)
        /\ AreFunctions(d.methods) /\ AreFunctions(d.constructors)
    BY <2>1 DEF IsStruct
  <2>5. /\ Resolves(TypesOf(d.fields), known) /\ Resolves(TypesOf(d.properties), known)
        /\ FunctionsFit(d.methods, ToSet(d.generics), known)
        /\ FunctionsFit(d.constructors, ToSet(d.generics), known)
    BY <2>2 DEF StructFits, Resolves
  <2>6. \A u \in data : Closed(u, known)
    BY <1>2, <2>4, <2>5
  <2>7. ToSet(d.methods \o d.constructors) = ToSet(d.methods) \cup ToSet(d.constructors)
    BY <2>4, ConcatSlices DEF AreFunctions
  <2>8. Functions(d.methods \o d.constructors) = Functions(d.methods) \cup Functions(d.constructors)
    BY <2>7
  <2> HIDE DEF data, Functions
  <2>9. CASE t \in Bound(data, env)
    BY <2>6, <2>9, BoundRefs DEF known
  <2>10. CASE t \in Functions(d.methods)
    BY <1>3, <2>4, <2>5, <2>10 DEF known
  <2>11. CASE t \in Functions(d.constructors)
    BY <1>3, <2>4, <2>5, <2>11 DEF known
  <2> QED BY <2>3, <2>8, <2>9, <2>10, <2>11
<1>5. CASE id \in Ids(r.enums)
  <2>1. IsEnum(d) /\ d \in ToSet(r.enums) /\ id \notin Ids(r.structs)
    <3>1. d = WithId(r.structs \o r.enums, id) /\ IsEnum(d) /\ id \notin Ids(r.structs)
      BY <1>1, <1>5, ValueTypeOf
    <3>2. WithId(r.structs \o r.enums, id) = WithId(r.enums, id)
      BY <1>5, <3>1, WithIdBehind DEF IsRegistry
    <3> QED BY <1>5, <3>1, <3>2, WithIdIn DEF IsRegistry
  <2>2. EnumFits(d, known)
    BY <2>1 DEF Validates
  <2> DEFINE data == UNION {TypesOf(v.payload) : v \in ToSet(d.variants)}
  <2>3. t \in Bound(data, env) \cup Functions(d.methods)
    BY <1>5, <2>1 DEF TypesIn
  <2> HIDE DEF d, known
  <2>4. /\ AreFunctions(d.methods) /\ FunctionsFit(d.methods, ToSet(d.generics), known)
        /\ Resolves(data, known) /\ \A v \in ToSet(d.variants) : AreNamed(v.payload)
    BY <2>1, <2>2 DEF IsEnum, EnumFits
  <2>5. \A u \in data : Closed(u, known)
    BY <2>4 DEF Resolves, AreNamed, TypesOf, Closed
  <2> HIDE DEF data, Functions
  <2>6. CASE t \in Bound(data, env)
    BY <2>5, <2>6, BoundRefs DEF known
  <2>7. CASE t \in Functions(d.methods)
    BY <1>3, <2>4, <2>7 DEF known
  <2> QED BY <2>3, <2>6, <2>7
<1>6. CASE id \notin Ids(r.structs) \cup Ids(r.enums)
  <2>1. id \in Ids(r.aliases)
    BY <1>1, <1>6, IdsApart DEF Known
  <2>2. t = d.inner
    BY <1>6 DEF TypesIn
  <2>3. d \in ToSet(r.aliases)
    <3>1. /\ IsSlice(r.structs \o r.enums)
          /\ ToSet(r.structs \o r.enums) = ToSet(r.structs) \cup ToSet(r.enums)
      BY ConcatSlices DEF IsRegistry
    <3>2. id \notin Ids(r.structs \o r.enums)
      BY <1>6, <3>1, IdsOf
    <3>3. WithId((r.structs \o r.enums) \o r.aliases, id) = WithId(r.aliases, id)
      BY <2>1, <3>1, <3>2, WithIdBehind DEF IsRegistry
    <3> QED BY <2>1, <3>3, WithIdIn DEF ValueTypes, IsRegistry
  <2> QED BY <2>2, <2>3 DEF Validates, Resolves
<1> QED BY <1>4, <1>5, <1>6

-----------------------------------------------------------------------------
\* Names that do not repeat in a concatenation do not repeat in its front.
LEMMA NoRepeatsInFront ==
  ASSUME NEW x, NEW y, IsSlice(x), IsSlice(y), NoRepeats(x \o y)
  PROVE  NoRepeats(x)
<1> DEFINE T == ToSet(x) \cup ToSet(y)
<1>1. x \in Seq(T) /\ y \in Seq(T)
  BY SliceIn
<1>2. \A i \in DOMAIN x : i \in DOMAIN (x \o y) /\ (x \o y)[i] = x[i]
  <2> HIDE DEF T
  <2> QED BY <1>1
<1> QED BY <1>2 DEF NoRepeats

\* The functions of a module, with the instantiations that it declares itself.
LEMMA ModuleFunctions ==
  ASSUME NEW r, NEW m, IsModule(m), NEW known, ModuleFits(m, r, known),
         NEW f \in ToSet(m.functions)
  PROVE  FunctionResolves(f, InstantiationsOf(f, m.fnInsts), known)
<1>1. FunctionResolves(f, f.insts, known)
  BY FittingResolves DEF IsModule, ModuleFits
<1>2. \A g \in ToSet(m.functions) : g.name = f.name => g = f
  <2> DEFINE names == NamesOf(m.functions)
             rest == NamesOf(m.constants) \o NamesOf(m.submodules) \o TypeNames(m, r)
             a == NamesOf(m.functions) \o NamesOf(m.constants)
             b == a \o NamesOf(m.submodules)
  <2>1. NoRepeats(b \o TypeNames(m, r))
    BY DEF ModuleFits
  <2>2. /\ IsSlice(NamesOf(m.functions)) /\ IsSlice(NamesOf(m.constants))
        /\ IsSlice(NamesOf(m.submodules))
    BY MappedSlice DEF NamesOf, IsModule, AreFunctions, AreNamed
  <2>3. IsSlice(TypeNames(m, r))
    <3> DEFINE P == {i \in DOMAIN m.types : m.types[i] \in Ids(ValueTypes(r))}
               there == Kept(m.types, P)
    <3>1. IsSlice(m.types)
      BY DEF IsModule
    <3>2. IsSlice(there)
      <4> HIDE DEF P
      <4> QED BY <3>1, KeptSlice
    <3> HIDE DEF there
    <3>3. IsSlice([i \in DOMAIN there |-> (CHOOSE t \in ToSet(ValueTypes(r)) : t.id = there[i]).name])
      BY <3>2, MappedSlice
    <3> QED BY <3>3 DEF TypeNames, there
  <2>4. IsSlice(a) /\ IsSlice(b)
    BY <2>2, ConcatSlices
  <2> HIDE DEF b
  <2>5. NoRepeats(b)
    BY <2>1, <2>3, <2>4, NoRepeatsInFront
  <2> HIDE DEF a
  <2>6. NoRepeats(a)
    BY <2>2, <2>4, <2>5, NoRepeatsInFront DEF b
  <2>7. NoRepeats(NamesOf(m.functions))
    BY <2>2, <2>6, NoRepeatsInFront DEF a
  <2> QED BY <2>7 DEF NoRepeats, NamesOf, ToSet
<1>3. ASSUME f.generics # <<>>, NEW args \in ToSet(InstantiationsOf(f, m.fnInsts))
      PROVE  AreArgs(args, f.generics, known)
  <2>1. /\ IsSlice(f.insts) /\ IsSlice(m.fnInsts)
        /\ \A i \in ToSet(m.fnInsts) : IsSlice(i.args) /\ \A t \in ToSet(i.args) : IsType(t)
    BY DEF IsModule, AreFunctions
  <2>2. args \in ToSet(f.insts) \cup {i.args : i \in {j \in ToSet(m.fnInsts) : j.function = f.name}}
    BY <1>3, <2>1, InstantiationsAre
  <2>3. CASE args \in ToSet(f.insts)
    BY <1>1, <1>3, <2>3 DEF FunctionResolves
  <2>4. ASSUME NEW i \in ToSet(m.fnInsts), i.function = f.name, args = i.args
        PROVE  AreArgs(args, f.generics, known)
    <3>1. PICK g \in ToSet(m.functions) : /\ g.name = i.function /\ FnInstFits(g, i.args)
                                          /\ Resolves(ToSet(i.args), known)
      BY DEF ModuleFits
    <3>2. g = f
      BY <1>2, <2>4, <3>1
    <3> QED BY <2>1, <2>4, <3>1, <3>2 DEF AreArgs, FnInstFits, Resolves, Closed
  <2> QED BY <2>2, <2>3, <2>4
<1> QED BY <1>1, <1>3 DEF FunctionResolves

\* What a planned instance binds.
LEMMA InstanceEnv ==
  ASSUME NEW r, IsRegistry(r), Validates(r), NEW q \in ToSet(PlannedInstances(r))
  PROVE  IsEnv(EnvFor(PlanOf(r), q), Known(r))
<1> DEFINE targets == r.structs \o r.enums \o r.foreigns
           env == EnvFor(PlanOf(r), q)
<1>1. PICK inst \in ToSet(r.insts) :
        q = [id |-> inst.id, args |-> inst.args, name |-> InstanceName(r, inst.id, inst.args)]
  BY InstancesOf
<1>2. q.id = inst.id /\ q.args = inst.args
  BY <1>1
<1>3. PlanOf(r).reg = r
  BY DEF PlanOf, Planned
<1>4. /\ env.params = WithId(targets, inst.id).generics /\ env.args = inst.args
      /\ {"params", "args"} \subseteq DOMAIN env
  BY <1>2, <1>3 DEF EnvFor
<1>5. /\ inst.id \in Ids(targets) /\ Len(inst.args) = Len(WithId(targets, inst.id).generics)
      /\ \A t \in ToSet(inst.args) : RefsOf(t) \subseteq Known(r)
  BY DEF Validates, InstFits, Resolves
<1>6. IsSlice(inst.args) /\ \A t \in ToSet(inst.args) : IsType(t)
  BY DEF IsRegistry, IsInst
<1>7. IsSlice(WithId(targets, inst.id).generics)
  <2>1. /\ IsSlice(r.structs \o r.enums)
        /\ ToSet(r.structs \o r.enums) = ToSet(r.structs) \cup ToSet(r.enums)
    BY ConcatSlices DEF IsRegistry
  <2>2. /\ IsSlice(targets)
        /\ ToSet(targets) = ToSet(r.structs) \cup ToSet(r.enums) \cup ToSet(r.foreigns)
    BY <2>1, ConcatSlices DEF IsRegistry
  <2> HIDE DEF targets
  <2>3. WithId(targets, inst.id) \in ToSet(targets)
    BY <1>5, <2>2, WithIdIn
  <2>4. \A d \in ToSet(targets) : IsSlice(d.generics)
    BY <2>2 DEF IsRegistry, IsStruct, IsEnum, IsForeign
  <2> QED BY <2>3, <2>4
<1> HIDE DEF targets, env
<1> QED BY <1>4, <1>5, <1>6, <1>7 DEF IsEnv, AreArgs, Closed, env

\* What the interfaces of a plan are written with is known, ...
IfaceResolves(p, iface, known) ==
  /\ \A t \in TypesOf(iface.constants) : RefsOf(t) \subseteq known
  /\ \A f \in ToSet(iface.functions) : FunctionResolves(f, InstantiationsOf(f, iface.fnInsts), known)
  /\ ToSet(iface.types) \subseteq known
  /\ \A q \in ToSet(iface.instances) : q.id \in known /\ IsEnv(EnvFor(p, q), known)
  /\ IsEnv(IfaceEnv(p, iface), known)

\* ... for everything an interface uses.
LEMMA UsedRefs ==
  ASSUME NEW p, IsRegistry(p.reg), Validates(p.reg), NEW iface,
         IfaceResolves(p, iface, Known(p.reg)), NEW t \in UsedTypes(p, iface)
  PROVE  RefsOf(t) \subseteq Known(p.reg)
<1> DEFINE base == IfaceEnv(p, iface)
           known == Known(p.reg)
<1>1. CASE t \in TypesOf(iface.constants)
  BY <1>1 DEF IfaceResolves
<1>2. ASSUME NEW f \in ToSet(iface.functions),
             t \in BoundSignature(f, InstantiationsOf(f, iface.fnInsts), base)
      PROVE  RefsOf(t) \subseteq known
  <2>1. FunctionResolves(f, InstantiationsOf(f, iface.fnInsts), known) /\ IsEnv(base, known)
    BY DEF IfaceResolves
  <2> HIDE DEF base, known
  <2> QED BY <1>2, <2>1, SignatureRefs
<1>3. ASSUME NEW id \in ToSet(iface.types), t \in TypesIn(p.reg, id, NoEnv)
      PROVE  RefsOf(t) \subseteq known
  BY <1>3, EmptyEnv, TypeRefs DEF IfaceResolves
<1>4. ASSUME NEW q \in ToSet(iface.instances), t \in TypesIn(p.reg, q.id, EnvFor(p, q))
      PROVE  RefsOf(t) \subseteq known
  BY <1>4, TypeRefs DEF IfaceResolves
<1> QED BY <1>1, <1>2, <1>3, <1>4 DEF UsedTypes

\* What an interface owns of some ids and of the planned instances.
LEMMA OwnTypesAre ==
  ASSUME NEW r, NEW paths, NEW ids, IsSlice(ids), NEW k
  PROVE  ToSet(OwnTypes(r, paths, ids, k))
           = {id \in ToSet(ids) : id \notin Generic(r) /\ ClaimOf(paths, id) = k}
<1> DEFINE P == {i \in DOMAIN ids : ids[i] \notin Generic(r) /\ ClaimOf(paths, ids[i]) = k}
<1>1. ToSet(Kept(ids, P)) = {ids[i] : i \in DOMAIN ids \cap P}
  <2> HIDE DEF P
  <2> QED BY KeptSlice
<1>2. OwnTypes(r, paths, ids, k) = Kept(ids, P)
  BY DEF OwnTypes
<1>3. {ids[i] : i \in DOMAIN ids \cap P} = {id \in ToSet(ids) : id \notin Generic(r) /\ ClaimOf(paths, id) = k}
  BY DEF ToSet
<1> QED BY <1>1, <1>2, <1>3

\* The instances that an interface owns bind what is known.
LEMMA OwnInstancesKnown ==
  ASSUME NEW r, IsRegistry(r), Validates(r), InstancesMangle(r), NEW paths, NEW k,
         NEW q \in ToSet(OwnInstances(r, paths, PlannedInstances(r), k))
  PROVE  q.id \in Known(r) /\ IsEnv(EnvFor(PlanOf(r), q), Known(r))
<1> DEFINE planned == PlannedInstances(r)
           P == {i \in DOMAIN planned : /\ planned[i].id \notin GenericForeigns(r)
                                        /\ ClaimOf(paths, planned[i].id) = k}
<1>1. IsSlice(planned)
  BY InstancesOf
<1>2. ToSet(Kept(planned, P)) = {planned[i] : i \in DOMAIN planned \cap P}
  <2> HIDE DEF P, planned
  <2> QED BY <1>1, KeptSlice
<1>3. OwnInstances(r, paths, planned, k) = Kept(planned, P)
  BY DEF OwnInstances
<1>4. q \in ToSet(planned) /\ q.id \notin GenericForeigns(r)
  <2> HIDE DEF planned
  <2> QED BY <1>2, <1>3 DEF ToSet, planned
<1>5. PICK inst \in ToSet(r.insts) :
        q = [id |-> inst.id, args |-> inst.args, name |-> InstanceName(r, inst.id, inst.args)]
  BY <1>4, InstancesOf
<1>6. q.id \in Generic(r)
  <2>1. q.id = inst.id
    BY <1>5
  <2> QED BY <1>4, <2>1 DEF InstancesMangle
<1>7. q.id \in Known(r)
  <2>1. ToSet(r.structs \o r.enums) = ToSet(r.structs) \cup ToSet(r.enums)
    BY ConcatSlices DEF IsRegistry
  <2>2. q.id \in Ids(r.structs) \cup Ids(r.enums)
    BY <1>6, <2>1, IdsOf DEF Generic
  <2> QED BY <2>2, IdsApart DEF Known, Validates
<1> QED BY <1>4, <1>7, InstanceEnv

\* A foreign interface has the functions of its descriptor.
LEMMA ForeignResolves ==
  ASSUME NEW r, IsRegistry(r), Validates(r), NEW f \in ToSet(r.foreigns),
         NEW iface, IsForeignIface(iface, f.functions), NEW p, IsEnv(IfaceEnv(p, iface), Known(r))
  PROVE  IfaceResolves(p, iface, Known(r))
<1>1. AreFunctions(f.functions) /\ FunctionsFit(f.functions, ToSet(f.generics), Known(r))
  BY DEF IsRegistry, IsForeign, Validates, ForeignFits
<1>2. ASSUME NEW g \in ToSet(f.functions)
      PROVE  FunctionResolves(g, InstantiationsOf(g, <<>>), Known(r))
  <2>1. FunctionResolves(g, g.insts, Known(r)) /\ IsSlice(g.insts)
    BY <1>1, FittingResolves DEF AreFunctions
  <2>2. ToSet(InstantiationsOf(g, <<>>)) = ToSet(g.insts)
    BY <2>1, OwnInstantiations
  <2> QED BY <2>1, <2>2 DEF FunctionResolves
<1> QED BY <1>2, SmallSlices DEF IfaceResolves, IsForeignIface, TypesOf

\* ... for every interface of a plan.
LEMMA PlanResolves ==
  ASSUME NEW r, IsRegistry(r), Validates(r), InstancesMangle(r),
         NEW iface \in ToSet(PlanOf(r).interfaces)
  PROVE  IfaceResolves(PlanOf(r), iface, Known(r))
<1> DEFINE paths == ModulePaths(r)
           planned == PlannedInstances(r)
           p == PlanOf(r)
           known == Known(r)
<1>1. ArePaths(paths, ModulesUnder(r.modules)) /\ IsSlice(planned)
  BY PathsOf, InstancesOf
<1>2. CASE iface = DefaultPlanned(r, paths, planned)
  <2> DEFINE ids == [i \in DOMAIN ValueTypes(r) |-> ValueTypes(r)[i].id]
             types == OwnTypes(r, paths, ids, 1)
             instances == OwnInstances(r, paths, planned, 1)
  <2>1. /\ iface.functions = <<>> /\ iface.constants = <<>> /\ iface.instance = <<>>
        /\ iface.types = types /\ iface.instances = instances
    <3> HIDE DEF types, instances
    <3> QED BY <1>2 DEF DefaultPlanned, Interface, types, instances, ids
  <2>2. ToSet(types) \subseteq known
    <3>1. IsSlice(ValueTypes(r))
      BY ConcatSlices DEF IsRegistry, ValueTypes
    <3>2. IsSlice(ids) /\ ToSet(ids) = {ids[i] : i \in DOMAIN ValueTypes(r)}
      BY <3>1, MappedSlice
    <3>3. ToSet(ids) = known
      BY <3>2 DEF Known, Ids
    <3> HIDE DEF ids, known
    <3> QED BY <3>2, <3>3, OwnTypesAre
  <2>3. \A q \in ToSet(instances) : q.id \in known /\ IsEnv(EnvFor(p, q), known)
    BY OwnInstancesKnown
  <2>4. IfaceEnv(p, iface) = NoEnv
    BY <2>1 DEF IfaceEnv
  <2> HIDE DEF types, instances, known, p
  <2> QED BY <2>1, <2>2, <2>3, <2>4, EmptyEnv, SmallSlices DEF IfaceResolves, TypesOf, p, known
<1>3. ASSUME NEW i \in DOMAIN paths, iface = ModulePlanned(r, paths, planned, i)
      PROVE  IfaceResolves(p, iface, known)
  <2> DEFINE m == Last(paths[i])
             types == OwnTypes(r, paths, m.types, i + 1)
             instances == OwnInstances(r, paths, planned, i + 1)
  <2>1. /\ iface.functions = m.functions /\ iface.fnInsts = m.fnInsts
        /\ iface.constants = m.constants /\ iface.instance = <<>>
        /\ iface.types = types /\ iface.instances = instances
    <3> HIDE DEF types, instances, paths, planned
    <3> QED BY <1>3 DEF ModulePlanned, Interface, types, instances, m
  <2>2. m \in ModulesUnder(r.modules)
    <3>1. paths[i] \in ToSet(paths)
      BY <1>3 DEF ToSet
    <3> HIDE DEF paths
    <3> QED BY <1>1, <3>1, LastIn DEF ArePaths
  <2> HIDE DEF m
  <2>3. IsModule(m) /\ ModuleFits(m, r, known)
    BY <2>2, ModulesClosed DEF Validates
  <2>4. ToSet(types) \subseteq known
    BY <2>3, OwnTypesAre DEF IsModule, ModuleFits
  <2>5. \A q \in ToSet(instances) : q.id \in known /\ IsEnv(EnvFor(p, q), known)
    BY OwnInstancesKnown
  <2>6. IfaceEnv(p, iface) = NoEnv
    BY <2>1 DEF IfaceEnv
  <2> HIDE DEF types, instances, known, p
  <2>7. \A t \in TypesOf(m.constants) : RefsOf(t) \subseteq known
    BY <2>3 DEF ModuleFits, Resolves
  <2>8. \A f \in ToSet(m.functions) : FunctionResolves(f, InstantiationsOf(f, m.fnInsts), known)
    BY <2>3, ModuleFunctions
  <2> QED BY <2>1, <2>4, <2>5, <2>6, <2>7, <2>8, EmptyEnv DEF IfaceResolves
<1>4. ASSUME NEW f \in ToSet(r.foreigns), iface = ForeignPlanned(f)
      PROVE  IfaceResolves(p, iface, known)
  <2>1. IsForeignIface(iface, f.functions) /\ iface.instance = <<>>
    BY <1>4 DEF ForeignPlanned, IsForeignIface, Interface
  <2>2. IsEnv(IfaceEnv(p, iface), known)
    BY <2>1, EmptyEnv DEF IfaceEnv
  <2> QED BY <2>1, <2>2, ForeignResolves
<1>5. ASSUME NEW q \in ToSet(planned), q.id \in GenericForeigns(r), iface = InstancePlanned(r, q)
      PROVE  IfaceResolves(p, iface, known)
  <2> DEFINE f == WithId(r.foreigns, q.id)
  <2>1. IsForeignIface(iface, f.functions) /\ iface.instance = <<q>>
    BY <1>5 DEF InstancePlanned, IsForeignIface, Interface
  <2>2. f \in ToSet(r.foreigns)
    BY <1>5, WithIdIn, IdsOf DEF GenericForeigns, IsRegistry
  <2>3. IfaceEnv(p, iface) = EnvFor(p, q)
    BY <2>1 DEF IfaceEnv
  <2>4. IsEnv(IfaceEnv(p, iface), known)
    BY <2>3, InstanceEnv
  <2> HIDE DEF f
  <2> QED BY <2>1, <2>2, <2>4, ForeignResolves
<1> HIDE DEF p, known, paths, planned
<1> QED BY <1>2, <1>3, <1>4, <1>5, InterfacesOf DEF paths, planned, p, known

\* ... so every lookup of the plan hits.
LEMMA EveryLookupHits ==
  ASSUME NEW r, IsRegistry(r), Validates(r), InstancesMangle(r)
  PROVE  LookupsHit(PlanOf(r))
<1> DEFINE p == PlanOf(r)
<1>1. p.reg = r
  BY DEF PlanOf, Planned
<1> SUFFICES ASSUME NEW k \in DOMAIN p.interfaces
             PROVE  LET iface == p.interfaces[k]
                    IN  /\ ToSet(iface.types) \subseteq Ids(ValueTypes(p.reg))
                        /\ \A u \in NamedIn(UsedTypes(p, iface)) : u.name \in Ids(ValueTypes(p.reg))
  BY DEF LookupsHit
<1> DEFINE iface == p.interfaces[k]
<1>2. IfaceResolves(p, iface, Known(p.reg))
  BY <1>1, PlanResolves DEF ToSet
<1> HIDE DEF p, iface
<1>3. ASSUME NEW u \in NamedIn(UsedTypes(p, iface)) PROVE u.name \in Known(p.reg)
  <2>1. PICK t \in UsedTypes(p, iface) : u.name \in RefsOf(t)
    BY <1>3, NamedAreRefs
  <2>2. RefsOf(t) \subseteq Known(p.reg)
    BY <1>1, <1>2, UsedRefs
  <2> QED BY <2>1, <2>2
<1> QED BY <1>2, <1>3 DEF IfaceResolves, Known, iface

-----------------------------------------------------------------------------
\* The positions of a concatenation.
LEMMA ConcatAt ==
  ASSUME NEW s, NEW t, IsSlice(s), IsSlice(t)
  PROVE  /\ \A i \in DOMAIN s : i \in DOMAIN (s \o t) /\ (s \o t)[i] = s[i]
         /\ \A i \in DOMAIN t : Len(s) + i \in DOMAIN (s \o t) /\ (s \o t)[Len(s) + i] = t[i]
         /\ \A k \in DOMAIN (s \o t) : k \in DOMAIN s \/ (k - Len(s) \in DOMAIN t /\ (s \o t)[k] \in ToSet(t))
<1> DEFINE T == ToSet(s) \cup ToSet(t)
<1>1. s \in Seq(T) /\ t \in Seq(T)
  BY SliceIn
<1> HIDE DEF T
<1>2. /\ DOMAIN s = 1..Len(s) /\ Len(s) \in Nat
      /\ DOMAIN t = 1..Len(t) /\ Len(t) \in Nat
      /\ DOMAIN (s \o t) = 1..(Len(s) + Len(t))
      /\ \A i \in DOMAIN s : (s \o t)[i] = s[i]
      /\ \A i \in DOMAIN t : (s \o t)[Len(s) + i] = t[i]
  BY <1>1
<1>3. ASSUME NEW k \in DOMAIN (s \o t), k \notin DOMAIN s
      PROVE  k - Len(s) \in DOMAIN t /\ (s \o t)[k] \in ToSet(t)
  <2>1. k - Len(s) \in DOMAIN t /\ k = Len(s) + (k - Len(s))
    BY <1>2, <1>3
  <2>2. (s \o t)[k] = t[k - Len(s)]
    BY <1>2, <2>1
  <2> QED BY <2>1, <2>2 DEF ToSet
<1>4. \A i \in DOMAIN s : i \in DOMAIN (s \o t)
  BY <1>2
<1>5. \A i \in DOMAIN t : Len(s) + i \in DOMAIN (s \o t)
  BY <1>2
<1> QED BY <1>2, <1>3, <1>4, <1>5

\* Interface 1 is that of the types no module claims, the next ones are the
\* modules'; the others define no type.
LEMMA InterfaceAt ==
  ASSUME NEW r, IsRegistry(r)
  PROVE  LET paths == ModulePaths(r)
             planned == PlannedInstances(r)
             ifaces == PlanOf(r).interfaces
         IN  /\ DOMAIN ifaces \subseteq Nat
             /\ 1 \in DOMAIN ifaces /\ ifaces[1] = DefaultPlanned(r, paths, planned)
             /\ \A i \in DOMAIN paths :
                  1 + i \in DOMAIN ifaces /\ ifaces[1 + i] = ModulePlanned(r, paths, planned, i)
             /\ \A k \in DOMAIN ifaces : k = 1 \/ k - 1 \in DOMAIN paths \/ ifaces[k].types = <<>>
<1> DEFINE paths == ModulePaths(r)
           planned == PlannedInstances(r)
           plainAt == {i \in DOMAIN r.foreigns : r.foreigns[i].generics = <<>>}
           plain == Kept(r.foreigns, plainAt)
           monoAt == {i \in DOMAIN planned : planned[i].id \in GenericForeigns(r)}
           mono == Kept(planned, monoAt)
           first == <<DefaultPlanned(r, paths, planned)>>
           ofModules == [i \in DOMAIN paths |-> ModulePlanned(r, paths, planned, i)]
           ofForeigns == [i \in DOMAIN plain |-> ForeignPlanned(plain[i])]
           ofInstances == [i \in DOMAIN mono |-> InstancePlanned(r, mono[i])]
           ab == first \o ofModules
           abc == ab \o ofForeigns
           all == abc \o ofInstances
<1>1. PlanOf(r).interfaces = all
  BY DEF PlanOf, Planned, PlannedInterfaces
<1>2. IsSlice(paths) /\ IsSlice(planned) /\ IsSlice(r.foreigns)
  BY PathsOf, InstancesOf DEF ArePaths, IsRegistry
<1> HIDE DEF paths, planned
<1>3. IsSlice(plain)
  <2> HIDE DEF plainAt
  <2> QED BY <1>2, KeptSlice
<1>4. IsSlice(mono)
  <2> HIDE DEF monoAt
  <2> QED BY <1>2, KeptSlice
<1> HIDE DEF plain, mono
<1>5. /\ IsSlice(first) /\ DOMAIN first = {1} /\ Len(first) = 1
      /\ first[1] = DefaultPlanned(r, paths, planned)
  BY SmallSlices
<1>6. /\ IsSlice(ofModules) /\ DOMAIN ofModules = DOMAIN paths
      /\ \A i \in DOMAIN paths : ofModules[i] = ModulePlanned(r, paths, planned, i)
  BY <1>2, MappedSlice
<1>7. IsSlice(ofForeigns) /\ \A f \in ToSet(ofForeigns) : f.types = <<>>
  <2>1. IsSlice(ofForeigns) /\ ToSet(ofForeigns) = {ForeignPlanned(plain[i]) : i \in DOMAIN plain}
    BY <1>3, MappedSlice
  <2>2. \A f : ForeignPlanned(f).types = <<>>
    BY DEF ForeignPlanned, Interface
  <2> QED BY <2>1, <2>2
<1>8. IsSlice(ofInstances) /\ \A f \in ToSet(ofInstances) : f.types = <<>>
  <2>1. IsSlice(ofInstances) /\ ToSet(ofInstances) = {InstancePlanned(r, mono[i]) : i \in DOMAIN mono}
    BY <1>4, MappedSlice
  <2>2. \A q : InstancePlanned(r, q).types = <<>>
    BY DEF InstancePlanned, Interface
  <2> QED BY <2>1, <2>2
<1> HIDE DEF first, ofModules, ofForeigns, ofInstances
<1>9. IsSlice(ab) /\ IsSlice(abc)
  BY <1>5, <1>6, <1>7, ConcatSlices
<1>10. /\ 1 \in DOMAIN ab /\ ab[1] = first[1]
       /\ \A i \in DOMAIN paths : 1 + i \in DOMAIN ab /\ ab[1 + i] = ofModules[i]
       /\ \A k \in DOMAIN ab : k = 1 \/ k - 1 \in DOMAIN paths
  BY <1>5, <1>6, ConcatAt
<1> HIDE DEF ab
<1>11. /\ \A k \in DOMAIN ab : k \in DOMAIN abc /\ abc[k] = ab[k]
       /\ \A k \in DOMAIN abc : k \in DOMAIN ab \/ abc[k].types = <<>>
  BY <1>7, <1>9, ConcatAt
<1> HIDE DEF abc
<1>12. /\ \A k \in DOMAIN abc : k \in DOMAIN all /\ all[k] = abc[k]
       /\ \A k \in DOMAIN all : k \in DOMAIN abc \/ all[k].types = <<>>
  BY <1>8, <1>9, ConcatAt
<1> HIDE DEF all
<1>13. DOMAIN all \subseteq Nat
  BY <1>8, <1>9, ConcatSlices, SliceParts DEF all
<1>14. \A k \in DOMAIN ab : k \in DOMAIN all /\ all[k] = ab[k]
  BY <1>11, <1>12
<1>15. \A k \in DOMAIN all : k \in DOMAIN ab \/ all[k].types = <<>>
  BY <1>11, <1>12
<1> QED BY <1>1, <1>5, <1>6, <1>10, <1>13, <1>14, <1>15 DEF paths, planned

\* A concrete type is defined once, where it is claimed.
LEMMA OwnedOnce ==
  ASSUME NEW r, IsRegistry(r), NEW d \in ToSet(ValueTypes(r)), d.id \notin Generic(r)
  PROVE  Cardinality({k \in DOMAIN PlanOf(r).interfaces :
                        d.id \in ToSet(PlanOf(r).interfaces[k].types)}) = 1
<1> DEFINE paths == ModulePaths(r)
           planned == PlannedInstances(r)
           ifaces == PlanOf(r).interfaces
           id == d.id
           claims == {i \in DOMAIN paths : id \in ToSet(Last(paths[i]).types)}
           owner == ClaimOf(paths, id)
           In(k) == id \in ToSet(ifaces[k].types)
<1>1. /\ DOMAIN ifaces \subseteq Nat
      /\ 1 \in DOMAIN ifaces /\ ifaces[1] = DefaultPlanned(r, paths, planned)
      /\ \A i \in DOMAIN paths : 1 + i \in DOMAIN ifaces /\ ifaces[1 + i] = ModulePlanned(r, paths, planned, i)
      /\ \A k \in DOMAIN ifaces : k = 1 \/ k - 1 \in DOMAIN paths \/ ifaces[k].types = <<>>
  BY InterfaceAt
<1>2. DOMAIN paths \in SUBSET Nat /\ ArePaths(paths, ModulesUnder(r.modules))
  <2>1. ArePaths(paths, ModulesUnder(r.modules))
    BY PathsOf
  <2> HIDE DEF paths
  <2>2. DOMAIN paths = 1..Len(paths)
    BY <2>1, SliceParts DEF ArePaths
  <2> QED BY <2>1, <2>2
<1>3. In(1) <=> owner = 1
  <2> DEFINE ids == [i \in DOMAIN ValueTypes(r) |-> ValueTypes(r)[i].id]
  <2>1. IsSlice(ValueTypes(r))
    BY ConcatSlices DEF IsRegistry, ValueTypes
  <2>2. IsSlice(ids) /\ ToSet(ids) = {ids[i] : i \in DOMAIN ValueTypes(r)}
    BY <2>1, MappedSlice
  <2>3. id \in ToSet(ids)
    BY <2>2 DEF ToSet
  <2> HIDE DEF paths, planned
  <2>4. DefaultPlanned(r, paths, planned).types = OwnTypes(r, paths, ids, 1)
    BY DEF DefaultPlanned, Interface
  <2> HIDE DEF ids
  <2> QED BY <1>1, <2>2, <2>3, <2>4, OwnTypesAre
<1>4. ASSUME NEW i \in DOMAIN paths
      PROVE  In(1 + i) <=> i \in claims /\ owner = i + 1
  <2> DEFINE m == Last(paths[i])
  <2>1. IsSlice(m.types)
    <3>1. paths[i] \in ToSet(paths)
      BY DEF ToSet
    <3>2. m \in ModulesUnder(r.modules)
      <4> HIDE DEF paths
      <4> QED BY <1>2, <3>1, LastIn DEF ArePaths
    <3> HIDE DEF m
    <3> QED BY <3>2, ModulesClosed DEF IsModule
  <2> HIDE DEF paths, planned
  <2>2. ModulePlanned(r, paths, planned, i).types = OwnTypes(r, paths, m.types, i + 1)
    BY DEF ModulePlanned, Interface
  <2>3. i \in claims <=> id \in ToSet(m.types)
    BY <1>4
  <2> HIDE DEF m, claims
  <2> QED BY <1>1, <2>1, <2>2, <2>3, OwnTypesAre
<1> HIDE DEF ifaces
<1>5. \/ claims = {} /\ owner = 1
      \/ \E i \in claims : owner = 1 + i
  <2> HIDE DEF paths
  <2>1. CASE claims = {}
    BY <2>1 DEF ClaimOf
  <2>2. CASE claims # {}
    <3>1. claims \in SUBSET Nat
      BY <1>2
    <3>2. \E i \in claims : \A j \in claims : i <= j
      <4> HIDE DEF claims
      <4> QED BY <2>2, <3>1, LeastOf
    <3>3. owner = 1 + (CHOOSE i \in claims : \A j \in claims : i <= j)
      BY <2>2 DEF ClaimOf
    <3> HIDE DEF claims, owner
    <3> QED BY <3>2, <3>3
  <2> QED BY <2>1, <2>2
<1>6. owner \in DOMAIN ifaces /\ In(owner)
  <2>1. CASE claims = {} /\ owner = 1
    BY <1>1, <1>3, <2>1
  <2>2. ASSUME NEW i \in claims, owner = 1 + i PROVE owner \in DOMAIN ifaces /\ In(owner)
    <3>1. i \in DOMAIN paths /\ i \in Nat
      BY <1>2
    <3> HIDE DEF owner, claims, paths, In
    <3> QED BY <1>1, <1>4, <2>2, <3>1
  <2> QED BY <1>5, <2>1, <2>2
<1>7. ASSUME NEW k \in DOMAIN ifaces, In(k) PROVE k = owner
  <2>1. ifaces[k].types # <<>>
    BY <1>7, SmallSlices
  <2>2. CASE k = 1
    BY <1>3, <1>7, <2>2
  <2>3. CASE k - 1 \in DOMAIN paths
    <3> DEFINE i == k - 1
    <3>1. i \in Nat /\ i \in DOMAIN paths
      BY <1>2, <2>3
    <3>2. k = 1 + i
      <4>1. k \in Nat
        BY <1>1
      <4> QED BY <4>1
    <3> HIDE DEF i, owner, claims, paths
    <3>3. owner = i + 1
      BY <1>4, <1>7, <3>1, <3>2
    <3> QED BY <3>1, <3>2, <3>3
  <2> QED BY <1>1, <2>1, <2>2, <2>3
<1>8. {k \in DOMAIN ifaces : In(k)} = {owner}
  <2> HIDE DEF owner, In
  <2> QED BY <1>6, <1>7
<1> QED BY <1>8, FS_Singleton DEF ifaces
=============================================================================
