------------------------------ MODULE PackagesProofs ---------------------------
(***************************************************************************)
(* Proofs about Packages and LuaHost, for any palette of declarations:     *)
(* what was planned, generated, bound and connected belongs to the         *)
(* registry as it is; a component that imports the generated world finds   *)
(* what it imports, and foreign callers find what they look up.            *)
(*                                                                         *)
(* Linker, document and callers derive their names independently, so the   *)
(* first part is about one plan: the linker defines everything the         *)
(* document has a guest import, and the document exports everything a      *)
(* caller looks up.  It compares how and under which text a member is      *)
(* there, for each sort of type, and goes from members to interfaces.      *)
(***************************************************************************)
EXTENDS LuaHost, PlanProofs

\* How and under which texts a sequence of members or of definitions is
\* there; one has everything another has.
Heads(ms) == {[how |-> m.how, text |-> m.entry.text] : m \in ToSet(ms)}

Covers(linked, written) ==
  IsSlice(linked) /\ IsSlice(written) /\ Heads(written) \subseteq Heads(linked)

SameHead(a, b) == a.how = b.how /\ a.entry.text = b.entry.text

\* Nothing covers nothing.
LEMMA CoverNothing == Covers(<<>>, <<>>)
BY SmallSlices DEF Covers

\* One definition covers a member with its head.
LEMMA CoverOne == ASSUME NEW a, NEW b, SameHead(a, b) PROVE Covers(<<a>>, <<b>>)
BY SmallSlices DEF Covers, Heads, SameHead

\* Covering piece by piece, ...
LEMMA CoverConcat ==
  ASSUME NEW a, NEW b, NEW c, NEW d, Covers(a, b), Covers(c, d)
  PROVE  Covers(a \o c, b \o d)
<1>1. IsSlice(a \o c) /\ ToSet(a \o c) = ToSet(a) \cup ToSet(c)
  BY ConcatSlices DEF Covers
<1>2. IsSlice(b \o d) /\ ToSet(b \o d) = ToSet(b) \cup ToSet(d)
  BY ConcatSlices DEF Covers
<1>3. Heads(a \o c) = Heads(a) \cup Heads(c) /\ Heads(b \o d) = Heads(b) \cup Heads(d)
  BY <1>1, <1>2 DEF Heads
<1> QED BY <1>1, <1>2, <1>3 DEF Covers

\* ... element by element, ...
LEMMA CoverMapped ==
  ASSUME NEW s, IsSlice(s),
         NEW a, DOMAIN a = DOMAIN s, a = [i \in DOMAIN a |-> a[i]],
         NEW b, DOMAIN b = DOMAIN s, b = [i \in DOMAIN b |-> b[i]],
         \A i \in DOMAIN s : SameHead(a[i], b[i])
  PROVE  Covers(a, b)
<1>1. /\ IsSlice(a) /\ ToSet(a) = {a[i] : i \in DOMAIN s}
      /\ IsSlice(b) /\ ToSet(b) = {b[i] : i \in DOMAIN s}
  BY MappedSlice
<1>2. Heads(b) \subseteq Heads(a)
  BY <1>1 DEF Heads, SameHead
<1> QED BY <1>1, <1>2 DEF Covers

\* The heads of slices in a row, ...
LEMMA HeadsFlattened ==
  ASSUME NEW ss, IsSlice(ss), \A i \in DOMAIN ss : IsSlice(ss[i])
  PROVE  /\ IsSlice(FlattenSeq(ss))
         /\ Heads(FlattenSeq(ss)) = UNION {Heads(ss[i]) : i \in DOMAIN ss}
BY FlattenSlices DEF Heads

\* ... and slice by slice.
LEMMA CoverFlattened ==
  ASSUME NEW s, IsSlice(s),
         NEW a, DOMAIN a = DOMAIN s, a = [i \in DOMAIN a |-> a[i]],
         NEW b, DOMAIN b = DOMAIN s, b = [i \in DOMAIN b |-> b[i]],
         \A i \in DOMAIN s : Covers(a[i], b[i])
  PROVE  Covers(FlattenSeq(a), FlattenSeq(b))
<1>1. IsSlice(a) /\ IsSlice(b)
  BY MappedSlice
<1>2. \A i \in DOMAIN s : IsSlice(a[i]) /\ IsSlice(b[i]) /\ Heads(b[i]) \subseteq Heads(a[i])
  BY DEF Covers
<1>3. /\ IsSlice(FlattenSeq(a)) /\ Heads(FlattenSeq(a)) = UNION {Heads(a[i]) : i \in DOMAIN a}
      /\ IsSlice(FlattenSeq(b)) /\ Heads(FlattenSeq(b)) = UNION {Heads(b[i]) : i \in DOMAIN b}
  BY <1>1, <1>2, HeadsFlattened
<1>4. Heads(FlattenSeq(b)) \subseteq Heads(FlattenSeq(a))
  BY <1>2, <1>3
<1> QED BY <1>3, <1>4 DEF Covers

-----------------------------------------------------------------------------
\* How and under which text a definition is linked, ...
LEMMA HeadOfLinked ==
  /\ \A how, text : Linked(how, text).how = how /\ Linked(how, text).entry.text = text
  /\ \A how, text, identity : /\ LinkedAs(how, text, identity).how = how
                              /\ LinkedAs(how, text, identity).entry.text = text
BY DEF Linked, LinkedAs, Entry, EntryAs

\* ... and a member is written.
LEMMA HeadOfKeyed ==
  ASSUME NEW how, NEW text, NEW types, NEW env
  PROVE  Keyed(how, text, types, env).how = how /\ Keyed(how, text, types, env).entry.text = text
BY DEF Keyed, Member, Entry

\* The same of a member with an entry of its own.
LEMMA HeadOfMember ==
  ASSUME NEW how, NEW entry, NEW types, NEW env
  PROVE  Member(how, entry, types, env).how = how /\ Member(how, entry, types, env).entry = entry
BY DEF Member

\* emit_resource gives the constructor slot to the first constructor that is
\* neither async nor fallible; bind_resource_live decides for each whether it
\* takes a slot that is still free.  They agree, for any constructors.
THEOREM SlotsAgree ==
  ASSUME NEW s, NEW n \in Nat, NEW env,
         DOMAIN s.constructors = 1..n
  PROVE  \A i \in 1..n :
           /\ LinkedConstructors(s.constructors)[i].how = Constructors(s, env)[i].how
           /\ LinkedConstructors(s.constructors)[i].entry = Constructors(s, env)[i].entry
<1> DEFINE free == {i \in DOMAIN s.constructors : ~s.constructors[i].async /\ ~s.constructors[i].fallible}
           taken(i) == \E j \in 1..(i - 1) : ~s.constructors[j].async /\ ~s.constructors[j].fallible
           slot(i) == ~taken(i) /\ ~s.constructors[i].async /\ ~s.constructors[i].fallible
<1> TAKE i \in 1..n
<1>1. LinkedConstructors(s.constructors)[i]
        = Linked(IF slot(i) THEN "constructor" ELSE "static", Spelling[s.constructors[i].name])
  BY DEF LinkedConstructors
<1>2. Constructors(s, env)[i]
        = Keyed(IF i = SlotOf(s.constructors) THEN "constructor" ELSE "static",
                Spelling[s.constructors[i].name], ToSet(s.constructors[i].params), env)
  BY DEF Constructors
<1>3. i = SlotOf(s.constructors) <=> slot(i)
  <2>1. CASE free = {}
    <3>1. SlotOf(s.constructors) = 0
      BY <2>1 DEF SlotOf
    <3> QED BY <2>1, <3>1
  <2>2. CASE free # {}
    <3>1. free \in SUBSET Nat
      OBVIOUS
    <3>2. /\ SlotOf(s.constructors) \in free
          /\ \A j \in free : SlotOf(s.constructors) <= j
      BY <2>2, <3>1, LeastOf DEF SlotOf
    <3>3. slot(i) <=> i \in free /\ \A j \in free : i <= j
      OBVIOUS
    <3> QED BY <3>1, <3>2, <3>3
  <2> QED BY <2>1, <2>2
<1> HIDE DEF slot
<1> QED BY <1>1, <1>2, <1>3 DEF Linked, Keyed, Member

\* Fields and properties: a getter each, and a setter unless they are read-only.
LEMMA AccessorsCovered ==
  ASSUME NEW n, NEW env PROVE Covers(LinkedAccessors(n), Accessors(n, env))
<1> DEFINE text == Spelling[n.name]
           setter == <<"set", "_">> \o text
           written == Keyed("method", setter, {n.ty}, env)
           getter == Keyed("method", text, {n.ty}, env)
<1>1. SameHead(Linked("method", text), getter) /\ SameHead(Linked("method", setter), written)
  <2> HIDE DEF setter
  <2> QED BY HeadOfLinked, HeadOfKeyed DEF SameHead
<1> HIDE DEF getter, written, setter
<1>2. Covers(<<Linked("method", text)>>, <<getter>>) /\ Covers(<<Linked("method", setter)>>, <<written>>)
  BY <1>1, CoverOne
<1>3. CASE n.readonly
  <2>1. LinkedAccessors(n) = <<Linked("method", text)>> \o <<>> /\ Accessors(n, env) = <<getter>> \o <<>>
    BY <1>3 DEF LinkedAccessors, Accessors, getter
  <2> QED BY <2>1, <1>2, CoverNothing, CoverConcat
<1>4. CASE ~n.readonly
  <2>1. /\ LinkedAccessors(n) = <<Linked("method", text)>> \o <<Linked("method", setter)>>
        /\ Accessors(n, env) = <<getter>> \o <<written>>
    BY <1>4 DEF LinkedAccessors, Accessors, getter, setter, written
  <2> QED BY <2>1, <1>2, CoverConcat
<1> QED BY <1>3, <1>4

\* The dispatcher of a dyn method is linked as it is written.
LEMMA DispatcherCovered ==
  ASSUME NEW m, m.generics # <<>>, NEW how
  PROVE  Covers(LinkedDispatcher(m, how), Dispatcher(m, how, DynText(m)))
<1>1. CASE m.dyn
  <2> DEFINE entry == Keyed(how, DynText(m), {}, NoEnv)
  <2>1. /\ LinkedDispatcher(m, how) = <<Linked(how, DynText(m))>>
        /\ Dispatcher(m, how, DynText(m)) = <<entry>>
    BY <1>1 DEF LinkedDispatcher, Dispatcher
  <2>2. SameHead(Linked(how, DynText(m)), entry)
    <3> QED BY HeadOfLinked, HeadOfKeyed DEF SameHead
  <2> HIDE DEF entry
  <2> QED BY <2>1, <2>2, CoverOne
<1>2. CASE ~m.dyn
  <2>1. LinkedDispatcher(m, how) = <<>> /\ Dispatcher(m, how, DynText(m)) = <<>>
    BY <1>2 DEF LinkedDispatcher, Dispatcher
  <2> QED BY <2>1, CoverNothing
<1> QED BY <1>1, <1>2

\* A method that is mangled without the plan: its monomorphs and dispatcher.
PlainInsts(m) ==
  IsSlice(m.insts) /\ \A args \in ToSet(m.insts) : \A t \in ToSet(args) : PlainMangles(t)

\* A method is linked with all its monomorphs.
LEMMA MethodCovered ==
  ASSUME NEW r, NEW m, PlainInsts(m), NEW env
  PROVE  Covers(LinkedMethod(m), MethodMembers(r, m, env))
<1> DEFINE how == HowCalled(m)
           plain == Keyed(how, Spelling[m.name], Written(m), env)
           linkedMono == [i \in DOMAIN m.insts |-> Linked(how, PlainName(m.name, m.insts[i]))]
           mono == Monomorphs(r, m, m.insts, env, how)
<1>1. CASE m.generics = <<>>
  <2>1. LinkedMethod(m) = <<Linked(how, Spelling[m.name])>> \o <<>>
    BY <1>1 DEF LinkedMethod, LinkedMonomorphs, LinkedDispatcher
  <2>2. MethodMembers(r, m, env) = <<plain>>
    BY <1>1 DEF MethodMembers
  <2>3. SameHead(Linked(how, Spelling[m.name]), plain)
    <3> HIDE DEF how
    <3> QED BY HeadOfLinked, HeadOfKeyed DEF SameHead
  <2> HIDE DEF plain
  <2>4. Covers(<<Linked(how, Spelling[m.name])>>, <<plain>>)
    BY <2>3, CoverOne
  <2> QED BY <2>1, <2>2, <2>4, EmptyBehind, SmallSlices
<1>2. CASE m.generics # <<>>
  <2>1. LinkedMethod(m) = linkedMono \o LinkedDispatcher(m, how)
    BY <1>2 DEF LinkedMethod, LinkedMonomorphs
  <2>2. MethodMembers(r, m, env) = mono \o Dispatcher(m, how, DynText(m))
    BY <1>2 DEF MethodMembers
  <2>3. Covers(linkedMono, mono)
    <3>1. DOMAIN mono = DOMAIN m.insts /\ mono = [i \in DOMAIN mono |-> mono[i]]
      BY DEF Monomorphs
    <3>2. DOMAIN linkedMono = DOMAIN m.insts /\ linkedMono = [i \in DOMAIN linkedMono |-> linkedMono[i]]
      OBVIOUS
    <3>3. ASSUME NEW i \in DOMAIN m.insts PROVE SameHead(linkedMono[i], mono[i])
      <4>1. m.insts[i] \in ToSet(m.insts)
        BY DEF ToSet
      <4>2. FnInstanceName(r, m.name, m.insts[i]) = PlainName(m.name, m.insts[i])
        BY <4>1, PlainNameIsName DEF PlainInsts
      <4>3. mono[i] = Keyed(how, FnInstanceName(r, m.name, m.insts[i]), Written(m), FnEnv(m, m.insts[i], env))
        BY DEF Monomorphs
      <4>4. linkedMono[i] = Linked(how, PlainName(m.name, m.insts[i]))
        OBVIOUS
      <4> HIDE DEF mono, linkedMono, how
      <4> QED BY <4>2, <4>3, <4>4, HeadOfLinked, HeadOfKeyed DEF SameHead
    <3> HIDE DEF mono, linkedMono
    <3> QED BY <3>1, <3>2, <3>3, CoverMapped DEF PlainInsts
  <2>4. Covers(LinkedDispatcher(m, how), Dispatcher(m, how, DynText(m)))
    BY <1>2, DispatcherCovered
  <2> HIDE DEF mono, linkedMono, how
  <2> QED BY <2>1, <2>2, <2>3, <2>4, CoverConcat
<1> QED BY <1>1, <1>2

\* What a trait projects to is a slice of names.
LEMMA ProjectionNames ==
  ASSUME NEW name \in DOMAIN ProjectedAs
  PROVE  \E n \in Nat : DOMAIN ProjectedAs[name] = 1..n
<1>1. \/ ProjectedAs[name] = <<>>
      \/ \E a : ProjectedAs[name] = <<a>>
      \/ \E a, b : ProjectedAs[name] = <<a, b>>
  BY DEF ProjectedAs
<1>2. /\ DOMAIN <<>> = 1..0
      /\ \A a : DOMAIN <<a>> = 1..1
      /\ \A a, b : DOMAIN <<a, b>> = 1..2
  OBVIOUS
<1> QED BY <1>1, <1>2

\* The projections of a type with traits that can be projected.
LEMMA ProjectionsAre ==
  ASSUME NEW s, IsSlice(s.traits), Projects(s)
  PROVE  IsSlice(Projections(s))
<1> DEFINE repeats(i) == \E j \in 1..(i - 1) : \E g \in Together :
                           {s.traits[i].name, s.traits[j].name} \subseteq g
           projected(i) == IF repeats(i) THEN <<>> ELSE
                             [k \in DOMAIN ProjectedAs[s.traits[i].name] |->
                                [name |-> ProjectedAs[s.traits[i].name][k],
                                 types |-> ToSet(s.traits[i].types) \
                                   (IF ProjectedAs[s.traits[i].name] = <<"call">> THEN {Unit} ELSE {})]]
           ss == [i \in DOMAIN s.traits |-> projected(i)]
<1>1. Projections(s) = FlattenSeq(ss)
  BY DEF Projections
<1>2. ASSUME NEW i \in DOMAIN s.traits PROVE IsSlice(projected(i))
  <2> DEFINE names == ProjectedAs[s.traits[i].name]
             types == ToSet(s.traits[i].types) \ (IF names = <<"call">> THEN {Unit} ELSE {})
             made == [k \in DOMAIN names |-> [name |-> names[k], types |-> types]]
  <2>1. s.traits[i].name \in DOMAIN ProjectedAs
    BY DEF Projects, ToSet
  <2>2. \E n \in Nat : DOMAIN names = 1..n
    <3> HIDE DEF names
    <3>1. \A name \in DOMAIN ProjectedAs : \E n \in Nat : DOMAIN ProjectedAs[name] = 1..n
      BY ProjectionNames
    <3> QED BY <2>1, <3>1 DEF names
  <2> HIDE DEF names, types
  <2>3. IsSlice(made)
    BY <2>2, FunctionSlice
  <2>4. projected(i) = IF repeats(i) THEN <<>> ELSE made
    BY DEF names, types
  <2> HIDE DEF projected, repeats, made
  <2> QED BY <2>3, <2>4, SmallSlices
<1>3. IsSlice(ss) /\ DOMAIN ss = DOMAIN s.traits /\ \A i \in DOMAIN ss : ss[i] = projected(i)
  <2> HIDE DEF projected
  <2> QED BY MappedSlice
<1> HIDE DEF ss, projected
<1> QED BY <1>1, <1>2, <1>3, FlattenSlices

\* bind_resource_live defines what emit_resource writes.
LEMMA ResourceCovered ==
  ASSUME NEW r, NEW s, IsStruct(s), Projects(s), NEW env,
         \A m \in ToSet(s.methods) : PlainInsts(m)
  PROVE  Covers(LinkedResource(s), ResourceMembers(r, s, env))
<1> DEFINE data == s.fields \o s.properties
           accessors == [i \in DOMAIN data |-> Accessors(data[i], env)]
           fields == [i \in DOMAIN s.fields |-> LinkedAccessors(s.fields[i])]
           properties == [i \in DOMAIN s.properties |-> LinkedAccessors(s.properties[i])]
           methods == [i \in DOMAIN s.methods |-> MethodMembers(r, s.methods[i], env)]
           linkedMethods == [i \in DOMAIN s.methods |-> LinkedMethod(s.methods[i])]
           p == Projections(s)
           how(i) == IF p[i].name = "default" THEN "static" ELSE "method"
           projections == [i \in DOMAIN p |-> Member(how(i), EntryAs(ProjectionText(p[i]), "projection"),
                                                     p[i].types, env)]
           linkedProjections == [i \in DOMAIN p |-> LinkedAs(how(i), ProjectionText(p[i]), "projection")]
<1>1. /\ IsSlice(s.fields) /\ IsSlice(s.properties) /\ IsSlice(s.methods)
      /\ IsSlice(s.constructors) /\ IsSlice(p)
  BY ProjectionsAre DEF IsStruct, AreNamed, AreFunctions
<1>2. Covers(FlattenSeq(fields) \o FlattenSeq(properties), FlattenSeq(accessors))
  <2>1. IsSlice(data) /\ ToSet(data) = ToSet(s.fields) \cup ToSet(s.properties)
    BY <1>1, ConcatSlices
  <2>2. IsSlice(accessors) /\ DOMAIN accessors = DOMAIN data
    <3> HIDE DEF data
    <3> QED BY <2>1, MappedSlice
  <2>3. IsSlice(fields) /\ IsSlice(properties)
    BY <1>1, MappedSlice
  <2>4. \A n : IsSlice(LinkedAccessors(n)) /\ IsSlice(Accessors(n, env))
               /\ Heads(Accessors(n, env)) \subseteq Heads(LinkedAccessors(n))
    BY AccessorsCovered DEF Covers
  <2>5. /\ IsSlice(FlattenSeq(accessors))
        /\ Heads(FlattenSeq(accessors)) = UNION {Heads(Accessors(n, env)) : n \in ToSet(data)}
    <3>1. \A i \in DOMAIN accessors : accessors[i] = Accessors(data[i], env)
      OBVIOUS
    <3> HIDE DEF accessors, data
    <3>2. /\ IsSlice(FlattenSeq(accessors))
          /\ Heads(FlattenSeq(accessors)) = UNION {Heads(accessors[i]) : i \in DOMAIN accessors}
      BY <2>2, <2>4, <3>1, HeadsFlattened
    <3> QED BY <2>2, <3>1, <3>2 DEF ToSet
  <2>6. /\ IsSlice(FlattenSeq(fields))
        /\ Heads(FlattenSeq(fields)) = UNION {Heads(LinkedAccessors(n)) : n \in ToSet(s.fields)}
    <3>1. \A i \in DOMAIN fields : fields[i] = LinkedAccessors(s.fields[i])
      OBVIOUS
    <3>2. DOMAIN fields = DOMAIN s.fields
      OBVIOUS
    <3> HIDE DEF fields
    <3>3. /\ IsSlice(FlattenSeq(fields))
          /\ Heads(FlattenSeq(fields)) = UNION {Heads(fields[i]) : i \in DOMAIN fields}
      BY <2>3, <2>4, <3>1, HeadsFlattened
    <3> QED BY <3>1, <3>2, <3>3 DEF ToSet
  <2>7. /\ IsSlice(FlattenSeq(properties))
        /\ Heads(FlattenSeq(properties)) = UNION {Heads(LinkedAccessors(n)) : n \in ToSet(s.properties)}
    <3>1. \A i \in DOMAIN properties : properties[i] = LinkedAccessors(s.properties[i])
      OBVIOUS
    <3>2. DOMAIN properties = DOMAIN s.properties
      OBVIOUS
    <3> HIDE DEF properties
    <3>3. /\ IsSlice(FlattenSeq(properties))
          /\ Heads(FlattenSeq(properties)) = UNION {Heads(properties[i]) : i \in DOMAIN properties}
      BY <2>3, <2>4, <3>1, HeadsFlattened
    <3> QED BY <3>1, <3>2, <3>3 DEF ToSet
  <2> DEFINE a == FlattenSeq(fields)
             b == FlattenSeq(properties)
             c == FlattenSeq(accessors)
  <2>8. IsSlice(a \o b) /\ Heads(a \o b) = Heads(a) \cup Heads(b)
    <3> HIDE DEF fields, properties
    <3> QED BY <2>6, <2>7, ConcatSlices DEF Heads
  <2>9. Heads(c) \subseteq Heads(a) \cup Heads(b)
    <3> HIDE DEF fields, properties, accessors, data
    <3> QED BY <2>1, <2>4, <2>5, <2>6, <2>7
  <2> HIDE DEF fields, properties, accessors, data
  <2> QED BY <2>5, <2>8, <2>9 DEF Covers
<1>3. Covers(LinkedConstructors(s.constructors), Constructors(s, env))
  <2>1. Len(s.constructors) \in Nat /\ DOMAIN s.constructors = 1..Len(s.constructors)
    BY <1>1, SliceParts
  <2> DEFINE a == LinkedConstructors(s.constructors)
             b == Constructors(s, env)
  <2>2. DOMAIN a = DOMAIN s.constructors /\ a = [i \in DOMAIN a |-> a[i]]
    BY DEF LinkedConstructors
  <2>3. DOMAIN b = DOMAIN s.constructors /\ b = [i \in DOMAIN b |-> b[i]]
    BY DEF Constructors
  <2>4. \A i \in 1..Len(s.constructors) : a[i].how = b[i].how /\ a[i].entry = b[i].entry
    BY <2>1, SlotsAgree
  <2> HIDE DEF a, b
  <2>5. \A i \in DOMAIN s.constructors : SameHead(a[i], b[i])
    BY <2>1, <2>4 DEF SameHead
  <2>6. Covers(a, b)
    BY <1>1, <2>2, <2>3, <2>5, CoverMapped
  <2> QED BY <2>6 DEF a, b
<1>4. Covers(FlattenSeq(linkedMethods), FlattenSeq(methods))
  <2>1. \A i \in DOMAIN s.methods : Covers(linkedMethods[i], methods[i])
    BY MethodCovered DEF ToSet
  <2> QED BY <1>1, <2>1, CoverFlattened
<1>5. Covers(linkedProjections, projections)
  <2>1. \A i \in DOMAIN p : SameHead(linkedProjections[i], projections[i])
    <3> TAKE i \in DOMAIN p
    <3> DEFINE text == ProjectionText(p[i])
    <3>1. linkedProjections[i] = LinkedAs(how(i), text, "projection")
      OBVIOUS
    <3>2. projections[i] = Member(how(i), EntryAs(text, "projection"), p[i].types, env)
      OBVIOUS
    <3>3. EntryAs(text, "projection").text = text
      BY DEF EntryAs
    <3> HIDE DEF p, how, text, projections, linkedProjections
    <3>4. linkedProjections[i].how = how(i) /\ linkedProjections[i].entry.text = text
      BY <3>1, HeadOfLinked
    <3>5. projections[i].how = how(i) /\ projections[i].entry = EntryAs(text, "projection")
      BY <3>2, HeadOfMember
    <3> QED BY <3>3, <3>4, <3>5 DEF SameHead
  <2> HIDE DEF p
  <2> QED BY <1>1, <2>1, CoverMapped
<1>6. ResourceMembers(r, s, env)
        = FlattenSeq(accessors) \o Constructors(s, env) \o FlattenSeq(methods) \o projections
  BY DEF ResourceMembers
<1>7. LinkedResource(s)
        = FlattenSeq(fields) \o FlattenSeq(properties) \o LinkedConstructors(s.constructors)
          \o FlattenSeq(linkedMethods) \o linkedProjections
  BY DEF LinkedResource, LinkedProjections
<1> HIDE DEF accessors, fields, properties, methods, linkedMethods, projections, linkedProjections
<1> QED BY <1>2, <1>3, <1>4, <1>5, <1>6, <1>7, CoverConcat

-----------------------------------------------------------------------------
\* The companions of an enum, under its prefix.
LEMMA CompanionCovered ==
  ASSUME NEW r, NEW m, PlainInsts(m), NEW env, NEW prefix
  PROVE  LET names == LinkedMonomorphs(m, "function") \o LinkedDispatcher(m, "function")
         IN  Covers([i \in DOMAIN names |-> Linked("function", prefix \o names[i].entry.text)],
                    IF m.generics = <<>>
                    THEN <<Keyed("function", prefix \o Spelling[m.name], Written(m), env)>>
                    ELSE [i \in DOMAIN m.insts |->
                            Keyed("function", prefix \o FnInstanceName(r, m.name, m.insts[i]),
                                  Written(m), FnEnv(m, m.insts[i], env))]
                         \o Dispatcher(m, "function", prefix \o DynText(m)))
<1> DEFINE mono == LinkedMonomorphs(m, "function")
           dispatcher == LinkedDispatcher(m, "function")
           names == mono \o dispatcher
           own == [i \in DOMAIN names |-> Linked("function", prefix \o names[i].entry.text)]
           one == Keyed("function", prefix \o Spelling[m.name], Written(m), env)
           each == [i \in DOMAIN m.insts |->
                      Keyed("function", prefix \o FnInstanceName(r, m.name, m.insts[i]),
                            Written(m), FnEnv(m, m.insts[i], env))]
           erased == Dispatcher(m, "function", prefix \o DynText(m))
           Prefixed(text) == [how |-> "function", text |-> prefix \o text]
<1>1. IsSlice(mono) /\ IsSlice(dispatcher)
  <2> DEFINE f == [i \in DOMAIN m.insts |-> Linked("function", PlainName(m.name, m.insts[i]))]
  <2>1. IsSlice(f)
    BY MappedSlice DEF PlainInsts
  <2>2. mono = <<Linked("function", Spelling[m.name])>> \/ mono = f
    BY DEF LinkedMonomorphs
  <2>3. dispatcher = <<Linked("function", DynText(m))>> \/ dispatcher = <<>>
    BY DEF LinkedDispatcher
  <2> HIDE DEF f, mono, dispatcher
  <2> QED BY <2>1, <2>2, <2>3, SmallSlices
<1>2. IsSlice(names) /\ ToSet(names) = ToSet(mono) \cup ToSet(dispatcher)
  BY <1>1, ConcatSlices
<1>3. IsSlice(own) /\ Heads(own) = {Prefixed(d.entry.text) : d \in ToSet(names)}
  <2>1. \A i \in DOMAIN names : /\ own[i].how = "function"
                                /\ own[i].entry.text = prefix \o names[i].entry.text
    <3> HIDE DEF names
    <3> QED BY HeadOfLinked
  <2>2. DOMAIN own = DOMAIN names /\ own = [i \in DOMAIN own |-> own[i]]
    OBVIOUS
  <2> HIDE DEF own, names
  <2>3. IsSlice(own) /\ ToSet(own) = {own[i] : i \in DOMAIN names}
    BY <1>2, <2>2, MappedSlice
  <2>4. Heads(own) = {[how |-> own[i].how, text |-> own[i].entry.text] : i \in DOMAIN names}
    BY <2>3 DEF Heads
  <2>5. \A i \in DOMAIN names : [how |-> own[i].how, text |-> own[i].entry.text] = Prefixed(names[i].entry.text)
    BY <2>1
  <2> HIDE DEF Prefixed
  <2>6. Heads(own) = {Prefixed(names[i].entry.text) : i \in DOMAIN names}
    BY <2>4, <2>5
  <2> QED BY <2>3, <2>6 DEF ToSet
<1>31. \A text : Linked("function", text) \in ToSet(names) => Prefixed(text) \in Heads(own)
  <2> TAKE text
  <2> HIDE DEF names, own, Prefixed
  <2> HAVE Linked("function", text) \in ToSet(names)
  <2>1. Linked("function", text).entry.text = text
    BY HeadOfLinked
  <2>2. Prefixed(Linked("function", text).entry.text) \in Heads(own)
    BY <1>3
  <2> QED BY <2>1, <2>2
<1>4. CASE m.generics = <<>>
  <2>1. mono = <<Linked("function", Spelling[m.name])>>
    BY <1>4 DEF LinkedMonomorphs
  <2>2. Linked("function", Spelling[m.name]) \in ToSet(names)
    <3> HIDE DEF mono, dispatcher
    <3> QED BY <1>2, <2>1, SmallSlices
  <2>3. Prefixed(Spelling[m.name]) \in Heads(own)
    <3> HIDE DEF names, own, Prefixed
    <3> QED BY <1>31, <2>2
  <2>4. IsSlice(<<one>>) /\ Heads(<<one>>) = {Prefixed(Spelling[m.name])}
    <3>1. one.how = "function" /\ one.entry.text = prefix \o Spelling[m.name]
      <4> DEFINE text == prefix \o Spelling[m.name]
      <4> HIDE DEF text
      <4>1. Keyed("function", text, Written(m), env).entry.text = text
        BY HeadOfKeyed
      <4>2. Keyed("function", text, Written(m), env).how = "function"
        BY HeadOfKeyed
      <4> QED BY <4>1, <4>2 DEF text
    <3>2. [how |-> one.how, text |-> one.entry.text] = Prefixed(Spelling[m.name])
      BY <3>1
    <3> HIDE DEF one, Prefixed
    <3> QED BY <3>2, SmallSlices DEF Heads
  <2>5. Covers(own, <<one>>)
    <3> HIDE DEF own, one, Prefixed
    <3> QED BY <1>3, <2>3, <2>4 DEF Covers
  <2> QED BY <1>4, <2>5
<1>5. CASE m.generics # <<>>
  <2>1. mono = [i \in DOMAIN m.insts |-> Linked("function", PlainName(m.name, m.insts[i]))]
    BY <1>5 DEF LinkedMonomorphs
  <2>2. IsSlice(each) /\ Heads(each) \subseteq Heads(own)
    <3>1. IsSlice(each) /\ DOMAIN each = DOMAIN m.insts /\ ToSet(each) = {each[i] : i \in DOMAIN m.insts}
      BY MappedSlice DEF PlainInsts
    <3>2. ASSUME NEW i \in DOMAIN m.insts
          PROVE  [how |-> each[i].how, text |-> each[i].entry.text] \in Heads(own)
      <4> DEFINE text == PlainName(m.name, m.insts[i])
      <4>1. m.insts[i] \in ToSet(m.insts)
        BY DEF ToSet
      <4>2. FnInstanceName(r, m.name, m.insts[i]) = text
        BY <4>1, PlainNameIsName DEF PlainInsts
      <4>3. each[i].how = "function" /\ each[i].entry.text = prefix \o text
        <5> DEFINE full == prefix \o text
        <5>1. each[i] = Keyed("function", full, Written(m), FnEnv(m, m.insts[i], env))
          BY <4>2
        <5>2. each[i].how = "function" /\ each[i].entry.text = full
          <6> HIDE DEF full, each
          <6> QED BY <5>1, HeadOfKeyed
        <5> HIDE DEF each
        <5> QED BY <5>2
      <4>4. Linked("function", text) \in ToSet(mono)
        BY <2>1 DEF ToSet
      <4>5. Prefixed(text) \in Heads(own)
        <5> HIDE DEF mono, dispatcher, text, names, own, Prefixed
        <5> QED BY <1>2, <1>31, <4>4
      <4>6. [how |-> each[i].how, text |-> each[i].entry.text] = Prefixed(text)
        <5> HIDE DEF each, text
        <5> QED BY <4>3
      <4> HIDE DEF each, own, text, Prefixed
      <4> QED BY <4>5, <4>6
    <3> HIDE DEF each, own
    <3> QED BY <3>1, <3>2 DEF Heads
  <2>3. IsSlice(erased) /\ Heads(erased) \subseteq Heads(own)
    <3> DEFINE entry == Keyed("function", prefix \o DynText(m), {}, NoEnv)
    <3>1. CASE m.dyn
      <4>1. dispatcher = <<Linked("function", DynText(m))>> /\ erased = <<entry>>
        BY <1>5, <3>1 DEF LinkedDispatcher, Dispatcher
      <4>2. entry.how = "function" /\ entry.entry.text = prefix \o DynText(m)
        <5> DEFINE full == prefix \o DynText(m)
        <5>1. entry = Keyed("function", full, {}, NoEnv)
          OBVIOUS
        <5>2. entry.how = "function" /\ entry.entry.text = full
          <6> HIDE DEF full, entry
          <6> QED BY <5>1, HeadOfKeyed
        <5> HIDE DEF entry
        <5> QED BY <5>2
      <4> HIDE DEF entry, erased, dispatcher, mono
      <4>3. Linked("function", DynText(m)) \in ToSet(names)
        BY <1>2, <4>1, SmallSlices
      <4>4. Prefixed(DynText(m)) \in Heads(own)
        <5> HIDE DEF names, own, Prefixed
        <5> QED BY <1>31, <4>3
      <4>5. [how |-> entry.how, text |-> entry.entry.text] = Prefixed(DynText(m))
        BY <4>2
      <4> HIDE DEF Prefixed, own
      <4> QED BY <4>1, <4>4, <4>5, SmallSlices DEF Heads
    <3>2. CASE ~m.dyn
      <4>1. erased = <<>>
        BY <3>2 DEF Dispatcher
      <4> HIDE DEF erased
      <4> QED BY <4>1, SmallSlices DEF Heads
    <3> QED BY <3>1, <3>2
  <2>4. Covers(own, each \o erased)
    <3> HIDE DEF own, each, erased
    <3>1. IsSlice(each \o erased) /\ ToSet(each \o erased) = ToSet(each) \cup ToSet(erased)
      BY <2>2, <2>3, ConcatSlices
    <3>2. Heads(each \o erased) = Heads(each) \cup Heads(erased)
      BY <3>1 DEF Heads
    <3> QED BY <1>3, <2>2, <2>3, <3>1, <3>2 DEF Covers
  <2> QED BY <1>5, <2>4
<1> QED BY <1>4, <1>5

\* All the companions of an enum.
LEMMA CompanionsCovered ==
  ASSUME NEW r, NEW e, IsSlice(e.methods), \A m \in ToSet(e.methods) : PlainInsts(m),
         NEW env, NEW prefix
  PROVE  Covers(LinkedCompanions(e, prefix), Companions(r, e, env, prefix))
<1> DEFINE names(m) == LinkedMonomorphs(m, "function") \o LinkedDispatcher(m, "function")
           own(m) == [i \in DOMAIN names(m) |-> Linked("function", prefix \o names(m)[i].entry.text)]
           companion(m) ==
             IF m.generics = <<>>
             THEN <<Keyed("function", prefix \o Spelling[m.name], Written(m), env)>>
             ELSE [i \in DOMAIN m.insts |->
                     Keyed("function", prefix \o FnInstanceName(r, m.name, m.insts[i]),
                           Written(m), FnEnv(m, m.insts[i], env))]
                  \o Dispatcher(m, "function", prefix \o DynText(m))
           a == [i \in DOMAIN e.methods |-> own(e.methods[i])]
           b == [i \in DOMAIN e.methods |-> companion(e.methods[i])]
<1>1. ASSUME NEW i \in DOMAIN e.methods PROVE Covers(a[i], b[i])
  <2>1. PlainInsts(e.methods[i])
    BY DEF ToSet
  <2>2. Covers(own(e.methods[i]), companion(e.methods[i]))
    BY <2>1, CompanionCovered
  <2> QED BY <2>2
<1>2. LinkedCompanions(e, prefix) = FlattenSeq(a) /\ Companions(r, e, env, prefix) = FlattenSeq(b)
  BY DEF LinkedCompanions, Companions
<1>3. /\ DOMAIN a = DOMAIN e.methods /\ a = [i \in DOMAIN a |-> a[i]]
      /\ DOMAIN b = DOMAIN e.methods /\ b = [i \in DOMAIN b |-> b[i]]
  OBVIOUS
<1> HIDE DEF a, b
<1> QED BY <1>1, <1>2, <1>3, CoverFlattened

\* The projections and the properties of a record.
LEMMA RecordCovered ==
  ASSUME NEW s, IsStruct(s), Projects(s), NEW env, NEW prefix, NEW raw
  PROVE  Covers(LinkedRecord(s, prefix, raw), RecordMembers(s, env, prefix, raw))
<1> DEFINE p == Projections(s)
           text(i) == prefix \o ProjectionText(p[i])
           a == [i \in DOMAIN p |-> LinkedAs("function", text(i), "projection")]
           b == [i \in DOMAIN p |-> Member("function", EntryAs(text(i), "projection"), p[i].types, env)]
           linked(t) == LinkedAs("function", Dashed(raw, t), "accessor")
           written(n, t) == Member("function", EntryAs(Dashed(raw, t), "accessor"), {n.ty}, env)
           setter(n) == <<"set">> \o Spelling[n.name]
           linkedProperty(n) == <<linked(Spelling[n.name])>>
                                \o (IF n.readonly THEN <<>> ELSE <<linked(setter(n))>>)
           property(n) == <<written(n, Spelling[n.name])>>
                          \o (IF n.readonly THEN <<>> ELSE <<written(n, setter(n))>>)
           c == [i \in DOMAIN s.properties |-> linkedProperty(s.properties[i])]
           d == [i \in DOMAIN s.properties |-> property(s.properties[i])]
<1>1. IsSlice(p) /\ IsSlice(s.properties)
  BY ProjectionsAre DEF IsStruct, AreNamed
<1>2. Covers(a, b)
  <2>1. ASSUME NEW i \in DOMAIN p PROVE SameHead(a[i], b[i])
    <3>1. a[i] = LinkedAs("function", text(i), "projection")
      OBVIOUS
    <3>2. b[i] = Member("function", EntryAs(text(i), "projection"), p[i].types, env)
      OBVIOUS
    <3>3. EntryAs(text(i), "projection").text = text(i)
      BY DEF EntryAs
    <3> HIDE DEF p, text, a, b
    <3>4. a[i].how = "function" /\ a[i].entry.text = text(i)
      BY <3>1, HeadOfLinked
    <3>5. b[i].how = "function" /\ b[i].entry = EntryAs(text(i), "projection")
      BY <3>2, HeadOfMember
    <3> QED BY <3>3, <3>4, <3>5 DEF SameHead
  <2> HIDE DEF p, text
  <2> QED BY <1>1, <2>1, CoverMapped
<1>3. ASSUME NEW n PROVE Covers(linkedProperty(n), property(n))
  <2>1. ASSUME NEW t PROVE Covers(<<linked(t)>>, <<written(n, t)>>)
    <3> DEFINE full == Dashed(raw, t)
    <3>1. linked(t) = LinkedAs("function", full, "accessor")
      OBVIOUS
    <3>2. written(n, t) = Member("function", EntryAs(full, "accessor"), {n.ty}, env)
      OBVIOUS
    <3>3. EntryAs(full, "accessor").text = full
      BY DEF EntryAs
    <3> HIDE DEF full, linked, written
    <3>4. linked(t).how = "function" /\ linked(t).entry.text = full
      BY <3>1, HeadOfLinked
    <3>5. written(n, t).how = "function" /\ written(n, t).entry = EntryAs(full, "accessor")
      BY <3>2, HeadOfMember
    <3>6. SameHead(linked(t), written(n, t))
      BY <3>3, <3>4, <3>5 DEF SameHead
    <3> QED BY <3>6, CoverOne
  <2> HIDE DEF linked, written, setter
  <2>2. CASE n.readonly
    <3>1. /\ linkedProperty(n) = <<linked(Spelling[n.name])>> \o <<>>
          /\ property(n) = <<written(n, Spelling[n.name])>> \o <<>>
      BY <2>2
    <3> HIDE DEF linkedProperty, property
    <3> QED BY <2>1, <3>1, CoverNothing, CoverConcat
  <2>3. CASE ~n.readonly
    <3>1. /\ linkedProperty(n) = <<linked(Spelling[n.name])>> \o <<linked(setter(n))>>
          /\ property(n) = <<written(n, Spelling[n.name])>> \o <<written(n, setter(n))>>
      BY <2>3
    <3> HIDE DEF linkedProperty, property
    <3> QED BY <2>1, <3>1, CoverConcat
  <2> QED BY <2>2, <2>3
<1>4. Covers(FlattenSeq(c), FlattenSeq(d))
  <2> HIDE DEF linkedProperty, property
  <2>1. \A i \in DOMAIN s.properties : Covers(c[i], d[i])
    BY <1>3
  <2> QED BY <1>1, <2>1, CoverFlattened
<1>5. LinkedRecord(s, prefix, raw) = a \o FlattenSeq(c)
  BY DEF LinkedRecord
<1>6. RecordMembers(s, env, prefix, raw) = b \o FlattenSeq(d)
  BY DEF RecordMembers
<1> HIDE DEF a, b, c, d
<1> QED BY <1>2, <1>4, <1>5, <1>6, CoverConcat

\* A function of a module: both sides mangle with the plan.
LEMMA FunctionCovered ==
  ASSUME NEW r, NEW f, NEW insts, IsSlice(insts), NEW env
  PROVE  Covers(LinkedFunction(r, f, insts), FunctionMembers(r, f, insts, env, "provided"))
<1> DEFINE one == Keyed("function", Spelling[f.name], Written(f), env)
           a == [i \in DOMAIN insts |-> Linked("function", FnInstanceName(r, f.name, insts[i]))]
           b == Monomorphs(r, f, insts, env, "function")
<1>1. CASE f.generics = <<>>
  <2>1. /\ LinkedFunction(r, f, insts) = <<Linked("function", Spelling[f.name])>>
        /\ FunctionMembers(r, f, insts, env, "provided") = <<one>>
    BY <1>1 DEF LinkedFunction, FunctionMembers
  <2>2. SameHead(Linked("function", Spelling[f.name]), one)
    BY HeadOfLinked, HeadOfKeyed DEF SameHead
  <2> HIDE DEF one
  <2> QED BY <2>1, <2>2, CoverOne
<1>2. CASE f.generics # <<>>
  <2>1. /\ LinkedFunction(r, f, insts) = a \o LinkedDispatcher(f, "function")
        /\ FunctionMembers(r, f, insts, env, "provided") = b \o Dispatcher(f, "function", DynText(f))
    BY <1>2 DEF LinkedFunction, FunctionMembers
  <2>2. DOMAIN b = DOMAIN insts /\ b = [i \in DOMAIN b |-> b[i]]
    BY DEF Monomorphs
  <2>3. ASSUME NEW i \in DOMAIN insts PROVE SameHead(a[i], b[i])
    <3> DEFINE text == FnInstanceName(r, f.name, insts[i])
    <3>1. a[i] = Linked("function", text)
      OBVIOUS
    <3>2. b[i] = Keyed("function", text, Written(f), FnEnv(f, insts[i], env))
      BY DEF Monomorphs
    <3> HIDE DEF a, b, text
    <3> QED BY <3>1, <3>2, HeadOfLinked, HeadOfKeyed DEF SameHead
  <2>4. DOMAIN a = DOMAIN insts /\ a = [i \in DOMAIN a |-> a[i]]
    OBVIOUS
  <2> HIDE DEF a, b
  <2>5. Covers(a, b)
    BY <2>2, <2>3, <2>4, CoverMapped
  <2> QED BY <1>2, <2>1, <2>5, DispatcherCovered, CoverConcat
<1> QED BY <1>1, <1>2

-----------------------------------------------------------------------------
\* What `bind` checks of a type before it defines anything for it.
TypeBound(r, id) ==
  /\ id \notin Ids(r.aliases) =>
       \A m \in ToSet(WithId(r.structs \o r.enums, id).methods) :
         \A args \in ToSet(m.insts) : \A t \in ToSet(args) : PlainMangles(t)
  /\ id \in Ids(r.structs) => Projects(WithId(r.structs, id))

\* The functions that a type adds to its interface are linked.
LEMMA TypeCovered ==
  ASSUME NEW r, IsRegistry(r), UniqueTypes(r), NEW d, TypeBound(r, d.id)
  PROVE  Covers(LinkedType(r, d), TypeFunctions(r, d.id, d.env))
<1> DEFINE t == WithId(ValueTypes(r), d.id)
           name == IF d.env.self = "" THEN Spelling[t.name] ELSE d.env.name
           prefix == IF d.env.self = "" THEN Under(name) ELSE name
<1>1. CASE d.id \in Ids(r.enums)
  <2>1. /\ d.id \notin Ids(r.structs) /\ d.id \notin Ids(r.aliases)
        /\ t = WithId(r.structs \o r.enums, d.id) /\ IsEnum(t)
    BY <1>1, ValueTypeOf
  <2>2. LinkedType(r, d) = LinkedCompanions(t, prefix)
    BY <1>1 DEF LinkedType
  <2>3. TypeFunctions(r, d.id, d.env) = Companions(r, t, d.env, prefix)
    BY <1>1, <2>1 DEF TypeFunctions
  <2> HIDE DEF t, prefix
  <2>4. IsSlice(t.methods) /\ \A m \in ToSet(t.methods) : PlainInsts(m)
    BY <2>1 DEF IsEnum, AreFunctions, PlainInsts, TypeBound
  <2> QED BY <2>2, <2>3, <2>4, CompanionsCovered
<1>2. CASE d.id \notin Ids(r.enums) /\ d.id \in Ids(r.structs) /\ ~IsResource(r, d.id)
  <2>1. t = WithId(r.structs, d.id) /\ IsStruct(t) /\ Projects(t)
    BY <1>2, ValueTypeOf DEF TypeBound
  <2>2. LinkedType(r, d) = LinkedRecord(t, prefix, name)
    BY <1>2 DEF LinkedType
  <2>3. TypeFunctions(r, d.id, d.env) = RecordMembers(t, d.env, prefix, name)
    BY <1>2 DEF TypeFunctions
  <2> HIDE DEF t, prefix, name
  <2> QED BY <2>1, <2>2, <2>3, RecordCovered
<1>3. CASE d.id \notin Ids(r.enums) /\ ~(d.id \in Ids(r.structs) /\ ~IsResource(r, d.id))
  <2>1. LinkedType(r, d) = <<>> /\ TypeFunctions(r, d.id, d.env) = <<>>
    BY <1>3 DEF LinkedType, TypeFunctions
  <2> QED BY <2>1, CoverNothing
<1> QED BY <1>1, <1>2, <1>3

\* What an interface defines: its types, and instances of generic ones.
LEMMA DefinedAre ==
  ASSUME NEW p, NEW iface, IsSlice(iface.types), IsSlice(iface.instances)
  PROVE  IsSlice(Defined(p, iface))
<1> DEFINE a == [i \in DOMAIN iface.types |-> [id |-> iface.types[i], env |-> NoEnv]]
           b == [i \in DOMAIN iface.instances |->
                   [id |-> iface.instances[i].id, env |-> EnvFor(p, iface.instances[i])]]
<1>1. IsSlice(a) /\ IsSlice(b)
  BY MappedSlice
<1>2. Defined(p, iface) = a \o b
  BY DEF Defined
<1> HIDE DEF a, b
<1> QED BY <1>1, <1>2, ConcatSlices

\* `bind` defines the functions of an interface that the document has.
LEMMA FunctionsCovered ==
  ASSUME NEW p, IsRegistry(p.reg), UniqueTypes(p.reg),
         NEW iface, IsProvided(iface, p.reg), iface.direction = "provided",
         \A d \in ToSet(Defined(p, iface)) : TypeBound(p.reg, d.id)
  PROVE  Covers(LinkedFunctions(p, iface), InterfaceFunctions(p, iface))
<1> DEFINE types == Defined(p, iface)
           fns == iface.functions
           insts(i) == InstantiationsOf(fns[i], iface.fnInsts)
           a == [i \in DOMAIN types |-> LinkedType(p.reg, types[i])]
           b == [i \in DOMAIN types |-> TypeFunctions(p.reg, types[i].id, types[i].env)]
           c == [i \in DOMAIN fns |-> LinkedFunction(p.reg, fns[i], insts(i))]
           d == [i \in DOMAIN fns |->
                   FunctionMembers(p.reg, fns[i], insts(i), IfaceEnv(p, iface), iface.direction)]
           e == [i \in DOMAIN iface.constants |-> Linked("function", Spelling[iface.constants[i].name])]
           f == [i \in DOMAIN iface.constants |->
                   Keyed("function", Spelling[iface.constants[i].name], {iface.constants[i].ty}, NoEnv)]
<1>1. IsSlice(types) /\ IsSlice(fns) /\ IsSlice(iface.constants)
  BY DefinedAre DEF IsProvided, AreFunctions
<1>2. Covers(FlattenSeq(a), FlattenSeq(b))
  <2>1. \A i \in DOMAIN types : types[i] \in ToSet(types)
    BY DEF ToSet
  <2> HIDE DEF types
  <2>2. \A i \in DOMAIN types : Covers(a[i], b[i])
    BY <2>1, TypeCovered DEF types
  <2> QED BY <1>1, <2>2, CoverFlattened
<1>3. Covers(FlattenSeq(c), FlattenSeq(d))
  <2>1. ASSUME NEW i \in DOMAIN fns PROVE Covers(c[i], d[i])
    <3>1. fns[i] \in ToSet(fns)
      BY DEF ToSet
    <3>2. IsSlice(fns[i].insts) /\ IsSlice(iface.fnInsts)
      BY <3>1 DEF IsProvided, AreFunctions
    <3>3. IsSlice(insts(i))
      <4> HIDE DEF fns
      <4> QED BY <3>2, InstantiationsAre
    <3> HIDE DEF insts, fns
    <3>4. d[i] = FunctionMembers(p.reg, fns[i], insts(i), IfaceEnv(p, iface), "provided")
      OBVIOUS
    <3>5. c[i] = LinkedFunction(p.reg, fns[i], insts(i))
      OBVIOUS
    <3> HIDE DEF c, d
    <3> QED BY <3>3, <3>4, <3>5, FunctionCovered
  <2> HIDE DEF insts
  <2> QED BY <1>1, <2>1, CoverFlattened
<1>4. Covers(e, f)
  <2>1. \A i \in DOMAIN iface.constants : SameHead(e[i], f[i])
    BY HeadOfLinked, HeadOfKeyed DEF SameHead
  <2> QED BY <1>1, <2>1, CoverMapped
<1>5. LinkedFunctions(p, iface) = FlattenSeq(a) \o FlattenSeq(c) \o (IF Getters THEN e ELSE <<>>)
  BY DEF LinkedFunctions
<1>6. InterfaceFunctions(p, iface) = FlattenSeq(b) \o FlattenSeq(d) \o (IF Getters THEN f ELSE <<>>)
  BY DEF InterfaceFunctions
<1> HIDE DEF a, b, c, d, e, f
<1>7. Covers(IF Getters THEN e ELSE <<>>, IF Getters THEN f ELSE <<>>)
  BY <1>4, CoverNothing
<1> QED BY <1>2, <1>3, <1>5, <1>6, <1>7, CoverConcat

\* ... and each of its resources.
LEMMA ResourcesCovered ==
  ASSUME NEW p, IsRegistry(p.reg), UniqueTypes(p.reg),
         NEW iface, IsProvided(iface, p.reg),
         \A d \in ToSet(Defined(p, iface)) : TypeBound(p.reg, d.id),
         NEW i \in DOMAIN ResourcesIn(p, iface)
  PROVE  LET d == ResourcesIn(p, iface)[i]
             s == WithId(p.reg.structs, d.id)
         IN  Covers(LinkedResource(s), ResourceMembers(p.reg, s, d.env))
<1> DEFINE types == Defined(p, iface)
           at == {j \in DOMAIN types : IsResource(p.reg, types[j].id)}
           kept == Kept(types, at)
           d == kept[i]
           s == WithId(p.reg.structs, d.id)
<1>1. ResourcesIn(p, iface) = kept /\ IsSlice(types)
  BY DefinedAre DEF ResourcesIn, IsProvided
<1>2. d \in ToSet(types) /\ IsResource(p.reg, d.id)
  <2>1. ToSet(kept) = {types[j] : j \in DOMAIN types \cap at}
    <3> HIDE DEF at, types
    <3> QED BY <1>1, KeptSlice
  <2>2. kept[i] \in ToSet(kept)
    <3> HIDE DEF kept
    <3> QED BY <1>1 DEF ToSet
  <2>3. \A j \in DOMAIN types : types[j] \in ToSet(types)
    BY DEF ToSet
  <2> HIDE DEF kept, types
  <2> QED BY <2>1, <2>2, <2>3
<1> HIDE DEF d
<1>3. d.id \in Ids(p.reg.structs)
  BY <1>2, IdsOf DEF IsResource
<1>4. /\ IsStruct(s) /\ WithId(p.reg.structs \o p.reg.enums, d.id) = s
      /\ d.id \notin Ids(p.reg.aliases)
  BY <1>3, ValueTypeOf
<1>5. TypeBound(p.reg, d.id)
  BY <1>2
<1> HIDE DEF s
<1>6. \A m \in ToSet(s.methods) : PlainInsts(m)
  BY <1>4, <1>5 DEF TypeBound, IsStruct, AreFunctions, PlainInsts
<1>7. Projects(s)
  BY <1>3, <1>5 DEF TypeBound, s
<1>8. Covers(LinkedResource(s), ResourceMembers(p.reg, s, d.env))
  BY <1>4, <1>6, <1>7, ResourceCovered
<1> QED BY <1>1, <1>8 DEF s, d

\* The document as the texts of its members.
TextsIn(members) == [i \in DOMAIN members |->
                      [how |-> members[i].how, name |-> ToKebab(members[i].entry.text)]]

\* What is written has a definition under the name it is written with.
LEMMA TextsOf ==
  ASSUME NEW written, NEW linked, Covers(linked, written), NEW f \in ToSet(TextsIn(written))
  PROVE  \E i \in DOMAIN linked : f = [how |-> linked[i].how, name |-> ToKebab(linked[i].entry.text)]
<1>1. PICK j \in DOMAIN written :
        f = [how |-> written[j].how, name |-> ToKebab(written[j].entry.text)]
  BY DEF ToSet, TextsIn
<1>2. [how |-> written[j].how, text |-> written[j].entry.text] \in Heads(written)
  BY DEF Heads, ToSet
<1>3. [how |-> written[j].how, text |-> written[j].entry.text] \in Heads(linked)
  BY <1>2 DEF Covers
<1>4. PICK i \in DOMAIN linked :
        [how |-> written[j].how, text |-> written[j].entry.text]
          = [how |-> linked[i].how, text |-> linked[i].entry.text]
  BY <1>3 DEF Heads, ToSet
<1> QED BY <1>1, <1>4

\* The definitions of one interface in the linker.
LocalName(m) == IF m.how = "constructor" THEN <<>> ELSE ToKebab(m.entry.text)

DefinitionsOf(p, iface) ==
  LET rs == LinkedResources(p, iface)
      fns == LinkedFunctions(p, iface)
      Flat(r) == <<[how |-> "resource", res |-> r.name, name |-> <<>>]>>
                 \o [i \in DOMAIN r.members |->
                       [how |-> r.members[i].how, res |-> r.name, name |-> LocalName(r.members[i])]]
  IN  FlattenSeq([i \in DOMAIN rs |-> Flat(rs[i])])
      \o [i \in DOMAIN fns |-> [how |-> fns[i].how, res |-> <<>>, name |-> ToKebab(fns[i].entry.text)]]

\* The definitions of an interface hold its functions, resources and members.
LEMMA LinkerHas ==
  ASSUME NEW p, IsRegistry(p.reg), UniqueTypes(p.reg),
         NEW iface, IsProvided(iface, p.reg), iface.direction = "provided",
         \A d \in ToSet(Defined(p, iface)) : TypeBound(p.reg, d.id)
  PROVE  /\ \A f \in ToSet(TextsIn(InterfaceFunctions(p, iface))) :
              [how |-> f.how, res |-> <<>>, name |-> f.name] \in ToSet(DefinitionsOf(p, iface))
         /\ \A i \in DOMAIN ResourcesIn(p, iface) :
              LET d == ResourcesIn(p, iface)[i]
                  name == DefinedName(p, d)
                  members == ResourceMembers(p.reg, WithId(p.reg.structs, d.id), d.env)
              IN  /\ [how |-> "resource", res |-> name, name |-> <<>>] \in ToSet(DefinitionsOf(p, iface))
                  /\ \A m \in ToSet(TextsIn(members)) :
                       [how |-> m.how, res |-> name,
                        name |-> IF m.how = "constructor" THEN <<>> ELSE m.name]
                         \in ToSet(DefinitionsOf(p, iface))
<1> DEFINE rs == LinkedResources(p, iface)
           fns == LinkedFunctions(p, iface)
           first(r) == <<[how |-> "resource", res |-> r.name, name |-> <<>>]>>
           rest(r) == [i \in DOMAIN r.members |->
                         [how |-> r.members[i].how, res |-> r.name, name |-> LocalName(r.members[i])]]
           Flat(r) == first(r) \o rest(r)
           flats == [i \in DOMAIN rs |-> Flat(rs[i])]
           functions == [i \in DOMAIN fns |-> [how |-> fns[i].how, res |-> <<>>,
                                               name |-> ToKebab(fns[i].entry.text)]]
           resources == ResourcesIn(p, iface)
           struct(i) == WithId(p.reg.structs, resources[i].id)
           written(i) == ResourceMembers(p.reg, struct(i), resources[i].env)
           name(i) == DefinedName(p, resources[i])
<1>1. DefinitionsOf(p, iface) = FlattenSeq(flats) \o functions
  BY DEF DefinitionsOf
<1>2. Covers(fns, InterfaceFunctions(p, iface))
  BY FunctionsCovered
<1>3. IsSlice(functions)
  <2>1. IsSlice(fns)
    BY <1>2 DEF Covers
  <2> HIDE DEF fns
  <2> QED BY <2>1, MappedSlice
<1>4. IsSlice(resources)
  <2>1. IsSlice(Defined(p, iface))
    BY DefinedAre DEF IsProvided
  <2> QED BY <2>1, KeptSlice DEF ResourcesIn
<1>5. /\ DOMAIN rs = DOMAIN resources
      /\ \A i \in DOMAIN resources : rs[i] = [name |-> name(i), members |-> LinkedResource(struct(i))]
  BY DEF LinkedResources
<1>6. \A i \in DOMAIN resources : Covers(LinkedResource(struct(i)), written(i))
  <2> TAKE i \in DOMAIN resources
  <2> QED BY ResourcesCovered
<1> HIDE DEF fns, rs, resources, struct, written, name
<1>7. ASSUME NEW i \in DOMAIN rs
      PROVE  /\ IsSlice(Flat(rs[i]))
             /\ ToSet(Flat(rs[i])) = ToSet(first(rs[i])) \cup ToSet(rest(rs[i]))
             /\ ToSet(first(rs[i])) = {[how |-> "resource", res |-> rs[i].name, name |-> <<>>]}
  <2>1. IsSlice(first(rs[i])) /\ ToSet(first(rs[i])) = {[how |-> "resource", res |-> rs[i].name, name |-> <<>>]}
    BY SmallSlices
  <2>2. IsSlice(rs[i].members)
    BY <1>5, <1>6 DEF Covers
  <2>3. IsSlice(rest(rs[i]))
    BY <2>2, MappedSlice
  <2> HIDE DEF first, rest
  <2> QED BY <2>1, <2>3, ConcatSlices
<1>8. /\ IsSlice(FlattenSeq(flats))
      /\ ToSet(FlattenSeq(flats)) = UNION {ToSet(Flat(rs[i])) : i \in DOMAIN rs}
  <2>0. IsSlice(rs)
    <3>1. rs = [i \in DOMAIN resources |-> rs[i]]
      BY <1>5 DEF LinkedResources, rs, resources
    <3> QED BY <1>4, <1>5, <3>1, MappedSlice
  <2>1. IsSlice(flats) /\ DOMAIN flats = DOMAIN rs /\ \A i \in DOMAIN rs : flats[i] = Flat(rs[i])
    <3> HIDE DEF Flat
    <3> QED BY <2>0, MappedSlice
  <2> HIDE DEF flats, Flat
  <2>2. \A i \in DOMAIN flats : IsSlice(flats[i])
    BY <1>7, <2>1
  <2>3. /\ IsSlice(FlattenSeq(flats))
        /\ ToSet(FlattenSeq(flats)) = UNION {ToSet(flats[i]) : i \in DOMAIN flats}
    BY <2>1, <2>2, FlattenSlices
  <2> QED BY <2>1, <2>3
<1>9. /\ ToSet(functions) \subseteq ToSet(DefinitionsOf(p, iface))
      /\ \A i \in DOMAIN rs : ToSet(Flat(rs[i])) \subseteq ToSet(DefinitionsOf(p, iface))
  <2> HIDE DEF functions, flats, Flat
  <2>1. ToSet(DefinitionsOf(p, iface)) = ToSet(FlattenSeq(flats)) \cup ToSet(functions)
    BY <1>1, <1>3, <1>8, ConcatSlices
  <2> QED BY <1>8, <2>1
<1>10. ASSUME NEW f \in ToSet(TextsIn(InterfaceFunctions(p, iface)))
       PROVE  [how |-> f.how, res |-> <<>>, name |-> f.name] \in ToSet(DefinitionsOf(p, iface))
  <2>1. PICK i \in DOMAIN fns : f = [how |-> fns[i].how, name |-> ToKebab(fns[i].entry.text)]
    BY <1>2, TextsOf
  <2>2. functions[i] = [how |-> f.how, res |-> <<>>, name |-> f.name] /\ i \in DOMAIN functions
    BY <2>1
  <2> HIDE DEF functions
  <2> QED BY <1>9, <2>2 DEF ToSet
<1>11. ASSUME NEW i \in DOMAIN resources
       PROVE  /\ [how |-> "resource", res |-> name(i), name |-> <<>>] \in ToSet(DefinitionsOf(p, iface))
              /\ \A m \in ToSet(TextsIn(written(i))) :
                   [how |-> m.how, res |-> name(i), name |-> IF m.how = "constructor" THEN <<>> ELSE m.name]
                     \in ToSet(DefinitionsOf(p, iface))
  <2>1. rs[i].name = name(i) /\ rs[i].members = LinkedResource(struct(i)) /\ i \in DOMAIN rs
    BY <1>5
  <2>2. [how |-> "resource", res |-> name(i), name |-> <<>>] \in ToSet(DefinitionsOf(p, iface))
    <3> HIDE DEF Flat, first, rest
    <3> QED BY <1>7, <1>9, <2>1
  <2>3. ASSUME NEW m \in ToSet(TextsIn(written(i)))
        PROVE  [how |-> m.how, res |-> name(i), name |-> IF m.how = "constructor" THEN <<>> ELSE m.name]
                 \in ToSet(DefinitionsOf(p, iface))
    <3> DEFINE linked == LinkedResource(struct(i))
    <3>1. Covers(linked, written(i))
      BY <1>6
    <3>2. PICK j \in DOMAIN linked : m = [how |-> linked[j].how, name |-> ToKebab(linked[j].entry.text)]
      BY <3>1, TextsOf
    <3> HIDE DEF linked
    <3>3. /\ rest(rs[i])[j] = [how |-> m.how, res |-> name(i),
                               name |-> IF m.how = "constructor" THEN <<>> ELSE m.name]
          /\ j \in DOMAIN rest(rs[i])
      BY <2>1, <3>2 DEF LocalName, linked
    <3>4. rest(rs[i])[j] \in ToSet(rest(rs[i]))
      <4> HIDE DEF rest
      <4> QED BY <3>3 DEF ToSet
    <3> HIDE DEF rest, first, Flat
    <3> QED BY <1>7, <1>9, <2>1, <3>3, <3>4
  <2> QED BY <2>2, <2>3
<1> QED BY <1>10, <1>11 DEF resources, struct, written, name

\* `bind` checks every type it defines something for.
LEMMA BoundTypes ==
  ASSUME NEW p, Binds(p), NEW k \in Linkable(p), NEW d \in ToSet(Defined(p, p.interfaces[k]))
  PROVE  TypeBound(p.reg, d.id)
BY DEF Binds, RuntimeMangles, TypeBound

\* The world a bound plan serves: the linker of the plan has what a component
\* built from the document of the same plan imports, but for escaped names.
LEMMA WorldServed ==
  ASSUME NEW r, IsRegistry(r), UniqueTypes(r), Binds(PlanOf(r)),
         NEW u \in Unserved(DocOf(PlanOf(r)), LinkerOf(PlanOf(r)))
  PROVE  \E text \in {u.interface, u.import.res, u.import.name} : Escaped(text)
<1> DEFINE p == PlanOf(r)
           doc == DocOf(p)
           linked == LinkerOf(p)
<1>1. p.reg = r
  BY DEF PlanOf, Planned
<1> HIDE DEF p
<1>2. PICK k \in DOMAIN doc :
        /\ doc[k].direction = "provided"
        /\ \E import \in ImportsOf(doc[k]) :
             /\ u = [interface |-> doc[k].name, import |-> import]
             /\ ~DefinedIn(linked, doc[k].name, import)
  <2> HIDE DEF doc, linked
  <2>1. u \in Unserved(doc, linked)
    BY DEF doc, linked, p
  <2>2. /\ u \in UNION {{[interface |-> doc[j].name, import |-> f] : f \in ImportsOf(doc[j])} :
                          j \in {d \in DOMAIN doc : doc[d].direction = "provided"}}
        /\ ~DefinedIn(linked, u.interface, u.import)
    BY <2>1 DEF Unserved
  <2>3. PICK j \in {d \in DOMAIN doc : doc[d].direction = "provided"} :
          u \in {[interface |-> doc[j].name, import |-> f] : f \in ImportsOf(doc[j])}
    BY <2>2
  <2> QED BY <2>2, <2>3
<1>21. PICK import \in ImportsOf(doc[k]) :
         /\ u = [interface |-> doc[k].name, import |-> import]
         /\ ~DefinedIn(linked, doc[k].name, import)
  BY <1>2
<1> DEFINE iface == p.interfaces[k]
           resources == ResourcesIn(p, iface)
<1>3. /\ k \in DOMAIN p.interfaces /\ ~IsEmpty(iface)
      /\ doc[k].name = iface.name /\ doc[k].direction = iface.direction
      /\ doc[k].functions = TextsIn(InterfaceFunctions(p, iface))
      /\ doc[k].resources
           = [i \in DOMAIN resources |->
                [name |-> DefinedName(p, resources[i]),
                 members |-> TextsIn(ResourceMembers(p.reg, WithId(p.reg.structs, resources[i].id),
                                                    resources[i].env))]]
  BY DEF DocOf, TextsIn
<1>4. k \in Linkable(p)
  BY <1>2, <1>3 DEF Linkable
<1>5. k \in DOMAIN linked /\ linked[k].name = iface.name /\ linked[k].defs = DefinitionsOf(p, iface)
  BY <1>4 DEF LinkerOf, DefinitionsOf, LocalName
<1> HIDE DEF doc, linked
<1>6. IsProvided(iface, p.reg) /\ iface.direction = "provided"
  BY <1>1, <1>2, <1>3, ProvidedInterfaces DEF p
<1>7. \A d \in ToSet(Defined(p, iface)) : TypeBound(p.reg, d.id)
  BY <1>4, BoundTypes DEF p
<1> HIDE DEF iface
<1>8. /\ import \in ToSet(DefinitionsOf(p, iface))
      /\ import = [how |-> import.how, res |-> import.res, name |-> import.name]
  <2> DEFINE Of(q) == {[how |-> "resource", res |-> q.name, name |-> <<>>]}
                      \cup {[how |-> m.how, res |-> q.name,
                             name |-> IF m.how = "constructor" THEN <<>> ELSE m.name] :
                               m \in ToSet(q.members)}
  <2>1. CASE import \in {[how |-> f.how, res |-> <<>>, name |-> f.name] : f \in ToSet(doc[k].functions)}
    <3>1. PICK f \in ToSet(TextsIn(InterfaceFunctions(p, iface))) :
            import = [how |-> f.how, res |-> <<>>, name |-> f.name]
      BY <1>3, <2>1
    <3>2. [how |-> f.how, res |-> <<>>, name |-> f.name] \in ToSet(DefinitionsOf(p, iface))
      BY <1>1, <1>6, <1>7, LinkerHas
    <3> QED BY <3>1, <3>2
  <2>2. CASE import \in UNION {Of(q) : q \in ToSet(doc[k].resources)}
    <3>1. PICK i \in DOMAIN resources : import \in Of(doc[k].resources[i])
      <4> HIDE DEF Of
      <4>1. PICK q \in ToSet(doc[k].resources) : import \in Of(q)
        BY <2>2
      <4>2. DOMAIN doc[k].resources = DOMAIN resources
        BY <1>3
      <4>3. PICK i \in DOMAIN resources : q = doc[k].resources[i]
        BY <4>1, <4>2 DEF ToSet
      <4> QED BY <4>1, <4>3
    <3> DEFINE members == ResourceMembers(p.reg, WithId(p.reg.structs, resources[i].id), resources[i].env)
               name == DefinedName(p, resources[i])
    <3>2. doc[k].resources[i] = [name |-> name, members |-> TextsIn(members)]
      BY <1>3
    <3>3. /\ [how |-> "resource", res |-> name, name |-> <<>>] \in ToSet(DefinitionsOf(p, iface))
          /\ \A m \in ToSet(TextsIn(members)) :
               [how |-> m.how, res |-> name, name |-> IF m.how = "constructor" THEN <<>> ELSE m.name]
                 \in ToSet(DefinitionsOf(p, iface))
      BY <1>1, <1>6, <1>7, LinkerHas
    <3> HIDE DEF members, name, resources
    <3> QED BY <3>1, <3>2, <3>3
  <2>3. ImportsOf(doc[k]) = {[how |-> f.how, res |-> <<>>, name |-> f.name] : f \in ToSet(doc[k].functions)}
                            \cup UNION {Of(q) : q \in ToSet(doc[k].resources)}
    BY DEF ImportsOf
  <2> QED BY <2>1, <2>2, <2>3
<1>9. SUFFICES ASSUME ~Escaped(doc[k].name), ~Escaped(import.res), ~Escaped(import.name)
               PROVE  FALSE
  BY <1>21
<1>10. Parsed(import) = import /\ Identifier(doc[k].name) = doc[k].name
  BY <1>8, <1>9 DEF Parsed, Identifier
<1>11. DefinedIn(linked, doc[k].name, import)
  BY <1>3, <1>5, <1>8, <1>10 DEF DefinedIn
<1> QED BY <1>21, <1>11

-----------------------------------------------------------------------------
\* ... and the document has what a caller looks up for it.
LEMMA LookupCovered ==
  ASSUME NEW r, NEW planned \in BOOLEAN, NEW f, IsSlice(f.insts), NEW env,
         \A a \in ToSet(f.insts) : CallerMangles(r, planned, a)
  PROVE  Covers(FunctionMembers(r, f, InstantiationsOf(f, <<>>), env, "foreign"),
                LookedUp(r, planned, f))
<1> DEFINE insts == InstantiationsOf(f, <<>>)
           one == Keyed("function", Spelling[f.name], Written(f), env)
           erased == Keyed("function", Spelling[f.name], {}, NoEnv)
           plain == Linked("function", Spelling[f.name])
           mono == Monomorphs(r, f, insts, env, "function")
           dispatcher == Dispatcher(f, "function", DynText(f))
           each == [i \in DOMAIN f.insts |->
                      Linked("function", CallerName(r, planned, f.name, f.insts[i]))]
<1>0. SameHead(one, plain) /\ SameHead(erased, plain)
  BY HeadOfLinked, HeadOfKeyed DEF SameHead
<1>1. CASE f.generics = <<>>
  <2>1. FunctionMembers(r, f, insts, env, "foreign") = <<one>> /\ LookedUp(r, planned, f) = <<plain>>
    BY <1>1 DEF FunctionMembers, LookedUp
  <2> HIDE DEF one, plain, erased
  <2> QED BY <1>0, <2>1, CoverOne
<1>2. CASE f.generics # <<>> /\ f.dyn
  <2>1. FunctionMembers(r, f, insts, env, "foreign") = <<erased>> /\ LookedUp(r, planned, f) = <<plain>>
    BY <1>2 DEF FunctionMembers, LookedUp, Dispatcher
  <2> HIDE DEF one, plain, erased
  <2> QED BY <1>0, <2>1, CoverOne
<1>3. CASE f.generics # <<>> /\ ~f.dyn
  <2>1. FunctionMembers(r, f, insts, env, "foreign") = mono \o <<>> /\ LookedUp(r, planned, f) = each
    BY <1>3 DEF FunctionMembers, LookedUp, Dispatcher
  <2>2. IsSlice(insts) /\ ToSet(insts) = ToSet(f.insts)
    BY OwnInstantiations, InstantiationsAre, SmallSlices
  <2> HIDE DEF insts
  <2>3. IsSlice(mono) /\ DOMAIN mono = DOMAIN insts
    BY <2>2, MappedSlice DEF Monomorphs
  <2>4. IsSlice(each) /\ DOMAIN each = DOMAIN f.insts /\ ToSet(each) = {each[i] : i \in DOMAIN f.insts}
    BY MappedSlice
  <2>5. ASSUME NEW i \in DOMAIN f.insts
        PROVE  [how |-> each[i].how, text |-> each[i].entry.text] \in Heads(mono)
    <3> DEFINE text == FnInstanceName(r, f.name, f.insts[i])
    <3>1. f.insts[i] \in ToSet(f.insts)
      BY DEF ToSet
    <3>2. CallerName(r, planned, f.name, f.insts[i]) = text
      <4>1. planned = FALSE => \A t \in ToSet(f.insts[i]) : PlainMangles(t)
        BY <3>1 DEF CallerMangles
      <4> QED BY <4>1, PlainNameIsName DEF CallerName
    <3>3. PICK j \in DOMAIN insts : insts[j] = f.insts[i]
      BY <2>2, <3>1 DEF ToSet
    <3>4. mono[j] = Keyed("function", text, Written(f), FnEnv(f, insts[j], env))
      BY <3>3 DEF Monomorphs
    <3>5. each[i] = Linked("function", text)
      BY <3>2
    <3> HIDE DEF text, mono, each
    <3>6. each[i].how = "function" /\ each[i].entry.text = text
      BY <3>5, HeadOfLinked
    <3>7. mono[j].how = "function" /\ mono[j].entry.text = text
      BY <3>4, HeadOfKeyed
    <3>8. mono[j] \in ToSet(mono)
      BY <2>3 DEF ToSet
    <3> QED BY <3>6, <3>7, <3>8 DEF Heads
  <2> HIDE DEF mono, each
  <2>6. ASSUME NEW h \in Heads(each) PROVE h \in Heads(mono)
    <3>1. PICK m \in ToSet(each) : h = [how |-> m.how, text |-> m.entry.text]
      BY DEF Heads
    <3>2. PICK i \in DOMAIN f.insts : m = each[i]
      BY <2>4
    <3> QED BY <2>5, <3>1, <3>2
  <2>7. mono \o <<>> = mono
    BY <2>3, EmptyBehind
  <2>8. Covers(mono, each)
    BY <2>3, <2>4, <2>6 DEF Covers
  <2> QED BY <2>1, <2>7, <2>8 DEF insts
<1> QED BY <1>1, <1>2, <1>3

\* The functions written for a foreign interface are those a caller looks up.
LEMMA LookupsCovered ==
  ASSUME NEW p, NEW iface, NEW foreign, AreFunctions(foreign.functions),
         IsForeignIface(iface, foreign.functions),
         NEW planned \in BOOLEAN,
         \A f \in ToSet(foreign.functions) : \A a \in ToSet(f.insts) : CallerMangles(p.reg, planned, a)
  PROVE  Covers(InterfaceFunctions(p, iface), CallerLookups(p.reg, planned, foreign))
<1> DEFINE types == Defined(p, iface)
           fns == foreign.functions
           env == IfaceEnv(p, iface)
           a == [i \in DOMAIN types |-> TypeFunctions(p.reg, types[i].id, types[i].env)]
           b == [i \in DOMAIN fns |->
                   FunctionMembers(p.reg, fns[i], InstantiationsOf(fns[i], <<>>), env, "foreign")]
           c == [i \in DOMAIN iface.constants |->
                   Keyed("function", Spelling[iface.constants[i].name], {iface.constants[i].ty}, NoEnv)]
           d == [i \in DOMAIN fns |-> LookedUp(p.reg, planned, fns[i])]
<1>1. InterfaceFunctions(p, iface) = FlattenSeq(a) \o FlattenSeq(b) \o (IF Getters THEN c ELSE <<>>)
  BY DEF InterfaceFunctions, IsForeignIface
<1>2. CallerLookups(p.reg, planned, foreign) = FlattenSeq(d)
  BY DEF CallerLookups
<1>3. IsSlice(FlattenSeq(a))
  <2>1. IsSlice(types) /\ DOMAIN types = {}
    <3>1. IsSlice(types)
      BY DefinedAre, SmallSlices DEF IsForeignIface
    <3>2. [i \in DOMAIN <<>> |-> [id |-> <<>>[i], env |-> NoEnv]] = <<>>
      OBVIOUS
    <3>3. [i \in DOMAIN <<>> |-> [id |-> <<>>[i].id, env |-> EnvFor(p, <<>>[i])]] = <<>>
      OBVIOUS
    <3>4. types = <<>> \o <<>>
      BY <3>2, <3>3 DEF Defined, IsForeignIface
    <3> HIDE DEF types
    <3> QED BY <3>1, <3>4
  <2> HIDE DEF types
  <2>2. IsSlice(a) /\ DOMAIN a = {}
    BY <2>1, MappedSlice
  <2> HIDE DEF a
  <2> QED BY <2>2, FlattenSlices
<1>4. Covers(FlattenSeq(b), FlattenSeq(d))
  <2>1. ASSUME NEW i \in DOMAIN fns PROVE Covers(b[i], d[i])
    <3>1. fns[i] \in ToSet(fns)
      BY DEF ToSet
    <3>2. IsSlice(fns[i].insts)
      BY <3>1 DEF AreFunctions
    <3> HIDE DEF env
    <3>3. Covers(FunctionMembers(p.reg, fns[i], InstantiationsOf(fns[i], <<>>), env, "foreign"),
                 LookedUp(p.reg, planned, fns[i]))
      BY <3>1, <3>2, LookupCovered
    <3> QED BY <3>3
  <2>2. IsSlice(fns)
    BY DEF AreFunctions
  <2> HIDE DEF env, fns
  <2> QED BY <2>1, <2>2, CoverFlattened
<1>5. IsSlice(IF Getters THEN c ELSE <<>>)
  <2>1. IsSlice(c)
    BY SmallSlices, MappedSlice DEF IsForeignIface
  <2> HIDE DEF c
  <2> QED BY <2>1, SmallSlices
<1> DEFINE x == FlattenSeq(a)
           y == FlattenSeq(b)
           z == IF Getters THEN c ELSE <<>>
<1>6. InterfaceFunctions(p, iface) = x \o y \o z
  BY <1>1
<1>7. IsSlice(x) /\ IsSlice(y) /\ IsSlice(z)
  BY <1>3, <1>4, <1>5 DEF Covers
<1>8. Covers(y, CallerLookups(p.reg, planned, foreign))
  BY <1>2, <1>4
<1> HIDE DEF x, y, z, a, b, c, d
<1>9. IsSlice(x \o y) /\ ToSet(x \o y) = ToSet(x) \cup ToSet(y)
  BY <1>7, ConcatSlices
<1>10. IsSlice(x \o y \o z) /\ ToSet(x \o y \o z) = ToSet(x) \cup ToSet(y) \cup ToSet(z)
  BY <1>7, <1>9, ConcatSlices
<1>11. Heads(y) \subseteq Heads(x \o y \o z)
  BY <1>10 DEF Heads
<1> QED BY <1>6, <1>8, <1>10, <1>11 DEF Covers

\* A caller without the registry derives the same instance name.
LEMMA PlainInstanceName ==
  ASSUME NEW r, IsRegistry(r), UniqueTypes(r), NEW id \in Ids(r.foreigns), NEW args,
         \A t \in ToSet(args) : PlainMangles(t)
  PROVE  PlainName(WithId(r.foreigns, id).name, args) = InstanceName(r, id, args)
<1>1. ErasedName(r, id) = Kebab(WithId(r.foreigns, id).name)
  <2>1. /\ IsSlice(r.structs \o r.enums)
        /\ ToSet(r.structs \o r.enums) = ToSet(r.structs) \cup ToSet(r.enums)
    BY ConcatSlices DEF IsRegistry
  <2>2. Ids(r.structs \o r.enums) = Ids(r.structs) \cup Ids(r.enums)
    BY <2>1, IdsOf
  <2>3. id \notin Ids(r.structs \o r.enums)
    BY <2>2, IdsApart
  <2>4. WithId((r.structs \o r.enums) \o r.foreigns, id) = WithId(r.foreigns, id)
    BY <2>1, <2>3, WithIdBehind DEF IsRegistry
  <2> QED BY <2>4 DEF ErasedName
<1>2. \A i \in DOMAIN args : Mangled(r, args[i]) = PlainMangled(args[i])
  BY PlainIsMangled DEF ToSet
<1>3. [i \in DOMAIN args |-> Mangled(r, args[i])] = [i \in DOMAIN args |-> PlainMangled(args[i])]
  BY <1>2
<1> QED BY <1>1, <1>3 DEF InstanceName, PlainName

\* Every instantiation is planned under its name, by the first one with it.
LEMMA InstancePlannedFor ==
  ASSUME NEW r, IsRegistry(r), NEW inst \in ToSet(r.insts)
  PROVE  \E p \in ToSet(PlannedInstances(r)) : p.name = InstanceName(r, inst.id, inst.args)
<1> DEFINE all == [i \in DOMAIN r.insts |->
                     [id |-> r.insts[i].id, args |-> r.insts[i].args,
                      name |-> InstanceName(r, r.insts[i].id, r.insts[i].args)]]
           names == [i \in DOMAIN r.insts |-> InstanceName(r, r.insts[i].id, r.insts[i].args)]
           first == {i \in DOMAIN all : \A j \in 1..(i - 1) : all[j].name # all[i].name}
<1>1. IsSlice(all) /\ DOMAIN all = DOMAIN r.insts
  BY MappedSlice DEF IsRegistry
<1>2. PICK i \in DOMAIN r.insts : r.insts[i] = inst
  BY DEF ToSet
<1>3. \A j \in DOMAIN all : names[j] = all[j].name /\ (j = i => names[j] = InstanceName(r, inst.id, inst.args))
  BY <1>1, <1>2
<1>4. first = {x \in DOMAIN all : \A y \in 1..(x - 1) : names[y] # names[x]}
  <2>1. \A x \in DOMAIN all : 1..(x - 1) \subseteq DOMAIN all
    BY <1>1, SliceParts
  <2> HIDE DEF all, names
  <2> QED BY <1>3, <2>1
<1> HIDE DEF all, names
<1>5. PICK j \in first : names[j] = names[i]
  <2> HIDE DEF first
  <2> QED BY <1>1, <1>2, <1>4, FirstKept
<1>6. all[j] \in ToSet(Kept(all, first))
  <2>1. j \in DOMAIN all
    OBVIOUS
  <2> HIDE DEF first
  <2> QED BY <1>1, <2>1, KeptSlice
<1>7. PlannedInstances(r) = Kept(all, first)
  BY DEF PlannedInstances, all
<1> HIDE DEF first
<1>8. all[j].name = InstanceName(r, inst.id, inst.args)
  <2>1. j \in DOMAIN all
    BY <1>4, <1>5
  <2> QED BY <1>1, <1>2, <1>3, <1>5, <2>1
<1> QED BY <1>6, <1>7, <1>8

\* Who is addressed: a foreign interface of the registry, a generic one by the
\* arguments of an instantiation.
Addressed(r, foreign, args) ==
  \/ foreign \in ToSet(r.foreigns) /\ foreign.generics = <<>>
  \/ \E inst \in ToSet(r.insts) :
       inst.id \in Ids(r.foreigns) /\ foreign = WithId(r.foreigns, inst.id) /\ args = inst.args

\* The interface of the plan that a caller looks for is there, under the name
\* the caller derives.
LEMMA InterfaceFor ==
  ASSUME NEW r, IsRegistry(r), UniqueTypes(r), NEW planned \in BOOLEAN, NEW foreign, NEW args,
         Addressed(r, foreign, args), CallerResolves(r, planned, foreign, args),
         foreign.generics = <<>>
         \/ \A i \in ToSet(r.insts) : InstanceName(r, i.id, i.args) = InstanceName(r, foreign.id, args)
                                        => i.id = foreign.id
  PROVE  /\ foreign \in ToSet(r.foreigns)
         /\ \E k \in DOMAIN PlanOf(r).interfaces :
              LET iface == PlanOf(r).interfaces[k] IN
              /\ IsForeignIface(iface, foreign.functions)
              /\ iface.name = CallerInstance(r, planned, foreign, args)
<1> DEFINE paths == ModulePaths(r)
           instances == PlannedInstances(r)
           ifaces == PlanOf(r).interfaces
<1>1. foreign \in ToSet(r.foreigns)
  BY WithIdIn DEF Addressed, IsRegistry
<1>2. CASE foreign.generics = <<>>
  <2>1. ForeignPlanned(foreign) \in ToSet(ifaces)
    <3>1. foreign \in {g \in ToSet(r.foreigns) : g.generics = <<>>}
      BY <1>1, <1>2
    <3> QED BY <3>1, InterfacesOf
  <2>2. IsForeignIface(ForeignPlanned(foreign), foreign.functions)
    BY DEF ForeignPlanned, IsForeignIface, Interface
  <2>3. ForeignPlanned(foreign).name = CallerInstance(r, planned, foreign, args)
    BY <1>2 DEF ForeignPlanned, Interface, CallerInstance, Kebab
  <2> HIDE DEF ifaces
  <2>4. PICK k \in DOMAIN ifaces : ifaces[k] = ForeignPlanned(foreign)
    BY <2>1 DEF ToSet
  <2>5. /\ IsForeignIface(ifaces[k], foreign.functions)
        /\ ifaces[k].name = CallerInstance(r, planned, foreign, args)
    BY <2>2, <2>3, <2>4
  <2> QED BY <1>1, <2>5 DEF ifaces
<1>3. CASE foreign.generics # <<>>
  <2>1. PICK inst \in ToSet(r.insts) :
          inst.id \in Ids(r.foreigns) /\ foreign = WithId(r.foreigns, inst.id) /\ args = inst.args
    BY <1>3 DEF Addressed
  <2>2. foreign.id = inst.id
    BY <2>1, WithIdIn DEF IsRegistry
  <2>3. PICK p \in ToSet(instances) : p.name = InstanceName(r, foreign.id, args)
    BY <2>1, <2>2, InstancePlannedFor
  <2>4. p.id = foreign.id
    <3>1. PICK i \in ToSet(r.insts) :
            p = [id |-> i.id, args |-> i.args, name |-> InstanceName(r, i.id, i.args)]
      BY InstancesOf
    <3>2. p.id = i.id /\ p.name = InstanceName(r, i.id, i.args)
      BY <3>1
    <3> QED BY <1>3, <2>3, <3>2
  <2>5. p.id \in GenericForeigns(r)
    BY <1>1, <1>3, <2>4 DEF GenericForeigns
  <2>6. InstancePlanned(r, p) \in ToSet(ifaces)
    <3>1. p \in {q \in ToSet(instances) : q.id \in GenericForeigns(r)}
      BY <2>5
    <3> QED BY <3>1, InterfacesOf
  <2>7. IsForeignIface(InstancePlanned(r, p), foreign.functions)
    BY <2>1, <2>2, <2>4 DEF InstancePlanned, IsForeignIface, Interface
  <2>8. InstancePlanned(r, p).name = InstanceName(r, foreign.id, args)
    BY <2>3 DEF InstancePlanned, Interface
  <2>9. CallerInstance(r, planned, foreign, args) = InstanceName(r, foreign.id, args)
    <3>1. CASE planned
      BY <1>3, <3>1 DEF CallerInstance
    <3>2. CASE ~planned
      <4>1. \A t \in ToSet(args) : PlainMangles(t)
        BY <1>3, <3>2 DEF CallerResolves, CallerMangles
      <4> QED BY <1>3, <2>1, <2>2, <3>2, <4>1, PlainInstanceName DEF CallerInstance
    <3> QED BY <3>1, <3>2
  <2> HIDE DEF ifaces, instances
  <2>10. PICK k \in DOMAIN ifaces : ifaces[k] = InstancePlanned(r, p)
    BY <2>6 DEF ToSet
  <2>11. /\ IsForeignIface(ifaces[k], foreign.functions)
         /\ ifaces[k].name = CallerInstance(r, planned, foreign, args)
    BY <2>7, <2>8, <2>9, <2>10
  <2> QED BY <1>1, <2>11 DEF ifaces
<1> QED BY <1>2, <1>3

\* A caller that gets to its lookups finds its exports: the instance, and in
\* it what it looks up, unless a name is escaped.
LEMMA ExportsFound ==
  ASSUME NEW r, IsRegistry(r), UniqueTypes(r), NEW planned \in BOOLEAN, NEW foreign, NEW args,
         Addressed(r, foreign, args), CallerResolves(r, planned, foreign, args),
         foreign.generics = <<>>
         \/ \A i \in ToSet(r.insts) : InstanceName(r, i.id, i.args) = InstanceName(r, foreign.id, args)
                                        => i.id = foreign.id,
         foreign.functions # <<>>,
         ~Escaped(CallerInstance(r, planned, foreign, args)),
         \A m \in ToSet(CallerLookups(r, planned, foreign)) : ~Escaped(ToKebab(m.entry.text))
  PROVE  Exported(DocOf(PlanOf(r)), r, planned, foreign, args)
<1> DEFINE p == PlanOf(r)
           doc == DocOf(p)
           lookups == CallerLookups(r, planned, foreign)
<1>1. p.reg = r
  BY DEF PlanOf, Planned
<1>2. foreign \in ToSet(r.foreigns)
  BY InterfaceFor
<1>3. PICK k \in DOMAIN p.interfaces :
        /\ IsForeignIface(p.interfaces[k], foreign.functions)
        /\ p.interfaces[k].name = CallerInstance(r, planned, foreign, args)
  BY InterfaceFor
<1> HIDE DEF p
<1> DEFINE iface == p.interfaces[k]
           members == InterfaceFunctions(p, iface)
<1>4. ~IsEmpty(iface)
  BY <1>3 DEF IsForeignIface, IsEmpty
<1>5. /\ k \in DOMAIN doc
      /\ doc[k].name = iface.name /\ doc[k].direction = iface.direction
      /\ doc[k].functions = TextsIn(members)
  BY <1>4 DEF DocOf, TextsIn
<1> HIDE DEF doc, iface
<1>6. Covers(members, lookups)
  <2>1. AreFunctions(foreign.functions)
    BY <1>2 DEF IsRegistry, IsForeign
  <2>2. \A f \in ToSet(foreign.functions) : \A a \in ToSet(f.insts) : CallerMangles(p.reg, planned, a)
    BY <1>1 DEF CallerResolves
  <2> QED BY <1>1, <1>3, <2>1, <2>2, LookupsCovered DEF iface
<1>7. doc[k].direction = "foreign" /\ Identifier(doc[k].name) = CallerInstance(r, planned, foreign, args)
  BY <1>3, <1>5 DEF iface, IsForeignIface, Identifier
<1> HIDE DEF members
<1>8. ASSUME NEW m \in ToSet(lookups)
      PROVE  \E f \in ToSet(doc[k].functions) : Identifier(f.name) = ToKebab(m.entry.text)
  <2>1. [how |-> m.how, text |-> m.entry.text] \in Heads(lookups)
    BY DEF Heads
  <2>2. [how |-> m.how, text |-> m.entry.text] \in Heads(members)
    BY <1>6, <2>1 DEF Covers
  <2>3. PICK n \in ToSet(members) :
          [how |-> m.how, text |-> m.entry.text] = [how |-> n.how, text |-> n.entry.text]
    BY <2>2 DEF Heads
  <2>4. PICK i \in DOMAIN members : members[i] = n
    BY DEF ToSet
  <2>5. doc[k].functions[i].name = ToKebab(m.entry.text) /\ i \in DOMAIN doc[k].functions
    BY <1>5, <2>3, <2>4 DEF TextsIn
  <2>6. ~Escaped(ToKebab(m.entry.text))
    OBVIOUS
  <2>7. Identifier(doc[k].functions[i].name) = ToKebab(m.entry.text)
    BY <2>5, <2>6 DEF Identifier
  <2> QED BY <2>5, <2>7 DEF ToSet
<1> HIDE DEF lookups
<1>9. Exported(doc, r, planned, foreign, args)
  BY <1>5, <1>7, <1>8 DEF Exported, lookups
<1> QED BY <1>9 DEF doc, p

-----------------------------------------------------------------------------
(***************************************************************************)
(* The behaviours of Packages and LuaHost.                                 *)
(***************************************************************************)

\* How far a program has come with its WIT runtime.
Stages ==
  /\ document # "none" \/ linker # "none" => status = "planned"
  /\ guest # "none" => document = "written" /\ linker = "bound"
  /\ callers # {} => guest = "running"
  /\ plan # NoPlan => status \in {"planned", "unplannable"}

\* What was found out about the registry still holds of it: whether it is
\* valid, what its plan is and whether the plan binds; and a caller that
\* misses an export misses it in the document as it is.
Settled ==
  /\ status \in {"validated", "planned"} => Validates(reg)
  /\ status = "planned" => InstancesMangle(reg) /\ plan = PlanOf(reg)
  /\ linker = "bound" => Binds(plan)
  /\ \A c \in callers :
       c.outcome = "missing" =>
         LET a == c.address
         IN  /\ CallerResolves(reg, a.planned, a.foreign, a.args)
             /\ ~Exported(Document, reg, a.planned, a.foreign, a.args)

IInv == TypeOK /\ Stages /\ Settled

-----------------------------------------------------------------------------
\* A plan is the plan of its registry.
LEMMA PlanKeepsRegistry == ASSUME NEW r PROVE PlanOf(r).reg = r
BY DEF PlanOf, Planned

LEMMA NoPlanIsEmpty == NoPlan.reg = Empty
BY DEF NoPlan

\* A declaration leaves a registry a registry.
LEMMA RegisterKeeps ==
  ASSUME NEW r, IsRegistry(r), NEW d, IsDeclaration(d)
  PROVE  IsRegistry(Register(r, d))
<1> DEFINE new == Register(r, d)
<1>1. CASE d.sort = "struct" /\ IsStruct(d.desc)
  <2>1. /\ new.structs = Append(r.structs, d.desc) /\ new.enums = r.enums /\ new.aliases = r.aliases
        /\ new.foreigns = r.foreigns /\ new.modules = r.modules /\ new.insts = r.insts
        /\ DOMAIN new = DOMAIN r
    BY <1>1 DEF Register, IsRegistry
  <2> HIDE DEF new
  <2>2. IsSlice(new.structs) /\ ToSet(new.structs) = ToSet(r.structs) \cup {d.desc}
    BY <2>1, AppendSlice DEF IsRegistry
  <2>3. IsRegistry(new)
    BY <1>1, <2>1, <2>2 DEF IsRegistry
  <2> QED BY <2>3 DEF new
<1>2. CASE d.sort = "enum" /\ IsEnum(d.desc)
  <2>1. /\ new.enums = Append(r.enums, d.desc) /\ new.structs = r.structs /\ new.aliases = r.aliases
        /\ new.foreigns = r.foreigns /\ new.modules = r.modules /\ new.insts = r.insts
        /\ DOMAIN new = DOMAIN r
    BY <1>2 DEF Register, IsRegistry
  <2> HIDE DEF new
  <2>2. IsSlice(new.enums) /\ ToSet(new.enums) = ToSet(r.enums) \cup {d.desc}
    BY <2>1, AppendSlice DEF IsRegistry
  <2>3. IsRegistry(new)
    BY <1>2, <2>1, <2>2 DEF IsRegistry
  <2> QED BY <2>3 DEF new
<1>3. CASE d.sort = "alias" /\ IsType(d.desc.inner)
  <2>1. /\ new.aliases = Append(r.aliases, d.desc) /\ new.structs = r.structs /\ new.enums = r.enums
        /\ new.foreigns = r.foreigns /\ new.modules = r.modules /\ new.insts = r.insts
        /\ DOMAIN new = DOMAIN r
    BY <1>3 DEF Register, IsRegistry
  <2> HIDE DEF new
  <2>2. IsSlice(new.aliases) /\ ToSet(new.aliases) = ToSet(r.aliases) \cup {d.desc}
    BY <2>1, AppendSlice DEF IsRegistry
  <2>3. IsRegistry(new)
    BY <1>3, <2>1, <2>2 DEF IsRegistry
  <2> QED BY <2>3 DEF new
<1>4. CASE d.sort = "foreign" /\ IsForeign(d.desc)
  <2>1. /\ new.foreigns = Append(r.foreigns, d.desc) /\ new.structs = r.structs /\ new.enums = r.enums
        /\ new.aliases = r.aliases /\ new.modules = r.modules /\ new.insts = r.insts
        /\ DOMAIN new = DOMAIN r
    BY <1>4 DEF Register, IsRegistry
  <2> HIDE DEF new
  <2>2. IsSlice(new.foreigns) /\ ToSet(new.foreigns) = ToSet(r.foreigns) \cup {d.desc}
    BY <2>1, AppendSlice DEF IsRegistry
  <2>3. IsRegistry(new)
    BY <1>4, <2>1, <2>2 DEF IsRegistry
  <2> QED BY <2>3 DEF new
<1>5. CASE d.sort = "module" /\ IsModuleTree(d.desc)
  <2>1. /\ new.modules = Append(r.modules, d.desc) /\ new.structs = r.structs /\ new.enums = r.enums
        /\ new.aliases = r.aliases /\ new.foreigns = r.foreigns /\ new.insts = r.insts
        /\ DOMAIN new = DOMAIN r
    BY <1>5 DEF Register, IsRegistry
  <2> HIDE DEF new
  <2>2. IsSlice(new.modules) /\ ToSet(new.modules) = ToSet(r.modules) \cup {d.desc}
    BY <2>1, AppendSlice DEF IsRegistry
  <2>3. IsRegistry(new)
    BY <1>5, <2>1, <2>2 DEF IsRegistry
  <2> QED BY <2>3 DEF new
<1>6. CASE d.sort = "inst" /\ IsInst(d.desc)
  <2>1. /\ new.insts = Append(r.insts, d.desc) /\ new.structs = r.structs /\ new.enums = r.enums
        /\ new.aliases = r.aliases /\ new.foreigns = r.foreigns /\ new.modules = r.modules
        /\ DOMAIN new = DOMAIN r
    BY <1>6 DEF Register, IsRegistry
  <2> HIDE DEF new
  <2>2. IsSlice(new.insts) /\ ToSet(new.insts) = ToSet(r.insts) \cup {d.desc}
    BY <2>1, AppendSlice DEF IsRegistry
  <2>3. IsRegistry(new)
    BY <1>6, <2>1, <2>2 DEF IsRegistry
  <2> QED BY <2>3 DEF new
<1> QED BY <1>1, <1>2, <1>3, <1>4, <1>5, <1>6 DEF IsDeclaration

LEMMA InitHolds == HostInit => IInv
<1> SUFFICES ASSUME HostInit PROVE IInv
  OBVIOUS
<1>1. TypeOK
  BY NoPlanIsEmpty, PackagesAssumption DEF HostInit, Init, TypeOK
<1>2. Stages
  BY DEF HostInit, Init, Stages
<1>3. Settled
  BY DEF HostInit, Init, Settled
<1> QED BY <1>1, <1>2, <1>3 DEF IInv

\* While the registry can change nothing refers to it.
LEMMA DeclareKeeps == ASSUME IInv, NEW d \in Palette, Declare(d) PROVE IInv'
<1> USE DEF IInv, Declare
<1>1. plan = NoPlan /\ callers = {} /\ guest = "none" /\ document = "none" /\ linker = "none"
  BY DEF Stages
<1>2. IsRegistry(reg')
  BY RegisterKeeps, PackagesAssumption DEF TypeOK
<1>3. TypeOK'
  BY <1>1, <1>2, NoPlanIsEmpty DEF TypeOK
<1>4. Stages'
  BY <1>1 DEF Stages
<1>5. Settled'
  BY <1>1 DEF Settled
<1> QED BY <1>3, <1>4, <1>5

LEMMA ValidateKeeps == ASSUME IInv, Validate PROVE IInv'
<1> USE DEF IInv, Validate
<1>1. TypeOK'
  BY DEF TypeOK, Addresses
<1>2. Stages'
  BY DEF Stages
<1>3. Settled'
  BY DEF Settled, Stages, Document
<1> QED BY <1>1, <1>2, <1>3

LEMMA PlanKeeps == ASSUME IInv, Plan PROVE IInv'
<1> USE DEF IInv, Plan
<1>1. plan'.reg \in {Empty, reg}
  BY PlanKeepsRegistry, NoPlanIsEmpty
<1>2. TypeOK'
  BY <1>1 DEF TypeOK, Addresses
<1>3. document = "none" /\ linker = "none"
  BY DEF Stages
<1>4. Stages'
  BY <1>3 DEF Stages
<1>5. callers = {} /\ callers' = {}
  BY DEF Stages
<1>6. Settled'
  BY <1>3, <1>5 DEF Settled
<1> QED BY <1>2, <1>4, <1>6

LEMMA GenerateKeeps == ASSUME IInv, Generate PROVE IInv'
<1> USE DEF IInv, Generate
<1>1. TypeOK'
  BY DEF TypeOK, Addresses
<1>2. Stages'
  BY DEF Stages
<1>3. Settled'
  BY DEF Settled, Document
<1> QED BY <1>1, <1>2, <1>3

LEMMA BindKeeps == ASSUME IInv, Bind PROVE IInv'
<1> USE DEF IInv, Bind
<1>1. TypeOK'
  BY DEF TypeOK, Addresses
<1>2. Stages'
  BY DEF Stages
<1>3. Settled'
  BY DEF Settled, Document
<1> QED BY <1>1, <1>2, <1>3

LEMMA InstantiateKeeps == ASSUME IInv, Instantiate PROVE IInv'
<1> USE DEF IInv, Instantiate
<1>1. TypeOK'
  BY DEF TypeOK, Addresses
<1>2. callers = {}
  BY DEF Stages
<1>3. Stages'
  BY <1>2 DEF Stages
<1>4. Settled'
  BY <1>2 DEF Settled
<1> QED BY <1>1, <1>3, <1>4

LEMMA AddressesOf ==
  ASSUME NEW C, NEW r
  PROVE  {c.address : c \in C \cup {r}} = {c.address : c \in C} \cup {r.address}
OBVIOUS

LEMMA ConnectKeeps == ASSUME IInv, NEW a \in Addresses, Connect(a) PROVE IInv'
<1> USE DEF IInv, Connect
<1>1. PICK o : callers' = callers \cup {[address |-> a, outcome |-> o]}
  OBVIOUS
<1>2. {c.address : c \in callers'} = {c.address : c \in callers} \cup {a}
  <2> DEFINE r == [address |-> a, outcome |-> o]
  <2>1. callers' = callers \cup {r} /\ r.address = a
    BY <1>1
  <2> HIDE DEF r
  <2> QED BY <2>1, AddressesOf
<1>3. TypeOK'
  BY <1>2 DEF TypeOK, Addresses
<1>4. Stages'
  BY DEF Stages
<1>5. Settled'
  <2>1. ASSUME NEW c \in callers', c.outcome = "missing"
        PROVE  /\ CallerResolves(reg, c.address.planned, c.address.foreign, c.address.args)
               /\ ~Exported(Document, reg, c.address.planned, c.address.foreign, c.address.args)
    <3> DEFINE came == IF ~CallerResolves(reg, a.planned, a.foreign, a.args) THEN "refused"
                    ELSE IF Exported(Document, reg, a.planned, a.foreign, a.args)
                    THEN "connected" ELSE "missing"
               new == [address |-> a, outcome |-> came]
    <3>1. CASE c \in callers
      BY <2>1, <3>1 DEF Settled
    <3>2. CASE c = new
      <4>1. c.address = a /\ c.outcome = came
        BY <3>2
      <4> QED BY <2>1, <4>1
    <3> QED BY <2>1, <3>1, <3>2
  <2>2. UNCHANGED <<reg, status, plan, document, linker>>
    OBVIOUS
  <2> QED BY <2>1, <2>2 DEF Settled, Document
<1> QED BY <1>3, <1>4, <1>5

\* Nothing in a Lua state touches the registry or the WIT runtime.
LEMMA LuaKeeps == LuaNext => UNCHANGED vars
BY DEF LuaNext, LuaBind, BindFn, BindType, Supply

LEMMA StutterKeeps == ASSUME IInv, UNCHANGED vars PROVE IInv'
<1>1. TypeOK'
  BY DEF IInv, TypeOK, Addresses, vars
<1>2. Stages'
  BY DEF IInv, Stages, vars
<1>3. Settled'
  BY DEF IInv, Settled, Document, vars
<1> QED BY <1>1, <1>2, <1>3 DEF IInv

LEMMA StepKeeps == IInv /\ [HostNext]_hostVars => IInv'
<1> SUFFICES ASSUME IInv, [HostNext]_hostVars PROVE IInv'
  OBVIOUS
<1>1. ASSUME NEW d \in Palette, Declare(d) PROVE IInv'
  BY <1>1, DeclareKeeps
<1>2. CASE Validate
  BY <1>2, ValidateKeeps
<1>3. CASE Plan
  BY <1>3, PlanKeeps
<1>4. CASE Generate
  BY <1>4, GenerateKeeps
<1>5. CASE Bind
  BY <1>5, BindKeeps
<1>6. CASE Instantiate
  BY <1>6, InstantiateKeeps
<1>7. ASSUME NEW a \in Addresses, Connect(a) PROVE IInv'
  BY <1>7, ConnectKeeps
<1>8. CASE LuaNext
  BY <1>8, LuaKeeps, StutterKeeps
<1>9. CASE UNCHANGED hostVars
  BY <1>9, StutterKeeps DEF hostVars
<1> QED BY <1>1, <1>2, <1>3, <1>4, <1>5, <1>6, <1>7, <1>8, <1>9 DEF HostNext, Next

THEOREM Invariance == HostSpec => []IInv
BY InitHolds, StepKeeps, PTL DEF HostSpec

\* Type correctness: whatever was planned or connected refers to the registry
\* as it stands, since a registry that was validated does not change.
THEOREM Types == HostSpec => []TypeOK
<1>1. IInv => TypeOK
  BY DEF IInv
<1> QED BY <1>1, Invariance, PTL

-----------------------------------------------------------------------------
\* A component that imports the generated world is served, whatever was
\* declared: `bind` defines what the document has it import, under the name
\* the document gives it, but for escaped names.
THEOREM Served == HostSpec => []WorldIsServed
<1>1. IInv => WorldIsServed
  <2> SUFFICES ASSUME IInv, guest # "none", NEW u \in Unserved(Document, Linker)
               PROVE  \E text \in {u.interface, u.import.res, u.import.name} : Escaped(text)
    BY DEF WorldIsServed
  <2>1. linker = "bound" /\ status = "planned"
    BY DEF IInv, Stages
  <2>2. plan = PlanOf(reg) /\ Binds(PlanOf(reg)) /\ UniqueTypes(reg)
    BY <2>1 DEF IInv, Settled, Validates
  <2>3. IsRegistry(reg)
    BY DEF IInv, TypeOK
  <2>4. u \in Unserved(DocOf(PlanOf(reg)), LinkerOf(PlanOf(reg)))
    BY <2>2 DEF Document, Linker
  <2> QED BY <2>2, <2>3, <2>4, WorldServed
<1> QED BY <1>1, Invariance, PTL

\* What can be addressed is in the registry.
LEMMA AddressesAre ==
  ASSUME NEW a \in Addresses
  PROVE  a.planned \in BOOLEAN /\ Addressed(reg, a.foreign, a.args)
BY DEF Addresses, Addressed

\* A foreign caller that gets to its lookups finds them, but for interfaces
\* without functions, escaped names, and instances that another one shadows.
THEOREM Connected == HostSpec => []CallersFindExports
<1>1. IInv => CallersFindExports
  <2> SUFFICES ASSUME IInv, NEW c \in callers, c.outcome = "missing",
                      c.address.foreign.functions # <<>>,
                      ~Escaped(CallerInstance(reg, c.address.planned, c.address.foreign, c.address.args)),
                      \A m \in ToSet(CallerLookups(reg, c.address.planned, c.address.foreign)) :
                        ~Escaped(ToKebab(m.entry.text))
               PROVE  /\ c.address.foreign.generics # <<>>
                      /\ Shadowed(c.address.foreign, c.address.args)
    BY DEF CallersFindExports
  <2> DEFINE a == c.address
  <2>1. status = "planned"
    BY DEF IInv, Stages
  <2>2. plan = PlanOf(reg) /\ UniqueTypes(reg) /\ IsRegistry(reg)
    BY <2>1 DEF IInv, TypeOK, Settled, Validates
  <2>3. /\ CallerResolves(reg, a.planned, a.foreign, a.args)
        /\ ~Exported(DocOf(PlanOf(reg)), reg, a.planned, a.foreign, a.args)
    BY <2>2 DEF IInv, Settled, Document
  <2>4. a \in Addresses
    BY DEF IInv, TypeOK
  <2>5. a.planned \in BOOLEAN /\ Addressed(reg, a.foreign, a.args)
    BY <2>4, AddressesAre
  <2> HIDE DEF a
  <2>6. /\ a.foreign.functions # <<>>
        /\ ~Escaped(CallerInstance(reg, a.planned, a.foreign, a.args))
        /\ \A m \in ToSet(CallerLookups(reg, a.planned, a.foreign)) : ~Escaped(ToKebab(m.entry.text))
    BY DEF a
  <2>7. a.foreign.generics # <<>> /\ Shadowed(a.foreign, a.args)
    BY <2>2, <2>3, <2>5, <2>6, ExportsFound DEF Shadowed
  <2> QED BY <2>7 DEF a
<1> QED BY <1>1, Invariance, PTL

\* What validation accepts the plan has everything of: each concrete type is
\* defined in one interface, and every id that is looked up has an entry.
THEOREM Total == HostSpec => []PlanIsTotal
<1>1. IInv => PlanIsTotal
  <2> SUFFICES ASSUME IInv, status = "planned"
               PROVE  /\ LookupsHit(plan)
                      /\ \A d \in ToSet(ValueTypes(reg)) :
                           d.id \in Generic(reg)
                           \/ Cardinality({k \in DOMAIN plan.interfaces :
                                             d.id \in ToSet(plan.interfaces[k].types)}) = 1
    BY DEF PlanIsTotal
  <2>1. plan = PlanOf(reg) /\ Validates(reg) /\ InstancesMangle(reg) /\ IsRegistry(reg)
    BY DEF IInv, TypeOK, Settled
  <2> QED BY <2>1, EveryLookupHits, OwnedOnce
<1> QED BY <1>1, Invariance, PTL
=============================================================================
