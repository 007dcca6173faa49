------------------------------- MODULE WitWorld -------------------------------
(***************************************************************************)
(* The WIT document (crates/haphe-wit/src/lib.rs): what each interface of  *)
(* a package defines, and when generation succeeds.  The document has the  *)
(* peer's perspective: the world imports what the program provides and     *)
(* exports its foreign interfaces.  Docs and markers are left out.         *)
(***************************************************************************)
EXTENDS WitPlan

CONSTANT Getters   \* ConstantMode::Getter: constants become functions

\* A member that is written down: a function of an interface, or a method,
\* static or constructor of a resource, with the types it is written with
\* and the generic type it belongs to, if any.
Member(how, entry, types, env) ==
  [how |-> how, entry |-> entry, types |-> Bound(types, env), self |-> env.self]

Keyed(how, text, types, env) == Member(how, Entry(text), types, env)

Under(owner) == owner \o <<"_">>        \* format!("{owner}_{name}"), without the name
Dashed(owner, text) == owner \o text   \* format!("{owner}-{name}")

\* A method is called on a handle, anything else is static.
HowCalled(f) == IF f.receiver \in {"ref", "mut"} THEN "method" ELSE "static"

\* The types of a signature; a return type of unit is not written down.
Written(f) == ToSet(f.params) \cup {t \in {f.ret} : Peeled(t) # Unit}

-----------------------------------------------------------------------------
\* Trait projections: the names under which a struct's traits are surfaced, for
\* every trait there is.  Traits of one group are projected once; Clone is not.
ProjectedAs ==
  [Add |-> <<"add">>, Sub |-> <<"sub">>, Mul |-> <<"mul">>, Div |-> <<"div">>,
   Rem |-> <<"rem">>, IDiv |-> <<"idiv">>, Mod |-> <<"mod">>, Pow |-> <<"pow">>,
   BitAnd |-> <<"bitand">>, BitOr |-> <<"bitor">>, BitXor |-> <<"bitxor">>,
   Shl |-> <<"shl">>, Shr |-> <<"shr">>, Neg |-> <<"neg">>, Not |-> <<"not">>,
   PartialEq |-> <<"eq">>, Eq |-> <<"eq">>, PartialOrd |-> <<"lt", "le">>,
   Ord |-> <<"lt", "le">>, Display |-> <<"to_string">>, ToString |-> <<"to_string">>,
   Debug |-> <<"to_debug_string">>, Hash |-> <<"hash">>, Call |-> <<"call">>,
   AsyncCall |-> <<"call">>, Index |-> <<"at">>, IndexMut |-> <<"set_at">>,
   Iterator |-> <<"items", "length">>, IntoIterator |-> <<"items", "length">>,
   Default |-> <<"default">>, Clone |-> <<>>]

Together == {{"PartialEq", "Eq"}, {"PartialOrd", "Ord"}, {"Display", "ToString"},
             {"Iterator", "IntoIterator"}}

Projections(s) ==
  LET repeats(i) == \E j \in 1..(i - 1) : \E g \in Together :
                      {s.traits[i].name, s.traits[j].name} \subseteq g
      projected(i) == IF repeats(i) THEN <<>> ELSE
                        [k \in DOMAIN ProjectedAs[s.traits[i].name] |->
                           [name |-> ProjectedAs[s.traits[i].name][k],
                            types |-> ToSet(s.traits[i].types) \
                              (IF ProjectedAs[s.traits[i].name] = <<"call">> THEN {Unit} ELSE {})]]
  IN  FlattenSeq([i \in DOMAIN s.traits |-> projected(i)])

\* Two traits that project to one member cannot be told apart.
Projects(s) == /\ \A t \in ToSet(s.traits) : t.name \in DOMAIN ProjectedAs
               /\ NoRepeats(NamesOf(Projections(s)))

\* A member's text is raw: it meets the names the user chose.
ProjectionText(p) == CASE p.name = "to_string" -> <<"to", "_", "string">>
                       [] p.name = "to_debug_string" -> <<"to", "_", "debug", "_", "string">>
                       [] p.name = "set_at" -> <<"set", "_", "at">>
                       [] OTHER -> <<p.name>>

-----------------------------------------------------------------------------
\* emit_resource: accessors of fields and properties, constructors, methods
\* with their monomorphs and dispatchers, projections.
Accessors(n, env) ==
  LET text == Spelling[n.name]
  IN  <<Keyed("method", text, {n.ty}, env)>>
      \o (IF n.readonly THEN <<>> ELSE <<Keyed("method", <<"set", "_">> \o text, {n.ty}, env)>>)

\* The first constructor that is neither async nor fallible takes the slot.
SlotOf(ctors) ==
  LET free == {i \in DOMAIN ctors : ~ctors[i].async /\ ~ctors[i].fallible}
  IN  IF free = {} THEN 0 ELSE CHOOSE i \in free : \A j \in free : i <= j

Constructors(s, env) ==
  [i \in DOMAIN s.constructors |->
     Keyed(IF i = SlotOf(s.constructors) THEN "constructor" ELSE "static",
           Spelling[s.constructors[i].name], ToSet(s.constructors[i].params), env)]

DynText(f) == Dashed(Spelling[f.name], <<"dyn">>)   \* format!("{}-dyn", f.name)

\* A generic function is written once per instantiation, and a dyn one also
\* as a dispatcher over all of them.
Monomorphs(reg, f, insts, env, how) ==
  [i \in DOMAIN insts |->
     Keyed(how, FnInstanceName(reg, f.name, insts[i]), Written(f), FnEnv(f, insts[i], env))]

\* The variants of its parameters hold the types of the monomorphs.
Dispatcher(f, how, text) == IF f.dyn THEN <<Keyed(how, text, {}, NoEnv)>> ELSE <<>>

MethodMembers(reg, m, env) ==
  IF m.generics = <<>>
  THEN <<Keyed(HowCalled(m), Spelling[m.name], Written(m), env)>>
  ELSE Monomorphs(reg, m, m.insts, env, HowCalled(m))
       \o Dispatcher(m, HowCalled(m), DynText(m))

ResourceMembers(reg, s, env) ==
  LET data == s.fields \o s.properties IN
  FlattenSeq([i \in DOMAIN data |-> Accessors(data[i], env)])
  \o Constructors(s, env)
  \o FlattenSeq([i \in DOMAIN s.methods |-> MethodMembers(reg, s.methods[i], env)])
  \o [i \in DOMAIN Projections(s) |->
        Member(IF Projections(s)[i].name = "default" THEN "static" ELSE "method",
               EntryAs(ProjectionText(Projections(s)[i]), "projection"),
               Projections(s)[i].types, env)]

-----------------------------------------------------------------------------
\* The functions of an interface.  `prefix` is the raw name of an enum or
\* record with "_" behind it, or an instance's mangled name.
Companions(reg, e, env, prefix) ==
  LET companion(m) ==
        IF m.generics = <<>>
        THEN <<Keyed("function", prefix \o Spelling[m.name], Written(m), env)>>
        ELSE [i \in DOMAIN m.insts |->
                Keyed("function", prefix \o FnInstanceName(reg, m.name, m.insts[i]),
                      Written(m), FnEnv(m, m.insts[i], env))]
             \o Dispatcher(m, "function", prefix \o DynText(m))
  IN  FlattenSeq([i \in DOMAIN e.methods |-> companion(e.methods[i])])

\* Records project their traits and computed properties as functions.
RecordMembers(s, env, prefix, raw) ==
  LET project(p) == Member("function", EntryAs(prefix \o ProjectionText(p), "projection"),
                           p.types, env)
      access(n, text) == Member("function", EntryAs(Dashed(raw, text), "accessor"), {n.ty}, env)
      property(n) == <<access(n, Spelling[n.name])>>
                     \o (IF n.readonly THEN <<>>
                         ELSE <<access(n, <<"set">> \o Spelling[n.name])>>)
  IN  [i \in DOMAIN Projections(s) |-> project(Projections(s)[i])]
      \o FlattenSeq([i \in DOMAIN s.properties |-> property(s.properties[i])])

\* What a concrete type, or an instance of a generic one, adds to the
\* functions of its interface.
TypeFunctions(reg, id, env) ==
  LET d == WithId(ValueTypes(reg), id)
      raw == IF env.self = "" THEN Spelling[d.name] ELSE env.name
      prefix == IF env.self = "" THEN Under(raw) ELSE raw
  IN  CASE id \in Ids(reg.enums) -> Companions(reg, d, env, prefix)
        [] id \in Ids(reg.structs) /\ ~IsResource(reg, id) -> RecordMembers(d, env, prefix, raw)
        [] OTHER -> <<>>

\* A dyn foreign function is erased: one function under its plain name.
FunctionMembers(reg, f, insts, env, direction) ==
  IF f.generics = <<>>
  THEN <<Keyed("function", Spelling[f.name], Written(f), env)>>
  ELSE IF f.dyn /\ direction = "foreign" THEN Dispatcher(f, "function", Spelling[f.name])
  ELSE Monomorphs(reg, f, insts, env, "function")
       \o Dispatcher(f, "function", DynText(f))

\* The types of an interface with what their parameters are bound to.
Defined(plan, iface) ==
  [i \in DOMAIN iface.types |-> [id |-> iface.types[i], env |-> NoEnv]]
  \o [i \in DOMAIN iface.instances |->
        [id |-> iface.instances[i].id, env |-> EnvFor(plan, iface.instances[i])]]

\* ... and those of them that are resources.
ResourcesIn(plan, iface) ==
  LET types == Defined(plan, iface)
  IN  Kept(types, {i \in DOMAIN types : IsResource(plan.reg, types[i].id)})

DefinedName(plan, d) == IF d.env.self = "" THEN TypeName(plan.reg, d.id) ELSE d.env.name

InterfaceFunctions(plan, iface) ==
  LET types == Defined(plan, iface)
      base == IfaceEnv(plan, iface)
      of(f) == FunctionMembers(plan.reg, f, InstantiationsOf(f, iface.fnInsts), base, iface.direction)
      getter(c) == Keyed("function", Spelling[c.name], {c.ty}, NoEnv)
  IN  FlattenSeq([i \in DOMAIN types |-> TypeFunctions(plan.reg, types[i].id, types[i].env)])
      \o FlattenSeq([i \in DOMAIN iface.functions |-> of(iface.functions[i])])
      \o (IF Getters THEN [i \in DOMAIN iface.constants |-> getter(iface.constants[i])] ELSE <<>>)

\* The payload of a struct variant is a record of its own.
PayloadEntries(plan, iface) ==
  LET payloads(d) ==
        LET structured == SelectSeq(WithId(plan.reg.enums, d.id).variants,
                                    LAMBDA v : v.shape = "struct")
        IN  [i \in DOMAIN structured |->
               Entry(Dashed(DefinedName(plan, d), Spelling[structured[i].name]))]
      enums == SelectSeq(Defined(plan, iface), LAMBDA d : d.id \in Ids(plan.reg.enums))
  IN  FlattenSeq([i \in DOMAIN enums |-> payloads(enums[i])])

\* A fallible function returns the interface's error record.
NeedsScriptError(plan, iface) ==
  LET of(id) == IF id \in Ids(plan.reg.aliases) THEN <<>>
                ELSE WithId(plan.reg.structs \o plan.reg.enums, id).methods
                     \o (IF id \in Ids(plan.reg.structs)
                         THEN WithId(plan.reg.structs, id).constructors ELSE <<>>)
      fns == UNION {ToSet(of(d.id)) : d \in ToSet(Defined(plan, iface))}
  IN  \E f \in ToSet(iface.functions) \cup fns : f.fallible

IsEmpty(iface) == /\ iface.types = <<>> /\ iface.instances = <<>> /\ iface.functions = <<>>
                  /\ iface.constants = <<>> \/ ~Getters

-----------------------------------------------------------------------------
\* render_type: which types can be written down.  Unit is only a return
\* type, or one side of a result, stream or future.
Renders(plan, t, self) ==
  /\ t # Unit
  /\ \A u \in Subterms(t) :
       /\ Structural(u)
       /\ u.kind = "tuple" => u.parts # <<>>
       /\ u.kind \notin {"result", "stream", "future"} => Unit \notin ToSet(u.parts)
       /\ u.kind = "ref" /\ u.name \in Generic(plan.reg) => u.name = self
       /\ Registered(plan, u)

MembersRender(plan, members) ==
  \A m \in ToSet(members) : \A t \in m.types : Renders(plan, t, m.self)

Entries(members) ==
  LET named == SelectSeq(members, LAMBDA m : m.how # "constructor")
  IN  [i \in DOMAIN named |-> named[i].entry]

NamesAgree(named) == Agree([i \in DOMAIN named |-> Entry(Spelling[named[i].name])])

\* emit_record, emit_resource, emit_enum, emit_alias succeed.
FlagsFit(e) == e.flags => \A i \in DOMAIN e.variants :
                 e.variants[i].discriminant \in {<<>>, <<2 ^ (i - 1)>>}

TypeEmits(plan, d) ==
  LET t == WithId(ValueTypes(plan.reg), d.id)
      members == ResourceMembers(plan.reg, t, d.env)
      Rendered(named) == \A n \in ToSet(named) :
                           \A ty \in Bound({n.ty}, d.env) : Renders(plan, ty, d.env.self)
  IN  CASE d.id \in Ids(plan.reg.enums) ->
             /\ FlagsFit(t)
             /\ NamesAgree(t.variants)
             /\ \A v \in ToSet(t.variants) : Rendered(v.payload) /\ NamesAgree(v.payload)
        [] d.id \in Ids(plan.reg.aliases) -> Renders(plan, t.inner, "")
        [] IsResource(plan.reg, d.id) ->
             /\ Projects(t)
             /\ Agree(Entries(members))
             /\ MembersRender(plan, members)
        [] OTHER -> Projects(t) /\ NamesAgree(t.fields) /\ Rendered(t.fields)

\* emit_interface succeeds.
InterfaceEmits(plan, k) ==
  LET iface == plan.interfaces[k]
      functions == InterfaceFunctions(plan, iface)
  IN  /\ \A u \in NamedIn(UsedTypes(plan, iface)) : Registered(plan, u)
      /\ \A d \in ToSet(Defined(plan, iface)) : TypeEmits(plan, d)
      /\ \A f \in ToSet(iface.functions) :
           \A args \in ToSet(InstantiationsOf(f, iface.fnInsts)) :
             \A t \in ToSet(args) : Mangles(plan.reg, t)
      /\ Agree(PayloadEntries(plan, iface) \o Entries(functions))
      /\ MembersRender(plan, functions)

-----------------------------------------------------------------------------
\* The document: names as the reference parser reads them.
DocOf(plan) ==
  LET written == {k \in DOMAIN plan.interfaces : ~IsEmpty(plan.interfaces[k])}
      Texts(members) == [i \in DOMAIN members |->
                           [how |-> members[i].how, name |-> ToKebab(members[i].entry.text)]]
  IN  [k \in written |->
         LET iface == plan.interfaces[k] IN
         [name |-> iface.name, direction |-> iface.direction, uses |-> UsesFor(plan, k),
          types |-> [i \in DOMAIN Defined(plan, iface) |->
                       DefinedName(plan, Defined(plan, iface)[i])]
                    \o [i \in DOMAIN PayloadEntries(plan, iface) |->
                          ToKebab(PayloadEntries(plan, iface)[i].text)]
                    \o (IF NeedsScriptError(plan, iface) THEN <<<<"script", "error">>>> ELSE <<>>),
          functions |-> Texts(InterfaceFunctions(plan, iface)),
          resources |-> [i \in DOMAIN ResourcesIn(plan, iface) |->
                           [name |-> DefinedName(plan, ResourcesIn(plan, iface)[i]),
                            members |-> Texts(ResourceMembers(plan.reg,
                                          WithId(plan.reg.structs, ResourcesIn(plan, iface)[i].id),
                                          ResourcesIn(plan, iface)[i].env))]]]]

\* What the reference parser is taken to reject (it rejects more): a name that
\* is no identifier, a name defined twice in an interface or a resource, a used
\* type that is not defined, interfaces that use each other.
IsIdentifier(text) == text # <<>> /\ "%" \notin ToSet(Identifier(text))

Parses(doc) ==
  LET idents(texts) == [i \in DOMAIN texts |-> Identifier(texts[i])]
      members(r) == SelectSeq(r.members, LAMBDA m : m.how # "constructor")
      owners(k) == {u.owner : u \in doc[k].uses}
      acyclic == \A ks \in SUBSET DOMAIN doc \ {{}} : \E k \in ks : owners(k) \cap ks = {}
  IN  /\ \A j, k \in DOMAIN doc : doc[j].name = doc[k].name => j = k
      /\ \A k \in DOMAIN doc : owners(k) \subseteq DOMAIN doc
      /\ acyclic
      /\ \A k \in DOMAIN doc :
           LET used == SetToSeq({u.name : u \in doc[k].uses})
               scope == doc[k].types \o NamesOf(doc[k].functions) \o used
           IN  /\ \A i \in DOMAIN scope : IsIdentifier(scope[i])
               /\ NoRepeats(idents(scope))
               /\ \A u \in doc[k].uses : u.name \in ToSet(doc[u.owner].types)
               /\ \A r \in ToSet(doc[k].resources) :
                    /\ \A m \in ToSet(r.members) : IsIdentifier(m.name)
                    /\ NoRepeats(idents(NamesOf(members(r))))

\* WitGenerator::generate
Generates(plan) ==
  /\ \A k \in DOMAIN plan.interfaces :
       ~IsEmpty(plan.interfaces[k]) => InterfaceEmits(plan, k)
  /\ Parses(DocOf(plan))
=============================================================================
