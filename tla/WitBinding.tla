------------------------------ MODULE WitBinding ------------------------------
(***************************************************************************)
(* The runtime side of a WIT package (crates/haphe-wit/src/runtime.rs):    *)
(* what `bind` defines in the linker for a guest to import, and which      *)
(* exports of a guest a foreign caller looks up.  Neither reads the        *)
(* document: both derive its names a second time.                          *)
(*                                                                         *)
(* A registered type is linked live, any other declared one as a stub that *)
(* traps; both are definitions under the same names.                       *)
(***************************************************************************)
EXTENDS WitWorld

\* A definition under construction: how the canonical ABI prefixes it, and
\* its entry in a NameMap.
Linked(how, text) == [how |-> how, entry |-> Entry(text)]
LinkedAs(how, text, identity) == [how |-> how, entry |-> EntryAs(text, identity)]

LinkedMonomorphs(m, how) ==
  IF m.generics = <<>> THEN <<Linked(how, Spelling[m.name])>>
  ELSE [i \in DOMAIN m.insts |-> Linked(how, PlainName(m.name, m.insts[i]))]

LinkedDispatcher(m, how) ==
  IF m.generics # <<>> /\ m.dyn THEN <<Linked(how, DynText(m))>> ELSE <<>>

LinkedAccessors(n) ==
  <<Linked("method", Spelling[n.name])>>
  \o (IF n.readonly THEN <<>> ELSE <<Linked("method", <<"set", "_">> \o Spelling[n.name])>>)

LinkedMethod(m) ==
  LinkedMonomorphs(m, HowCalled(m)) \o LinkedDispatcher(m, HowCalled(m))

\* The slot is taken by the first constructor that fits it.
LinkedConstructorsByPosition(ctors) ==
  [i \in DOMAIN ctors |->
     Linked(IF i = 1 THEN "constructor" ELSE "static", Spelling[ctors[i].name])]

LinkedConstructors(ctors) ==
  LET taken(i) == \E j \in 1..(i - 1) : ~ctors[j].async /\ ~ctors[j].fallible
      slot(i) == ~taken(i) /\ ~ctors[i].async /\ ~ctors[i].fallible
  IN  [i \in DOMAIN ctors |->
         Linked(IF slot(i) THEN "constructor" ELSE "static", Spelling[ctors[i].name])]

LinkedProjections(s) ==
  [i \in DOMAIN Projections(s) |->
     LinkedAs(IF Projections(s)[i].name = "default" THEN "static" ELSE "method",
              ProjectionText(Projections(s)[i]), "projection")]

\* bind_resource_live, and bind_resource_stub with traps for bodies.
LinkedResource(s) ==
  FlattenSeq([i \in DOMAIN s.fields |-> LinkedAccessors(s.fields[i])])
  \o FlattenSeq([i \in DOMAIN s.properties |-> LinkedAccessors(s.properties[i])])
  \o LinkedConstructors(s.constructors)
  \o FlattenSeq([i \in DOMAIN s.methods |-> LinkedMethod(s.methods[i])])
  \o LinkedProjections(s)

-----------------------------------------------------------------------------
\* Companions of an enum under its owner's prefix.
LinkedCompanions(e, prefix) ==
  LET names(m) == LinkedMonomorphs(m, "function") \o LinkedDispatcher(m, "function")
      own(m) == [i \in DOMAIN names(m) |-> Linked("function", prefix \o names(m)[i].entry.text)]
  IN  FlattenSeq([i \in DOMAIN e.methods |-> own(e.methods[i])])

LinkedRecord(s, prefix, owner) ==
  LET accessor(text) == LinkedAs("function", Dashed(owner, text), "accessor")
      property(n) == <<accessor(Spelling[n.name])>>
                     \o (IF n.readonly THEN <<>> ELSE <<accessor(<<"set">> \o Spelling[n.name])>>)
  IN  [i \in DOMAIN Projections(s) |->
         LinkedAs("function", prefix \o ProjectionText(Projections(s)[i]), "projection")]
      \o FlattenSeq([i \in DOMAIN s.properties |-> property(s.properties[i])])

LinkedType(reg, d) ==
  LET t == WithId(ValueTypes(reg), d.id)
      name == IF d.env.self = "" THEN Spelling[t.name] ELSE d.env.name
      prefix == IF d.env.self = "" THEN Under(name) ELSE name
  IN  IF d.id \in Ids(reg.enums) THEN LinkedCompanions(t, prefix)
      ELSE IF d.id \in Ids(reg.structs) /\ ~IsResource(reg, d.id) THEN LinkedRecord(t, prefix, name)
      ELSE <<>>

LinkedFunction(reg, f, insts) ==
  IF f.generics = <<>> THEN <<Linked("function", Spelling[f.name])>>
  ELSE [i \in DOMAIN insts |-> Linked("function", FnInstanceName(reg, f.name, insts[i]))]
       \o LinkedDispatcher(f, "function")

\* What one interface of the program gets in the linker, besides resources.
LinkedFunctions(plan, iface) ==
  LET types == Defined(plan, iface)
      fns == iface.functions
  IN  FlattenSeq([i \in DOMAIN types |-> LinkedType(plan.reg, types[i])])
      \o FlattenSeq([i \in DOMAIN fns |->
           LinkedFunction(plan.reg, fns[i], InstantiationsOf(fns[i], iface.fnInsts))])
      \o (IF Getters
          THEN [i \in DOMAIN iface.constants |-> Linked("function", Spelling[iface.constants[i].name])]
          ELSE <<>>)

LinkedResources(plan, iface) ==
  LET resources == ResourcesIn(plan, iface) IN
  [i \in DOMAIN resources |->
     [name |-> DefinedName(plan, resources[i]),
      members |-> LinkedResource(WithId(plan.reg.structs, resources[i].id))]]

Linkable(plan) == {k \in DOMAIN plan.interfaces : /\ plan.interfaces[k].direction = "provided"
                                                  /\ ~IsEmpty(plan.interfaces[k])}

\* The linker after `bind`: definitions of each instance, in order.  Names
\* are written as they were derived, with their escape.
LinkerOf(plan) ==
  LET Local(m) == IF m.how = "constructor" THEN <<>> ELSE ToKebab(m.entry.text)
      Flat(r) == <<[how |-> "resource", res |-> r.name, name |-> <<>>]>>
                 \o [i \in DOMAIN r.members |->
                       [how |-> r.members[i].how, res |-> r.name, name |-> Local(r.members[i])]]
      Functions(iface) ==
        LET fns == LinkedFunctions(plan, iface)
        IN  [i \in DOMAIN fns |-> [how |-> fns[i].how, res |-> <<>>, name |-> ToKebab(fns[i].entry.text)]]
      Definitions(iface) ==
        LET rs == LinkedResources(plan, iface)
        IN  FlattenSeq([i \in DOMAIN rs |-> Flat(rs[i])]) \o Functions(iface)
  IN  [k \in Linkable(plan) |->
         [name |-> plan.interfaces[k].name, defs |-> Definitions(plan.interfaces[k])]]

\* Methods of enums and resources are mangled without the plan.
RuntimeMangles(plan, iface) ==
  \A d \in ToSet(Defined(plan, iface)) :
    d.id \notin Ids(plan.reg.aliases) =>
      \A m \in ToSet(WithId(plan.reg.structs \o plan.reg.enums, d.id).methods) :
        \A args \in ToSet(m.insts) : \A t \in ToSet(args) : PlainMangles(t)

\* constant_to_val: only literals have a value.
Literal(t) == Peeled(t) = String \/ (Peeled(t).kind = "primitive" /\ Structural(Peeled(t)))

\* WasmBinder::bind; the linker refuses a second definition of a name.
Binds(plan) ==
  /\ \A k \in Linkable(plan) :
       LET iface == plan.interfaces[k] IN
       /\ RuntimeMangles(plan, iface)
       /\ \A d \in ToSet(Defined(plan, iface)) :
            d.id \in Ids(plan.reg.structs) => Projects(WithId(plan.reg.structs, d.id))
       /\ Agree(Entries(LinkedFunctions(plan, iface)))
       /\ \A r \in ToSet(LinkedResources(plan, iface)) : Agree(Entries(r.members))
       /\ \A f \in ToSet(iface.functions) :
            \A args \in ToSet(InstantiationsOf(f, iface.fnInsts)) :
              \A t \in ToSet(args) : Mangles(plan.reg, t)
       /\ Getters => \A c \in ToSet(iface.constants) : Literal(c.ty)
  /\ \A k \in Linkable(plan) : NoRepeats(LinkerOf(plan)[k].defs)

-----------------------------------------------------------------------------
\* What a component built from the document imports, by the names the
\* document gives them.
ImportsOf(iface) ==
  {[how |-> f.how, res |-> <<>>, name |-> f.name] : f \in ToSet(iface.functions)}
  \cup UNION {{[how |-> "resource", res |-> r.name, name |-> <<>>]}
              \cup {[how |-> m.how, res |-> r.name,
                     name |-> IF m.how = "constructor" THEN <<>> ELSE m.name] :
                       m \in ToSet(r.members)} : r \in ToSet(iface.resources)}

\* The component imports the identifiers of the parsed document.
Parsed(import) == [import EXCEPT !.res = Identifier(@), !.name = Identifier(@)]

DefinedIn(linker, interface, import) ==
  \E j \in DOMAIN linker : /\ linker[j].name = Identifier(interface)
                           /\ Parsed(import) \in ToSet(linker[j].defs)

\* The imports that instantiating the component does not find.
Unserved(doc, linker) ==
  {i \in UNION {{[interface |-> doc[k].name, import |-> f] : f \in ImportsOf(doc[k])} :
                  k \in {d \in DOMAIN doc : doc[d].direction = "provided"}} :
     ~DefinedIn(linker, i.interface, i.import)}

-----------------------------------------------------------------------------
\* Foreign callers: `planned` tells foreign_caller_in, which has the registry,
\* from foreign_caller.
CallerMangles(reg, planned, args) ==
  \A t \in ToSet(args) : IF planned THEN Mangles(reg, t) ELSE PlainMangles(t)

CallerName(reg, planned, name, args) ==
  IF planned THEN FnInstanceName(reg, name, args) ELSE PlainName(name, args)

\* The export that is looked up for each function: one per instantiation, or
\* a single erased one.
LookedUpByInstance(reg, planned, f) ==
  IF f.generics = <<>> THEN <<Linked("function", Spelling[f.name])>>
  ELSE [i \in DOMAIN f.insts |-> Linked("function", CallerName(reg, planned, f.name, f.insts[i]))]

LookedUp(reg, planned, f) ==
  IF f.generics = <<>> \/ f.dyn THEN <<Linked("function", Spelling[f.name])>>
  ELSE [i \in DOMAIN f.insts |-> Linked("function", CallerName(reg, planned, f.name, f.insts[i]))]

CallerLookups(reg, planned, foreign) ==
  FlattenSeq([i \in DOMAIN foreign.functions |-> LookedUp(reg, planned, foreign.functions[i])])

\* The instance that is looked up: a generic interface by its arguments.
CallerInstance(reg, planned, foreign, args) ==
  IF foreign.generics = <<>> THEN Kebab(foreign.name)
  ELSE IF planned THEN InstanceName(reg, foreign.id, args)
  ELSE PlainName(foreign.name, args)

\* resolve_foreign gets to its lookups.
CallerResolves(reg, planned, foreign, args) ==
  /\ foreign.generics # <<>> => args # <<>> /\ CallerMangles(reg, planned, args)
  /\ \A f \in ToSet(foreign.functions) : \A a \in ToSet(f.insts) : CallerMangles(reg, planned, a)
  /\ Agree(Entries(CallerLookups(reg, planned, foreign)))

\* Every lookup finds an export of a component built from the document.
Exported(doc, reg, planned, foreign, args) ==
  \E k \in DOMAIN doc :
    /\ doc[k].direction = "foreign"
    /\ Identifier(doc[k].name) = CallerInstance(reg, planned, foreign, args)
    /\ \A m \in ToSet(CallerLookups(reg, planned, foreign)) :
         \E f \in ToSet(doc[k].functions) : Identifier(f.name) = ToKebab(m.entry.text)
=============================================================================
