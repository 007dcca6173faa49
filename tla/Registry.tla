------------------------------- MODULE Registry -------------------------------
(***************************************************************************)
(* The registry of haphe-core and its validation                           *)
(* (crates/haphe-core/src/registry.rs).                                    *)
(*                                                                         *)
(* A registry holds what was registered, in order: structs, enums, aliases,*)
(* foreign interfaces, modules and instantiations of generic types.  The   *)
(* rules of `validate` are predicates over it; the messages of the errors  *)
(* it collects are left out.                                               *)
(***************************************************************************)
EXTENDS Descriptors

Empty == [structs |-> <<>>, enums |-> <<>>, aliases |-> <<>>, foreigns |-> <<>>,
          modules |-> <<>>, insts |-> <<>>]

\* What a Ref may name, in the order of `get_type`.
ValueTypes(reg) == reg.structs \o reg.enums \o reg.aliases

Ids(seq) == {seq[i].id : i \in DOMAIN seq}

\* The ids a Ref may name: foreign interfaces are not value types.
Known(reg) == Ids(ValueTypes(reg))

HasType(reg, id) == id \in Known(reg) \cup Ids(reg.foreigns)

\* A module and the modules nested in it.
ModulesUnder(modules) ==
  LET down(S) == S \cup UNION {ToSet(m.submodules) : m \in S}
  IN  Nested(down, ToSet(modules))

\* A module and what is nested in it, within the bound.
IsModuleTree(m) ==
  \A n \in ModulesUnder(<<m>>) : IsModule(n) /\ ToSet(n.submodules) \subseteq ModulesUnder(<<m>>)

IsRegistry(reg) ==
  /\ DOMAIN reg = {"structs", "enums", "aliases", "foreigns", "modules", "insts"}
  /\ IsSlice(reg.structs) /\ \A s \in ToSet(reg.structs) : IsStruct(s)
  /\ IsSlice(reg.enums) /\ \A e \in ToSet(reg.enums) : IsEnum(e)
  /\ IsSlice(reg.aliases) /\ \A a \in ToSet(reg.aliases) : IsType(a.inner)
  /\ IsSlice(reg.foreigns) /\ \A f \in ToSet(reg.foreigns) : IsForeign(f)
  /\ IsSlice(reg.modules) /\ \A m \in ToSet(reg.modules) : IsModuleTree(m)
  /\ IsSlice(reg.insts) /\ \A i \in ToSet(reg.insts) : IsInst(i)

IsDeclaration(d) ==
  \/ d.sort = "struct" /\ IsStruct(d.desc)
  \/ d.sort = "enum" /\ IsEnum(d.desc)
  \/ d.sort = "alias" /\ IsType(d.desc.inner)
  \/ d.sort = "foreign" /\ IsForeign(d.desc)
  \/ d.sort = "module" /\ IsModuleTree(d.desc)
  \/ d.sort = "inst" /\ IsInst(d.desc)

-----------------------------------------------------------------------------
\* TypeRegistryBuilder: a second type or foreign interface with an id is
\* refused, everything else is taken as it comes.
Register(reg, d) ==
  CASE d.sort = "struct"  -> [reg EXCEPT !.structs = Append(@, d.desc)]
    [] d.sort = "enum"    -> [reg EXCEPT !.enums = Append(@, d.desc)]
    [] d.sort = "alias"   -> [reg EXCEPT !.aliases = Append(@, d.desc)]
    [] d.sort = "foreign" -> [reg EXCEPT !.foreigns = Append(@, d.desc)]
    [] d.sort = "module"  -> [reg EXCEPT !.modules = Append(@, d.desc)]
    [] d.sort = "inst"    -> [reg EXCEPT !.insts = Append(@, d.desc)]

Refused(reg, d) ==
  d.sort \in {"struct", "enum", "alias", "foreign"} /\ HasType(reg, d.desc.id)

-----------------------------------------------------------------------------
Resolves(types, known) == \A t \in types : RefsOf(t) \subseteq known
Declared(types, params) == \A t \in types : ParamsOf(t) \subseteq params

\* No id twice; foreign interfaces share the id namespace of types.
UniqueTypes(reg) ==
  LET values == [i \in DOMAIN reg.structs |-> reg.structs[i].id]
                \o [i \in DOMAIN reg.enums |-> reg.enums[i].id]
                \o [i \in DOMAIN reg.aliases |-> reg.aliases[i].id]
  IN  NoRepeats(values \o [i \in DOMAIN reg.foreigns |-> reg.foreigns[i].id])

\* validate_one_fn_instantiation
FnInstFits(f, args) ==
  /\ Len(args) = Len(f.generics)
  /\ Declared(ToSet(args), {})

\* The functions of an owner: what they mention resolves, their parameters
\* are declared by the owner or by themselves, and only generic functions
\* have instantiations.
FunctionsFit(fns, params, known) ==
  \A f \in ToSet(fns) :
    /\ Resolves(Signature(f) \cup InstArgs(f), known)
    /\ Declared(Signature(f), params \cup ToSet(f.generics))
    /\ IF f.generics = <<>> THEN f.insts = <<>>
       ELSE \A args \in ToSet(f.insts) : FnInstFits(f, args)

TypesOf(named) == {n.ty : n \in ToSet(named)}

\* The types that the trait impls of a type mention are resolved, but their
\* generic parameters are not looked up.
TraitsFit(traits, known) == Resolves(UNION {ToSet(t.types) : t \in ToSet(traits)}, known)

\* Defaults of parameters: of an interface and of its functions, ...
ForeignFits(f, known) ==
  /\ FunctionsFit(f.functions, ToSet(f.generics), known)
  /\ NoRepeats(NamesOf(f.functions))
  /\ Resolves(f.defaults \cup UNION {m.defaults : m \in ToSet(f.functions)}, known)

\* ... of a struct or enum only the type's own.
StructFits(s, known) ==
  LET params == ToSet(s.generics)
      data == TypesOf(s.fields) \cup TypesOf(s.properties)
  IN  /\ Resolves(data, known)
      /\ Declared(data, params)
      /\ FunctionsFit(s.methods, params, known)
      /\ FunctionsFit(s.constructors, params, known)
      /\ TraitsFit(s.traits, known)
      /\ Resolves(s.defaults, known)
      /\ NoRepeats(NamesOf(s.fields) \o NamesOf(s.methods) \o NamesOf(s.constructors)
                   \o NamesOf(s.properties))

EnumFits(e, known) ==
  LET params == ToSet(e.generics)
      data == UNION {TypesOf(v.payload) : v \in ToSet(e.variants)}
      explicit == SelectSeq(e.variants, LAMBDA v : v.discriminant # <<>>)
  IN  /\ NoRepeats([i \in DOMAIN explicit |-> explicit[i].discriminant])
      /\ e.flags => \A v \in ToSet(e.variants) : v.shape = "unit"
      /\ Resolves(data, known)
      /\ Declared(data, params)
      /\ FunctionsFit(e.methods, params, known)
      /\ TraitsFit(e.traits, known)
      /\ Resolves(e.defaults, known)
      /\ NoRepeats(NamesOf(e.variants) \o NamesOf(e.methods))

\* An instantiation names a generic struct, enum or foreign interface and
\* gives every parameter a concrete type.
InstFits(inst, reg, known) ==
  LET targets == reg.structs \o reg.enums \o reg.foreigns
  IN  /\ inst.id \in Ids(targets)
      /\ Len(inst.args) = Len(WithId(targets, inst.id).generics)
      /\ Resolves(ToSet(inst.args), known)
      /\ Declared(ToSet(inst.args), {})

\* The names a module exposes share one namespace with its types' names.
TypeNames(m, reg) ==
  LET types == ValueTypes(reg)
      known == Kept(m.types, {i \in DOMAIN m.types : m.types[i] \in Ids(types)})
  IN  [i \in DOMAIN known |->
         (CHOOSE t \in ToSet(types) : t.id = known[i]).name]

ModuleFits(m, reg, known) ==
  /\ FunctionsFit(m.functions, {}, known)
  /\ \A inst \in ToSet(m.fnInsts) :
       \E f \in ToSet(m.functions) :
         /\ f.name = inst.function
         /\ f.generics # <<>>
         /\ FnInstFits(f, inst.args)
         /\ Resolves(ToSet(inst.args), known)
  /\ Resolves(TypesOf(m.constants), known)
  /\ ToSet(m.types) \subseteq known
  /\ NoRepeats(NamesOf(m.functions) \o NamesOf(m.constants) \o NamesOf(m.submodules)
               \o TypeNames(m, reg))

\* TypeRegistry::validate
Validates(reg) ==
  LET known == Known(reg) IN
  /\ UniqueTypes(reg)
  /\ \A f \in ToSet(reg.foreigns) : ForeignFits(f, known)
  /\ \A s \in ToSet(reg.structs) : StructFits(s, known)
  /\ \A e \in ToSet(reg.enums) : EnumFits(e, known)
  /\ \A a \in ToSet(reg.aliases) : Resolves({a.inner}, known)
  /\ \A inst \in ToSet(reg.insts) : InstFits(inst, reg, known)
  /\ NoRepeats(NamesOf(reg.modules))
  /\ \A m \in ModulesUnder(reg.modules) : ModuleFits(m, reg, known)
=============================================================================
