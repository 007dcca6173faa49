------------------------------- MODULE WitPlan -------------------------------
(***************************************************************************)
(* The plan of a WIT package (crates/haphe-wit/src/model.rs), from which   *)
(* the document is written, the host functions are linked and the guest's  *)
(* exports are looked up: the interfaces, which of them defines a type,    *)
(* and the monomorphized instances of generic types with their mangled     *)
(* names.  The features `generics` and `dyn-generics` are on.              *)
(***************************************************************************)
EXTENDS Capabilities, WitNames

CONSTANT DefaultInterface   \* the name of the interface of unclaimed types

Generic(reg) == {d.id : d \in {e \in ToSet(reg.structs \o reg.enums) : e.generics # <<>>}}
GenericForeigns(reg) == {f.id : f \in {g \in ToSet(reg.foreigns) : g.generics # <<>>}}

\* Methods and constructors make a struct a resource, else it is a record.
IsResource(reg, id) ==
  \E s \in ToSet(reg.structs) : s.id = id /\ (s.methods # <<>> \/ s.constructors # <<>>)

TypeName(reg, id) == Kebab(WithId(ValueTypes(reg), id).name)
ErasedName(reg, id) == Kebab(WithId(reg.structs \o reg.enums \o reg.foreigns, id).name)

-----------------------------------------------------------------------------
\* Mangled names: a fragment for every type argument.  A few types have none.
WitPrimitives == {"bool", "s8", "s16", "s32", "s64", "u8", "u16", "u32", "u64",
                  "f32", "f64", "char"}

\* peel_borrowed
Peeled(t) ==
  LET peel(u) == IF u.kind = "borrowed" THEN u.parts[1] ELSE u
  IN  Nested(peel, t)

Structural(u) ==
  /\ u.kind \notin {"callback", "param"}
  /\ u.kind = "primitive" => u.name \in WitPrimitives

Mangles(reg, t) ==
  \A u \in Subterms(t) :
    /\ Structural(u)
    /\ u.kind = "ref" => u.name \notin Generic(reg)
    /\ u.kind = "instance" => u.name \in Generic(reg) \cup GenericForeigns(reg)

\* mangle_plain_type: what the runtime can mangle without a plan.
PlainMangles(t) == \A u \in Subterms(t) : Structural(u) /\ u.kind \notin {"ref", "instance"}

\* The fragments of one node around those of its parts.
Fragment(u, parts) ==
  LET inside == FlattenSeq(parts) IN
  CASE u.kind = "primitive" -> <<u.name>>
    [] u.kind = "borrowed" -> inside
    [] u.kind = "tuple" -> <<"tuple" \o ToString(Len(parts))>> \o inside
    [] u.kind \in {"stream", "future"} /\ u.parts = <<Unit>> -> <<u.kind>>
    [] OTHER -> <<u.kind>> \o inside

Mangled(reg, t) ==
  LET Node(u, parts) ==
        CASE u.kind = "ref" -> TypeName(reg, u.name)
          [] u.kind = "instance" -> ErasedName(reg, u.name) \o FlattenSeq(parts)
          [] OTHER -> Fragment(u, parts)
  IN  Walked(t, Node)

PlainMangled(t) == Walked(t, Fragment)

InstanceName(reg, id, args) ==
  ErasedName(reg, id) \o FlattenSeq([i \in DOMAIN args |-> Mangled(reg, args[i])])
FnInstanceName(reg, name, args) ==
  Kebab(name) \o FlattenSeq([i \in DOMAIN args |-> Mangled(reg, args[i])])

\* mangle_generic_name: the same without a plan.
PlainName(name, args) ==
  Kebab(name) \o FlattenSeq([i \in DOMAIN args |-> PlainMangled(args[i])])

-----------------------------------------------------------------------------
\* A module becomes an interface, then each module nested in it, named by
\* the path that leads to it (flatten_module).
ModulePaths(reg) ==
  LET all == ModulesUnder(reg.modules)
      nested(m, under) == FlattenSeq([i \in DOMAIN m.submodules |-> under[m.submodules[i]]])
      up(under) == [m \in all |-> <<<<m>>>> \o [i \in DOMAIN nested(m, under) |->
                                                   <<m>> \o nested(m, under)[i]]]
      under == Nested(up, [m \in all |-> <<<<m>>>>])
  IN  FlattenSeq([i \in DOMAIN reg.modules |-> under[reg.modules[i]]])

PathText(path) ==
  LET text[n \in 1..Len(path)] ==
        IF n = 1 THEN Spelling[path[1].name]
        ELSE ToKebab(text[n - 1]) \o Spelling[path[n].name]
  IN  text[Len(path)]

\* An interface of the plan; `instance` is the instantiation that a generic
\* foreign interface was monomorphized for.
Interface(text, direction) ==
  [entry |-> Entry(text), name |-> ToKebab(text), direction |-> direction,
   functions |-> <<>>, fnInsts |-> <<>>, constants |-> <<>>, types |-> <<>>,
   instances |-> <<>>, instance |-> <<>>]

\* Interface 1 holds the types no module claims; the first module that
\* lists a type defines it.
ClaimOf(paths, id) ==
  LET claims == {i \in DOMAIN paths : id \in ToSet(Last(paths[i]).types)}
  IN  IF claims = {} THEN 1 ELSE 1 + (CHOOSE i \in claims : \A j \in claims : i <= j)

\* Identical instantiations are planned once: a mangled name that was met
\* before is skipped.
PlannedInstances(reg) ==
  LET all == [i \in DOMAIN reg.insts |->
                [id |-> reg.insts[i].id, args |-> reg.insts[i].args,
                 name |-> InstanceName(reg, reg.insts[i].id, reg.insts[i].args)]]
  IN  Kept(all, {i \in DOMAIN all : \A j \in 1..(i - 1) : all[j].name # all[i].name})

\* The concrete types of an interface among `ids`, and its instances.
OwnTypesWhereListed(reg, paths, ids, k) == Kept(ids, {i \in DOMAIN ids : ids[i] \notin Generic(reg)})

OwnTypes(reg, paths, ids, k) ==
  Kept(ids, {i \in DOMAIN ids : ids[i] \notin Generic(reg) /\ ClaimOf(paths, ids[i]) = k})
OwnInstances(reg, paths, planned, k) ==
  Kept(planned, {i \in DOMAIN planned : /\ planned[i].id \notin GenericForeigns(reg)
                                        /\ ClaimOf(paths, planned[i].id) = k})

DefaultPlanned(reg, paths, planned) ==
  [Interface(Spelling[DefaultInterface], "provided") EXCEPT
     !.types = OwnTypes(reg, paths, [i \in DOMAIN ValueTypes(reg) |-> ValueTypes(reg)[i].id], 1),
     !.instances = OwnInstances(reg, paths, planned, 1)]

ModulePlanned(reg, paths, planned, i) ==
  LET m == Last(paths[i]) IN
  [Interface(PathText(paths[i]), "provided") EXCEPT
     !.functions = m.functions, !.fnInsts = m.fnInsts, !.constants = m.constants,
     !.types = OwnTypes(reg, paths, m.types, i + 1),
     !.instances = OwnInstances(reg, paths, planned, i + 1)]

ForeignPlanned(f) ==
  [Interface(Spelling[f.name], "foreign") EXCEPT !.functions = f.functions]

\* A generic foreign interface is monomorphized for an instantiation, whose
\* name is a WIT name already.
InstancePlanned(reg, p) ==
  [Interface(p.name, "foreign") EXCEPT
     !.name = p.name, !.functions = WithId(reg.foreigns, p.id).functions, !.instance = <<p>>]

PlannedInterfaces(reg, paths, planned) ==
  LET plain == Kept(reg.foreigns, {i \in DOMAIN reg.foreigns : reg.foreigns[i].generics = <<>>})
      mono == Kept(planned, {i \in DOMAIN planned : planned[i].id \in GenericForeigns(reg)})
  IN  <<DefaultPlanned(reg, paths, planned)>>
      \o [i \in DOMAIN paths |-> ModulePlanned(reg, paths, planned, i)]
      \o [i \in DOMAIN plain |-> ForeignPlanned(plain[i])]
      \o [i \in DOMAIN mono |-> InstancePlanned(reg, mono[i])]

\* A planned package: the registry next to what was planned for it.
Planned(reg, paths, planned) ==
  [reg |-> reg, paths |-> paths, instances |-> planned,
   interfaces |-> PlannedInterfaces(reg, paths, planned)]

PlanOf(reg) == Planned(reg, ModulePaths(reg), PlannedInstances(reg))

-----------------------------------------------------------------------------
\* The names of concrete types and of instances share one namespace, those
\* of interfaces another.
TypeEntries(plan) ==
  LET concrete == SelectSeq(ValueTypes(plan.reg), LAMBDA d : d.id \notin Generic(plan.reg))
      instances == SelectSeq(plan.instances, LAMBDA p : p.id \notin GenericForeigns(plan.reg))
  IN  [i \in DOMAIN concrete |-> Entry(Spelling[concrete[i].name])]
      \o [i \in DOMAIN instances |-> Entry(instances[i].name)]

\* Plan::build succeeds: every instantiation has a name, ...
InstancesMangle(reg) ==
  \A inst \in ToSet(reg.insts) :
    /\ inst.id \in Generic(reg) \cup GenericForeigns(reg)
    /\ \A t \in ToSet(inst.args) : Mangles(reg, t)

\* ... and no two names of a namespace meet.
PlanAgrees(plan) ==
  /\ Agree(TypeEntries(plan))
  /\ Agree([k \in DOMAIN plan.interfaces |-> plan.interfaces[k].entry])

-----------------------------------------------------------------------------
\* What a generic parameter is bound to where a type is used, and the name
\* of the generic type that is being emitted (Env).
NoEnv == [params |-> <<>>, args |-> <<>>, self |-> "", name |-> <<>>]

EnvFor(plan, inst) ==
  [params |-> WithId(plan.reg.structs \o plan.reg.enums \o plan.reg.foreigns, inst.id).generics,
   args |-> inst.args, self |-> inst.id, name |-> inst.name]

FnEnv(f, args, env) == [env EXCEPT !.params = @ \o f.generics, !.args = @ \o args]

IfaceEnv(plan, iface) == IF iface.instance = <<>> THEN NoEnv ELSE EnvFor(plan, iface.instance[1])

\* The types a signature is written with, once for every instantiation.
EnvsOf(f, insts, env) ==
  IF f.generics = <<>> THEN {env} ELSE {FnEnv(f, args, env) : args \in ToSet(insts)}

Bound(types, env) == {Substituted(t, env.params, env.args) : t \in types}
BoundSignature(f, insts, env) == UNION {Bound(Signature(f), e) : e \in EnvsOf(f, insts, env)}

\* collect_type_uses: the types that a definition is made of.  The types that
\* trait impls mention are not among them.
TypesIn(reg, id, env) ==
  LET d == WithId(ValueTypes(reg), id)
      Functions(fns) == UNION {BoundSignature(f, f.insts, env) : f \in ToSet(fns)}
  IN  CASE id \in Ids(reg.structs) -> Bound(TypesOf(d.fields) \cup TypesOf(d.properties), env)
                                      \cup Functions(d.methods \o d.constructors)
        [] id \in Ids(reg.enums) -> Bound(UNION {TypesOf(v.payload) : v \in ToSet(d.variants)}, env)
                                    \cup Functions(d.methods)
        [] OTHER -> {d.inner}

\* Everything an interface is written with (uses_for).
UsedTypes(plan, iface) ==
  LET base == IfaceEnv(plan, iface) IN
  TypesOf(iface.constants)
  \cup (UNION {BoundSignature(f, InstantiationsOf(f, iface.fnInsts), base) : f \in ToSet(iface.functions)})
  \cup (UNION {TypesIn(plan.reg, id, NoEnv) : id \in ToSet(iface.types)})
  \cup UNION {TypesIn(plan.reg, p.id, EnvFor(plan, p)) : p \in ToSet(iface.instances)}

\* The types that are mentioned by name.  The arguments of an instance went
\* into its own name.
NamedIn(types) ==
  LET named(u) == u.kind \in {"instance", "ref"}
      inside(S) == S \cup UNION {ToSet(u.parts) : u \in {v \in S : ~named(v)}}
  IN  {u \in Nested(inside, types) : named(u)}

\* instance_ref_name fails for an instantiation that was not registered.
Registered(plan, u) ==
  u.kind = "instance" =>
    /\ u.name \in Generic(plan.reg)
    /\ \A t \in ToSet(u.parts) : Mangles(plan.reg, t)
    /\ InstanceName(plan.reg, u.name, u.parts) \in ToSet(NamesOf(plan.instances))

\* The name of a type as an interface mentions it, and where it is defined.
\* A bare reference to a generic type stands for the type being emitted.
Mention(plan, u, env) ==
  CASE u.kind = "instance" -> InstanceName(plan.reg, u.name, u.parts)
    [] u.name \in Generic(plan.reg) -> env.name
    [] OTHER -> TypeName(plan.reg, u.name)

UsesFor(plan, k) ==
  LET used == {u \in NamedIn(UsedTypes(plan, plan.interfaces[k])) :
                 u.kind = "ref" => u.name \notin Generic(plan.reg)}
  IN  {[owner |-> ClaimOf(plan.paths, u.name), name |-> Mention(plan, u, NoEnv)] :
         u \in {v \in used : ClaimOf(plan.paths, v.name) # k}}

\* Every id the plan is asked for has an owner and a name: the maps of the
\* plan are indexed without a check.
LookupsHit(plan) ==
  \A k \in DOMAIN plan.interfaces :
    LET iface == plan.interfaces[k] IN
    /\ ToSet(iface.types) \subseteq Ids(ValueTypes(plan.reg))
    /\ \A u \in NamedIn(UsedTypes(plan, iface)) : u.name \in Ids(ValueTypes(plan.reg))
=============================================================================
