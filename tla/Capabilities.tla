----------------------------- MODULE Capabilities -----------------------------
(***************************************************************************)
(* What a backend declares it can express, and the check of a validated    *)
(* registry against it (crates/haphe-core/src/backend.rs).                 *)
(***************************************************************************)
EXTENDS Registry

\* The capability names are the fields of BackendCapabilities; `send` is a
\* required thread safety.
AllCapabilities ==
  {"async", "callback", "stream", "future", "generics", "dyn_generics",
   "properties", "type_aliases", "foreign_fns"}

\* Callbacks, streams and futures are capabilities and kinds of types.
Unsupported(caps) == {"callback", "stream", "future"} \ caps

Expresses(types, caps) ==
  \A t \in types : \A kind \in Unsupported(caps) : ~Mentions(t, kind)

\* check_fns_async, check_fns_callbacks, check_fns_streams, check_fns_futures
FunctionsExpressible(fns, caps) ==
  \A f \in ToSet(fns) : /\ f.async => "async" \in caps
                        /\ Expresses(Signature(f), caps)

\* check_fns_generics
GenericsExpressible(fns, caps) ==
  \A f \in ToSet(fns) :
    f.generics # <<>> => /\ "generics" \in caps
                         /\ f.dyn => "dyn_generics" \in caps
                         /\ f.insts # <<>>

\* A generic type needs an instantiation: without one there is nothing to emit.
TypeInstantiated(d, reg, caps) ==
  d.generics # <<>> => "generics" \in caps /\ d.id \in Ids(reg.insts)

\* check_trait_impls_async
TraitsExpressible(traits, caps) ==
  \A t \in ToSet(traits) : t.name = "AsyncCall" => "async" \in caps

ThreadSafe(d, caps) == "send" \in caps => d.send

StructExpressible(s, reg, caps) ==
  LET fns == s.methods \o s.constructors IN
  /\ FunctionsExpressible(fns, caps)
  /\ GenericsExpressible(fns, caps)
  /\ TraitsExpressible(s.traits, caps)
  /\ Expresses(TypesOf(s.fields) \cup TypesOf(s.properties), caps)
  /\ TypeInstantiated(s, reg, caps)
  /\ s.properties # <<>> => "properties" \in caps
  /\ ThreadSafe(s, caps)

\* The payload of a variant is looked at for streams and futures only.
EnumExpressible(e, reg, caps) ==
  LET payloads == UNION {TypesOf(v.payload) : v \in ToSet(e.variants)} IN
  /\ FunctionsExpressible(e.methods, caps)
  /\ GenericsExpressible(e.methods, caps)
  /\ TraitsExpressible(e.traits, caps)
  /\ Expresses(payloads, caps \cup {"callback"})
  /\ TypeInstantiated(e, reg, caps)
  /\ ThreadSafe(e, caps)

ForeignExpressible(f, reg, caps) ==
  /\ "foreign_fns" \in caps
  /\ FunctionsExpressible(f.functions, caps)
  /\ GenericsExpressible(f.functions, caps)
  /\ TypeInstantiated(f, reg, caps)
  /\ ThreadSafe(f, caps)

\* A module's instantiations count for its own functions.
ModuleExpressible(m, caps) ==
  /\ FunctionsExpressible(m.functions, caps)
  /\ GenericsExpressible(
       [i \in DOMAIN m.functions |->
          [m.functions[i] EXCEPT !.insts = InstantiationsOf(m.functions[i], m.fnInsts)]],
       caps)
  /\ Expresses(TypesOf(m.constants), caps)

\* BackendCapabilities::check
Supports(caps, reg) ==
  /\ \A s \in ToSet(reg.structs) : StructExpressible(s, reg, caps)
  /\ \A e \in ToSet(reg.enums) : EnumExpressible(e, reg, caps)
  /\ reg.aliases # <<>> => "type_aliases" \in caps
  /\ \A f \in ToSet(reg.foreigns) : ForeignExpressible(f, reg, caps)
  /\ \A m \in ModulesUnder(reg.modules) : ModuleExpressible(m, caps)
=============================================================================
