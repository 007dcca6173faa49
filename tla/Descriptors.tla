----------------------------- MODULE Descriptors -----------------------------
(***************************************************************************)
(* The intermediate representation of haphe-core: type descriptors and the *)
(* descriptors of functions, types, foreign interfaces and modules         *)
(* (crates/haphe-core/src/types.rs, function.rs, module.rs, foreign.rs).   *)
(*                                                                         *)
(* A type descriptor is a tree: a record with the descriptors it is built  *)
(* from in `parts`.  Docs, ownership annotations and the text of constants *)
(* are left out.  Primitives carry their WIT names ("u8", "s32").          *)
(***************************************************************************)
EXTENDS Naturals, Sequences, SequencesExt

Leaf(kind) == [kind |-> kind, name |-> "", parts |-> <<>>]
Built(kind, parts) == [kind |-> kind, name |-> "", parts |-> parts]

Prim(p) == [kind |-> "primitive", name |-> p, parts |-> <<>>]
String == Leaf("string")
Unit == Leaf("unit")
Ref(id) == [kind |-> "ref", name |-> id, parts |-> <<>>]
Instance(id, args) == [kind |-> "instance", name |-> id, parts |-> args]
Param(p) == [kind |-> "param", name |-> p, parts |-> <<>>]
ListOf(t) == Built("list", <<t>>)
OptionOf(t) == Built("option", <<t>>)
ResultOf(t, e) == Built("result", <<t, e>>)
Tuple(ts) == Built("tuple", ts)
Borrowed(t) == Built("borrowed", <<t>>)
Callback(params, ret) == Built("callback", Append(params, ret))
StreamOf(t) == Built("stream", <<t>>)
FutureOf(t) == Built("future", <<t>>)

\* Bound: types and modules are nested at most three deep, so that what takes
\* them apart level by level takes three steps.
Nested(Step(_), x) == Step(Step(Step(x)))

\* A type and the types it is built from, all the way down.
Subterms(t) ==
  LET down(S) == S \cup UNION {ToSet(s.parts) : s \in S}
  IN  Nested(down, {t})

\* walk_type_refs, walk_generic_params; contains_callback, contains_stream, contains_future
RefsOf(t) == {s.name : s \in {u \in Subterms(t) : u.kind \in {"ref", "instance"}}}
ParamsOf(t) == {s.name : s \in {u \in Subterms(t) : u.kind = "param"}}
Mentions(t, kind) == \E s \in Subterms(t) : s.kind = kind

\* A type walked from its leaves up: Node takes a subterm and what its parts
\* came to.
Walked(t, Node(_, _)) ==
  LET up(f) == [u \in Subterms(t) |-> Node(u, [i \in DOMAIN u.parts |-> f[u.parts[i]]])]
  IN  Nested(up, [u \in Subterms(t) |-> Node(u, <<>>)])[t]

\* Type arguments in place of generic parameters; the first binding of a
\* name counts (Env::lookup).
Substituted(t, params, args) ==
  LET Bound(p) == CHOOSE i \in DOMAIN params :
                    params[i] = p /\ \A j \in 1..(i - 1) : params[j] # p
      Node(u, parts) == IF u.kind = "param" /\ u.name \in ToSet(params)
                        THEN args[Bound(u.name)]
                        ELSE [u EXCEPT !.parts = parts]
  IN  Walked(t, Node)

-----------------------------------------------------------------------------
\* A function, method, constructor or foreign function.  `receiver` is
\* "none", "own", "ref" or "mut"; `insts` are its declared instantiations.
Function(name, params, ret) ==
  [name |-> name, params |-> params, ret |-> ret, receiver |-> "none",
   generics |-> <<>>, defaults |-> {}, insts |-> <<>>, dyn |-> FALSE,
   async |-> FALSE, fallible |-> FALSE]

Method(name, receiver, params, ret) ==
  [Function(name, params, ret) EXCEPT !.receiver = receiver]

\* A field, a computed property or a constant.
Named(name, ty) == [name |-> name, ty |-> ty, readonly |-> FALSE]
ReadOnly(name, ty) == [Named(name, ty) EXCEPT !.readonly = TRUE]

\* A trait that a type declares, with the types it mentions.
Trait(name, types) == [name |-> name, types |-> types]

Struct(id, name) ==
  [id |-> id, name |-> name, fields |-> <<>>, methods |-> <<>>, constructors |-> <<>>,
   properties |-> <<>>, traits |-> <<>>, generics |-> <<>>, defaults |-> {},
   send |-> TRUE]

\* A variant: `shape` is "unit", "tuple" or "struct"; its payload as fields.
Variant(name, shape, payload) ==
  [name |-> name, shape |-> shape, payload |-> payload, discriminant |-> <<>>]

Enum(id, name, variants) ==
  [id |-> id, name |-> name, variants |-> variants, methods |-> <<>>, traits |-> <<>>,
   generics |-> <<>>, defaults |-> {}, flags |-> FALSE, send |-> TRUE]

Alias(id, name, inner) == [id |-> id, name |-> name, inner |-> inner]

Foreign(id, name, functions) ==
  [id |-> id, name |-> name, functions |-> functions, generics |-> <<>>,
   defaults |-> {}, send |-> TRUE]

Module(name) ==
  [name |-> name, functions |-> <<>>, constants |-> <<>>, types |-> <<>>,
   submodules |-> <<>>, fnInsts |-> <<>>]

\* A module-level instantiation of a function, and one of a generic type.
FnInst(function, args) == [function |-> function, args |-> args]
Inst(id, args) == [id |-> id, args |-> args]

\* Every function sees its owner's parameters and its own.
Signature(f) == ToSet(f.params) \cup {f.ret}
InstArgs(f) == UNION {ToSet(args) : args \in ToSet(f.insts)}

\* The first descriptor with an id; every id that is looked up has one.
WithId(seq, id) ==
  seq[CHOOSE i \in DOMAIN seq : seq[i].id = id /\ \A j \in 1..(i - 1) : seq[j].id # id]

NoRepeats(names) == \A i, j \in DOMAIN names : names[i] = names[j] => i = j
NamesOf(seq) == [i \in DOMAIN seq |-> seq[i].name]

\* What a sequence has at `positions`, in its order.
Kept(seq, positions) ==
  FlattenSeq([i \in DOMAIN seq |-> IF i \in positions THEN <<seq[i]>> ELSE <<>>])

Where(seq, Test(_)) == Kept(seq, {i \in DOMAIN seq : Test(seq[i])})

\* FunctionDescriptor's own instantiations, then the module's, without
\* repetitions (union_instantiations).
InstantiationsOf(f, fnInsts) ==
  LET ofModule == Where(fnInsts, LAMBDA i : i.function = f.name)
      all == f.insts \o [i \in DOMAIN ofModule |-> ofModule[i].args]
  IN  Kept(all, {i \in DOMAIN all : \A j \in 1..(i - 1) : all[j] # all[i]})
-----------------------------------------------------------------------------
\* What the Rust types say of descriptors: slices are sequences, and a type is
\* a finite tree, here one within the bound.
IsSlice(s) == s \in Seq(ToSet(s))

IsType(t) == \A u \in Subterms(t) : /\ DOMAIN u = {"kind", "name", "parts"}
                                    /\ IsSlice(u.parts)
                                    /\ ToSet(u.parts) \subseteq Subterms(t)

AreNamed(named) == IsSlice(named) /\ \A n \in ToSet(named) : IsType(n.ty)

AreFunctions(fns) ==
  /\ IsSlice(fns)
  /\ \A f \in ToSet(fns) :
       /\ IsSlice(f.params) /\ IsSlice(f.generics) /\ IsSlice(f.insts)
       /\ \A args \in ToSet(f.insts) : IsSlice(args)
       /\ \A t \in Signature(f) \cup InstArgs(f) : IsType(t)

IsStruct(s) ==
  /\ AreNamed(s.fields) /\ AreNamed(s.properties)
  /\ AreFunctions(s.methods) /\ AreFunctions(s.constructors)
  /\ IsSlice(s.traits) /\ IsSlice(s.generics)

IsEnum(e) ==
  /\ IsSlice(e.variants) /\ \A v \in ToSet(e.variants) : AreNamed(v.payload)
  /\ AreFunctions(e.methods)
  /\ IsSlice(e.traits) /\ IsSlice(e.generics)

IsForeign(f) == AreFunctions(f.functions) /\ IsSlice(f.generics)

IsModule(m) ==
  /\ AreFunctions(m.functions) /\ AreNamed(m.constants)
  /\ IsSlice(m.types) /\ IsSlice(m.submodules) /\ IsSlice(m.fnInsts)
  /\ \A i \in ToSet(m.fnInsts) : IsSlice(i.args) /\ \A t \in ToSet(i.args) : IsType(t)

IsInst(i) == IsSlice(i.args) /\ \A t \in ToSet(i.args) : IsType(t)

=============================================================================
