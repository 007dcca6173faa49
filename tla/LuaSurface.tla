------------------------------ MODULE LuaSurface ------------------------------
(***************************************************************************)
(* What a script finds in a Lua state: the tables that `bind` makes of a   *)
(* registry's modules (crates/haphe-lua/src/module.rs), what the binders   *)
(* of functions and types put into them and on userdata (binder.rs), and   *)
(* what the generated declarations tell an editor (decl.rs).  The features *)
(* `generics` and `async` are on, `send` is off, and Lua is 5.3 or later,  *)
(* which has all operators.                                                *)
(*                                                                         *)
(* A place is a path of names, a name is a text as in WitNames, taken      *)
(* verbatim.  A member says what is found there: a kind, the source name   *)
(* and, for a monomorph, its type arguments.                               *)
(***************************************************************************)
EXTENDS Capabilities, WitNames

Item(what, name, args) == [what |-> what, name |-> name, args |-> args]

\* Whose member it is: an instantiation of a type that was bound, or nobody's.
Owner(id, args) == [id |-> id, args |-> args]
Nobody == Owner("", <<>>)

At(place, member, owner) == [place |-> place, member |-> member, owner |-> owner]

\* Tables are functions from places; what is installed replaces what was there
\* and, if that was a table, all that is beneath it.
NoTables == <<>>

Beneath(place, above) ==
  Len(above) < Len(place) /\ \A i \in DOMAIN above : place[i] = above[i]
AtOrBeneath(place, above) == place = above \/ Beneath(place, above)

Installed(tables, slots) ==
  LET places == {s.place : s \in slots}
      kept == {p \in DOMAIN tables : \A q \in places : ~Beneath(p, q)}
  IN  [p \in kept \cup places |->
         IF p \in places THEN CHOOSE s \in slots : s.place = p ELSE tables[p]]

-----------------------------------------------------------------------------
\* The names of what is in tables and on objects.
NamesIn(seq) == {seq[i].name : i \in DOMAIN seq}

LuaNames(reg) ==
  LET ofStruct(s) == {s.name} \cup NamesIn(s.fields) \cup NamesIn(s.methods)
                     \cup NamesIn(s.constructors) \cup NamesIn(s.properties)
      ofEnum(e) == {e.name} \cup NamesIn(e.variants) \cup NamesIn(e.methods)
      ofModule(m) == {m.name} \cup NamesIn(m.functions) \cup NamesIn(m.constants)
  IN  (UNION {ofStruct(s) : s \in ToSet(reg.structs)})
      \cup (UNION {ofEnum(e) : e \in ToSet(reg.enums)})
      \cup NamesIn(reg.aliases)
      \cup UNION {ofModule(m) : m \in ModulesUnder(reg.modules)}

\* What stands between the words of a name.
Dash == "_"

\* mangle_ty: types are rendered by their last name, without arguments.
LuaFragment(t) ==
  LET Node(u, parts) ==
        LET inside == FlattenSeq([i \in DOMAIN parts |-> <<Dash>> \o parts[i]]) IN
        CASE u.kind \in {"primitive", "ref", "instance"} -> <<u.name>>
          [] u.kind = "borrowed" -> FlattenSeq(parts)
          [] u.kind = "option" -> <<"opt">> \o inside
          [] OTHER -> <<u.kind>> \o inside
  IN  Walked(t, Node)

\* mangle_generic_name
LuaMangled(name, args) ==
  Spelling[name] \o <<Dash>> \o FlattenSeq([i \in DOMAIN args |-> <<Dash>> \o LuaFragment(args[i])])

\* The names a function is called by: its own, or one for each instantiation
\* when a static dispatch needs them told apart.
Callables(what, f, insts) ==
  LET callable(how, text, args) ==
        [how |-> how, async |-> f.async, text |-> text, member |-> Item(what, f.name, args)]
  IN  IF f.generics = <<>> THEN <<callable("plain", Spelling[f.name], <<>>)>>
      ELSE IF ~f.dyn
      THEN [i \in DOMAIN insts |-> callable("mangled", LuaMangled(f.name, insts[i]), insts[i])]
      ELSE IF insts = <<>> THEN <<>>
      ELSE <<callable("dyn", Spelling[f.name], <<>>)>>

Texts(callables) == [i \in DOMAIN callables |-> callables[i].text]
Called(callables, hows) == Where(callables, LAMBDA c : c.how \in hows)

-----------------------------------------------------------------------------
\* bind_module
LuaModules(reg) ==
  LET top == {[path |-> <<Spelling[m.name]>>, module |-> m] : m \in ToSet(reg.modules)}
      inside(x) == {[path |-> Append(x.path, Spelling[m.name]), module |-> m] :
                      m \in ToSet(x.module.submodules)}
      down(S) == S \cup UNION {inside(x) : x \in S}
  IN  Nested(down, top)

TypeOf(reg, id) == WithId(ValueTypes(reg), id)
TablePlace(reg, x, id) == Append(x.path, Spelling[TypeOf(reg, id).name])

\* A table for every type of a module; an enum's has its cases.
TypeSlots(reg, x, id) ==
  LET place == TablePlace(reg, x, id)
      cases == IF id \in Ids(reg.enums) THEN ToSet(TypeOf(reg, id).variants) ELSE {}
      case(v) == Item(IF v.shape = "unit" THEN "case" ELSE "payload", v.name, <<>>)
  IN  {At(place, Item("type", TypeOf(reg, id).name, <<>>), Nobody)}
      \cup {At(Append(place, Spelling[v.name]), case(v), Nobody) : v \in cases}

\* Constants of type unit are nil; functions are stubs until they are bound.
ModuleSlots(reg, x) ==
  LET named(what, things) == {At(Append(x.path, Spelling[n.name]), Item(what, n.name, <<>>), Nobody) :
                                n \in things}
  IN  {At(x.path, Item("module", x.module.name, <<>>), Nobody)}
      \cup named("constant", {c \in ToSet(x.module.constants) : c.ty # Unit})
      \cup named("stub", ToSet(x.module.functions))
      \cup UNION {TypeSlots(reg, x, id) : id \in ToSet(x.module.types)}

\* LuaBinder::bind: fresh tables for all modules, then install_error_info.
ErrorInfo == <<"haphe", Dash, "error">>

FreshTables(reg) ==
  LET modules == Installed(NoTables, UNION {ModuleSlots(reg, x) : x \in LuaModules(reg)})
  IN  Installed(modules, {At(<<ErrorInfo>>, Item("function", "haphe_error", <<>>), Nobody)})

-----------------------------------------------------------------------------
\* LuaFnBinder::apply: what the macro registers of one function, under the
\* instantiations declared on the function itself.
FnBinds(f) == NoRepeats(Texts(Callables("function", f, f.insts)))

FnSlots(x, f) ==
  {At(Append(x.path, c.text), c.member, Nobody) : c \in ToSet(Callables("function", f, f.insts))}

-----------------------------------------------------------------------------
\* What bind_type and bind_enum_type are given: an enum is a type without
\* fields, properties and constructors.
Bindable(reg, id) ==
  LET t == TypeOf(reg, id) IN
  IF id \in Ids(reg.enums) THEN [Struct(t.id, t.name) EXCEPT !.methods = t.methods, !.traits = t.traits]
  ELSE t

Declares(d, names) == \E t \in ToSet(d.traits) : t.name \in names

\* Constructors, with the one of Default, and functions without a receiver.
TableCallables(d) ==
  LET ctors == d.constructors
               \o (IF Declares(d, {"Default"}) THEN <<Function("default", <<>>, Ref(d.id))>> ELSE <<>>)
      static == Where(d.methods, LAMBDA m : m.receiver = "none")
  IN  FlattenSeq([i \in DOMAIN ctors |-> Callables("constructor", ctors[i], <<>>)])
      \o FlattenSeq([i \in DOMAIN static |-> Callables("associated", static[i], static[i].insts)])

MethodCallables(d) ==
  LET methods == Where(d.methods, LAMBDA m : m.receiver # "none")
  IN  FlattenSeq([i \in DOMAIN methods |-> Callables("method", methods[i], methods[i].insts)])

\* The methods that traits add on every version of Lua.
Portable(d) ==
  LET added(name, traits) ==
        IF Declares(d, traits)
        THEN <<[how |-> "portable", async |-> FALSE, text |-> <<name>>,
                member |-> Item("portable", name, <<>>)]>>
        ELSE <<>>
  IN  added("iter", {"Iterator", "IntoIterator"}) \o added("hash", {"Hash"}) \o added("debug", {"Debug"})

Data(d) ==
  LET data == d.fields \o d.properties
  IN  [i \in DOMAIN data |-> [text |-> Spelling[data[i].name],
                              member |-> Item("field", data[i].name, <<>>)]]

\* LuaTypeBinder::register: the checks before anything is installed.  Async
\* methods are not among the names that monomorphs and the methods of traits
\* are compared with.
TableNamesDiffer(d) == NoRepeats(Texts(TableCallables(d)))

ScannedNames(d) ==
  {c.text : c \in {m \in ToSet(MethodCallables(d)) : m.how = "dyn" \/ (m.how = "plain" /\ ~m.async)}}

MonomorphsDifferAmongThemselves(d) ==
  NoRepeats(Texts(Called(MethodCallables(d), {"mangled"})))

MonomorphsDiffer(d) ==
  LET mangled == Texts(Called(MethodCallables(d), {"mangled"}))
  IN  NoRepeats(mangled) /\ ToSet(mangled) \cap ScannedNames(d) = {}

TypeBinds(d) ==
  /\ MonomorphsDiffer(d)
  /\ ToSet(Texts(Portable(d))) \cap ScannedNames(d) = {}
  /\ TableNamesDiffer(d)
  /\ ToSet(NamesOf(d.fields)) \cap ToSet(NamesOf(d.properties)) = {}
  /\ ~(Declares(d, {"Call"}) /\ Declares(d, {"AsyncCall"}))

\* ... and what it puts on the type's table.  With a function `new` on the table
\* once the constructors are there, the table itself can be called: what its
\* metatable has for that is at the empty name.
TypeTableSlots(tables, place, d, owner) ==
  LET slots(callables) == {At(Append(place, c.text), c.member, owner) : c \in ToSet(callables)}
      all == TableCallables(d)
      withCtors == Installed(tables, slots(Where(all, LAMBDA c : c.member.what = "constructor")))
      new == Append(place, <<"new">>)
      call == Append(place, <<>>)
  IN  slots(all)
      \cup (IF new \in DOMAIN withCtors /\ withCtors[new].member.what # "case"
            THEN {At(call, withCtors[new].member, withCtors[new].owner)} ELSE {})

\* What an object of the type answers to a name: a field before a method, the
\* method that was registered last.
Answer(d, text) ==
  LET data == Where(Data(d), LAMBDA m : m.text = text)
      registered == Called(MethodCallables(d), {"plain"}) \o Called(MethodCallables(d), {"mangled"})
                    \o Called(MethodCallables(d), {"dyn"}) \o Portable(d)
      said == Where(registered, LAMBDA m : m.text = text)
  IN  IF data # <<>> THEN data[1].member ELSE Last(said).member

-----------------------------------------------------------------------------
\* LuaDeclGenerator::generate succeeds: one global name for each type, every
\* generic function has a name to be called by, every type can be rendered.
LuaRenders(t) ==
  LET Node(u, parts) ==
        CASE u.kind = "primitive" -> u.name \notin {"s128", "u128"}
          [] u.kind = "result" -> parts = <<>> \/ parts[1]
          [] u.kind \in {"instance", "stream", "future"} -> TRUE
          [] OTHER -> FALSE \notin ToSet(parts)
  IN  Walked(t, Node)

\* Functions that are declared, but for constructors, with the instantiations
\* they are declared for.
DescribedFunctions(reg) ==
  LET own(fns) == {[f |-> f, insts |-> f.insts] : f \in ToSet(fns)}
      of(m) == {[f |-> f, insts |-> InstantiationsOf(f, m.fnInsts)] : f \in ToSet(m.functions)}
  IN  (UNION {own(s.methods) : s \in ToSet(reg.structs)})
      \cup (UNION {own(f.functions) : f \in ToSet(reg.foreigns)})
      \cup UNION {of(m) : m \in ModulesUnder(reg.modules)}

LuaDescribes(reg) ==
  LET data == {a.inner : a \in ToSet(reg.aliases)}
              \cup (UNION {TypesOf(s.fields) \cup TypesOf(s.properties) : s \in ToSet(reg.structs)})
              \cup (UNION {TypesOf(m.constants) : m \in ModulesUnder(reg.modules)})
              \cup UNION {UNION {Signature(c) : c \in ToSet(s.constructors)} : s \in ToSet(reg.structs)}
      payloads == UNION {UNION {TypesOf(v.payload) : v \in ToSet(e.variants)} : e \in ToSet(reg.enums)}
      operands == UNION {UNION {ToSet(t.types) : t \in ToSet(s.traits)} : s \in ToSet(reg.structs)}
      passed == UNION {Signature(d.f) \cup UNION {ToSet(args) : args \in ToSet(d.insts)} :
                         d \in DescribedFunctions(reg)}
  IN  /\ NoRepeats(NamesOf(ValueTypes(reg)) \o NamesOf(reg.foreigns))
      /\ \A d \in DescribedFunctions(reg) : d.f.generics # <<>> => d.insts # <<>>
      /\ \A t \in data \cup payloads \cup operands \cup passed : LuaRenders(t)

\* emit_module without functions and the members of types: the module, its
\* constants (one of type unit is nil, so nothing is there) and the tables of
\* structs and enums, none for an alias.  The cases on an enum's table are
\* declared by emit_enum.
DescribedSlots(reg, x) ==
  LET aliased == {TablePlace(reg, x, id) : id \in ToSet(x.module.types) \cap Ids(reg.aliases)}
  IN  {s \in ModuleSlots(reg, x) :
         s.member.what # "stub" /\ (s.member.what = "type" => s.place \notin aliased)}

\* emit_module: what is declared of a function, and on the table of a type.
\* The methods of enums are not declared.
DescribedCallables(x, f) == Callables("function", f, InstantiationsOf(f, x.module.fnInsts))

DescribedTable(reg, id) ==
  IF id \in Ids(reg.structs) THEN TableCallables(TypeOf(reg, id)) ELSE <<>>

\* emit_struct: fields and properties, the methods of traits, methods.
DescribedObject(reg, id) ==
  IF id \notin Ids(reg.structs) THEN <<>>
  ELSE LET s == TypeOf(reg, id)
           shown(seq) == [i \in DOMAIN seq |-> [text |-> seq[i].text, member |-> seq[i].member]]
       IN  Data(s) \o shown(Portable(s)) \o shown(MethodCallables(s))

\* emit_foreign: the callbacks of a foreign interface.
DescribedCallbacks(foreign) ==
  FlattenSeq([i \in DOMAIN foreign.functions |->
                Callables("callback", foreign.functions[i], foreign.functions[i].insts)])

-----------------------------------------------------------------------------
\* foreign_caller: the names under which a callbacks table is asked for its
\* functions; instantiations of a static generic must be declared.
AskedOf(f) ==
  IF f.generics # <<>> /\ ~f.dyn THEN {LuaMangled(f.name, args) : args \in ToSet(f.insts)}
  ELSE {Spelling[f.name]}

Accepts(foreign, supplied) ==
  \A f \in ToSet(foreign.functions) : AskedOf(f) # {} /\ AskedOf(f) \subseteq supplied
=============================================================================
