-------------------------------- MODULE LuaHost --------------------------------
(***************************************************************************)
(* A program that embeds Lua (crates/haphe-lua/src/lib.rs): `bind` makes   *)
(* the module tables of its registry, bind_fn and bind_type refine them,   *)
(* in whatever order the program calls them.  Callbacks that a script      *)
(* supplies are connected to a foreign interface.                          *)
(*                                                                         *)
(* Runtimes share nothing but the registry, and that does not change any   *)
(* more, and connecting callbacks involves no table of `bind`: a behaviour *)
(* has the WIT runtime of Packages, or a Lua state with its bindings, or   *)
(* one with callbacks.                                                     *)
(***************************************************************************)
EXTENDS Packages, LuaSurface

\* A name is its text: every name has one, and no two have the same.
ASSUME SpellingAssumption ==
  /\ \A a, b \in DOMAIN Spelling : Spelling[a] = Spelling[b] => a = b
  /\ \A a \in DOMAIN Spelling : IsSlice(Spelling[a]) /\ Spelling[a] # <<>>
  /\ "default" \in DOMAIN Spelling
  /\ \A r \in Given : LuaNames(r) \subseteq DOMAIN Spelling
  /\ \A d \in Palette : LuaNames(Register(Empty, d)) \subseteq DOMAIN Spelling

VARIABLES
  tables,    \* the global tables: what is at which place
  bound,     \* functions and types that were bound since the last `bind`
  objects,   \* instantiations whose userdata is registered in the state
  handlers   \* callbacks tables: of which interface, what they lacked, and the outcome

luaVars == <<tables, bound, objects, handlers>>
hostVars == <<vars, luaVars>>

Binding(place, owner) == [place |-> place, owner |-> owner]

FnPlace(x, f) == Append(x.path, Spelling[f.name])

\* The instantiations a program has of a struct or enum of its registry.
Instantiations(id) ==
  IF id \in Ids(reg.aliases) THEN {}
  ELSE IF TypeOf(reg, id).generics = <<>> THEN {Owner(id, <<>>)}
  ELSE {Owner(id, i.args) : i \in {j \in ToSet(reg.insts) : j.id = id}}

-----------------------------------------------------------------------------
HostInit ==
  /\ Init
  /\ tables = NoTables
  /\ bound = {} /\ objects = {} /\ handlers = {}

\* Anything that was installed on the tables is gone; registered userdata
\* stays in the state.
LuaBind ==
  /\ status = "validated" /\ handlers = {}
  /\ tables' = FreshTables(reg)
  /\ bound' = {}
  /\ UNCHANGED <<vars, objects, handlers>>

\* A program passes the table that a script sees at the place.
IsTable(place, what) == place \in DOMAIN tables /\ tables[place].member.what = what

\* A refused registration leaves the state as it is.
BindFn(x, f) ==
  /\ IsTable(x.path, "module")
  /\ FnBinds(f)
  /\ tables' = Installed(tables, FnSlots(x, f))
  /\ bound' = bound \cup {Binding(FnPlace(x, f), Nobody)}
  /\ UNCHANGED <<vars, objects, handlers>>

\* The table of the type in a module is what bind_type is given.
BindType(x, owner) ==
  LET d == Bindable(reg, owner.id)
      place == TablePlace(reg, x, owner.id)
  IN  /\ IsTable(place, "type")
      /\ TypeBinds(d)
      /\ tables' = Installed(tables, TypeTableSlots(tables, place, d, owner))
      /\ bound' = bound \cup {Binding(place, owner)}
      /\ objects' = objects \cup {owner}
      /\ UNCHANGED <<vars, handlers>>

\* A script supplies the callbacks that are declared, but for `left`.
Supply(foreign, left) ==
  LET supplied == ToSet(Texts(DescribedCallbacks(foreign))) \ left IN
  /\ status = "validated" /\ tables = NoTables
  /\ handlers' = {[foreign |-> foreign.id, left |-> left,
                   connected |-> Accepts(foreign, supplied)]}
  /\ UNCHANGED <<vars, tables, bound, objects>>

\* The modules whose tables are there.
Modules == IF tables = NoTables THEN {} ELSE LuaModules(reg)

LuaNext ==
  \/ LuaBind
  \/ \E x \in Modules : \E f \in ToSet(x.module.functions) : BindFn(x, f)
  \/ \E x \in Modules :
       \E id \in ToSet(x.module.types) : \E owner \in Instantiations(id) : BindType(x, owner)
  \/ \E foreign \in ToSet(reg.foreigns) :
       \E left \in {{}} \cup {{text} : text \in ToSet(Texts(DescribedCallbacks(foreign)))} :
         Supply(foreign, left)

HostNext ==
  \/ tables = NoTables /\ handlers = {} /\ Next /\ UNCHANGED luaVars
  \/ LuaNext

HostSpec == HostInit /\ [][HostNext]_hostVars

-----------------------------------------------------------------------------
\* What the declarations say is at `place` is there.
Found(place, member) == place \in DOMAIN tables /\ tables[place].member = member

\* What a function or type that was bound is called by at a place of its table.
IsBound(place, owner) == Binding(place, owner) \in bound

OwnCallables(f) == ToSet(Callables("function", f, f.insts))

\* Registrations that no check keeps from the places of others: the function
\* that decodes errors, monomorphs of functions, and what enums have on their
\* tables besides their cases.
Replaced(place) ==
  \/ place[1] = ErrorInfo
  \/ \E x \in Modules : \E f \in ToSet(x.module.functions) : \E c \in OwnCallables(f) :
       LET taken == Append(x.path, c.text) IN
       /\ IsBound(FnPlace(x, f), Nobody)
       /\ c.how = "mangled"
       /\ AtOrBeneath(place, taken)
  \/ \E x \in Modules : \E id \in ToSet(x.module.types) \cap Ids(reg.enums) :
       \E owner \in Instantiations(id) : \E c \in ToSet(TableCallables(Bindable(reg, id))) :
         /\ IsBound(TablePlace(reg, x, id), owner)
         /\ place = Append(TablePlace(reg, x, id), c.text)

\* The functions that were bound: every declared name calls the function it is
\* declared for.  Two exceptions: an instantiation that only the module
\* declares, and a name that another function that was bound has as well.
FunctionsFound(x, f) ==
  \A c \in ToSet(DescribedCallables(x, f)) :
    \/ c \notin OwnCallables(f)
    \/ \E g \in ToSet(x.module.functions) \ {f} :
         IsBound(FnPlace(x, g), Nobody) /\ \E o \in OwnCallables(g) : o.text = c.text
    \/ Found(Append(x.path, c.text), c.member)

\* The table of a type that was bound: declared constructors and associated
\* functions are there, those of the instantiation that was bound last.
TypeFound(x, id) ==
  LET place == TablePlace(reg, x, id) IN
  \A c \in ToSet(DescribedTable(reg, id)) :
    /\ Found(Append(place, c.text), c.member)
    /\ IsBound(place, tables[Append(place, c.text)].owner)

\* Objects answer a declared name with the member it is declared for, except
\* where the name of a monomorph or of a trait's method is also the name of a
\* field, a property or an async method: no check compares those.
ObjectFound(owner) ==
  LET declared == ToSet(DescribedObject(reg, owner.id))
      d == Bindable(reg, owner.id)
      unchecked == {m.text : m \in ToSet(Data(d))}
                   \cup {c.text : c \in {m \in ToSet(MethodCallables(d)) : m.how = "plain" /\ m.async}}
      shared == {m.text : m \in {n \in declared : \E o \in declared : o.text = n.text /\ o # n}}
  IN  \A m \in declared : \/ m.text \in shared \cap unchecked
                          \/ Answer(d, m.text) = m.member

\* A script sees what the generated declarations promise, whatever the order
\* in which functions and types were bound since the last `bind`: every name
\* resolves to the live member it was declared for, never to one that was
\* installed over it, but for the names that no check compares.  A callbacks
\* table that has what is declared connects, one that leaves a callback out
\* does not.
ScriptsSeeDeclared ==
  LuaDescribes(reg) =>
    /\ \A h \in handlers : h.connected = (h.left = {})
    /\ \A x \in Modules :
         /\ \A s \in DescribedSlots(reg, x) : Replaced(s.place) \/ Found(s.place, s.member)
         /\ \A f \in ToSet(x.module.functions) :
              IsBound(FnPlace(x, f), Nobody) => Replaced(x.path) \/ FunctionsFound(x, f)
         /\ \A id \in ToSet(x.module.types) : \A owner \in Instantiations(id) :
              LET place == TablePlace(reg, x, id) IN
              IsBound(place, owner) => Replaced(place) \/ TypeFound(x, id)
    /\ \A owner \in objects : ObjectFound(owner)
=============================================================================
