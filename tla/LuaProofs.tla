------------------------------- MODULE LuaProofs -------------------------------
(***************************************************************************)
(* What a script finds in a Lua state, for any registry that validates and *)
(* any order of bind, bind_fn and bind_type.  The argument: names within a *)
(* module are apart, so two members of two modules meet at a place only if *)
(* they are the same one; a registration therefore leaves alone what       *)
(* others declare, but for the names that Replaced, FunctionsFound and     *)
(* ObjectFound say no check compares.                                      *)
(***************************************************************************)
EXTENDS PackagesProofs

-----------------------------------------------------------------------------
(* Places. *)

\* A place and a name in the table there.
LEMMA AppendPlace ==
  ASSUME NEW p, IsSlice(p), NEW t
  PROVE  /\ IsSlice(Append(p, t)) /\ Len(p) \in Nat /\ Len(Append(p, t)) = Len(p) + 1
         /\ DOMAIN p = 1..Len(p) /\ DOMAIN Append(p, t) = 1..(Len(p) + 1)
         /\ \A i \in 1..Len(p) : Append(p, t)[i] = p[i]
         /\ Append(p, t)[Len(p) + 1] = t
         /\ Append(p, t) # <<>>
<1>1. IsSlice(Append(p, t))
  BY AppendSlice
<1>2. p \in Seq(ToSet(p) \cup {t}) /\ t \in ToSet(p) \cup {t}
  BY SliceIn
<1> DEFINE T == ToSet(p) \cup {t}
<1> HIDE DEF T
<1>3. p \in Seq(T) /\ t \in T
  BY <1>2 DEF T
<1> QED BY <1>1, <1>3

LEMMA AppendApart ==
  ASSUME NEW p, IsSlice(p), NEW q, IsSlice(q), NEW s, NEW t, Append(p, s) = Append(q, t)
  PROVE  p = q /\ s = t
<1>1. Len(p) = Len(q)
  BY AppendPlace
<1>2. \A i \in 1..Len(p) : p[i] = q[i]
  BY <1>1, AppendPlace
<1>3. p = q
  BY <1>1, <1>2, SliceParts
<1> QED BY <1>1, <1>3, AppendPlace

\* What is at or beneath `above` is that place, or in a table there.
LEMMA InTable ==
  ASSUME NEW p, IsSlice(p), NEW t, NEW above, IsSlice(above)
  PROVE  AtOrBeneath(Append(p, t), above) <=> Append(p, t) = above \/ AtOrBeneath(p, above)
<1>1. Beneath(Append(p, t), above) <=> AtOrBeneath(p, above)
  <2>1. Len(above) \in Nat /\ DOMAIN above = 1..Len(above) /\ Len(p) \in Nat
    BY SliceParts
  <2>2. ASSUME Beneath(Append(p, t), above) PROVE AtOrBeneath(p, above)
    <3>1. Len(above) <= Len(p) /\ \A i \in DOMAIN above : p[i] = above[i]
      BY <2>1, <2>2, AppendPlace DEF Beneath
    <3>2. CASE Len(above) = Len(p)
      BY <2>1, <3>1, <3>2, SliceParts DEF AtOrBeneath
    <3> QED BY <2>1, <3>1, <3>2 DEF AtOrBeneath, Beneath
  <2>3. ASSUME AtOrBeneath(p, above) PROVE Beneath(Append(p, t), above)
    BY <2>1, <2>3, AppendPlace DEF AtOrBeneath, Beneath
  <2> QED BY <2>2, <2>3
<1> QED BY <1>1 DEF AtOrBeneath

\* What is beneath a name in a table is beneath the table.
LEMMA BeneathTable ==
  ASSUME NEW p, IsSlice(p), NEW above, IsSlice(above), NEW t, AtOrBeneath(p, Append(above, t))
  PROVE  Beneath(p, above)
<1>1. /\ Len(above) \in Nat /\ DOMAIN above = 1..Len(above) /\ Len(p) \in Nat
      /\ Len(Append(above, t)) = Len(above) + 1 /\ DOMAIN Append(above, t) = 1..(Len(above) + 1)
      /\ \A i \in 1..Len(above) : Append(above, t)[i] = above[i]
  BY AppendPlace, SliceParts
<1> QED BY <1>1 DEF AtOrBeneath, Beneath

\* A table is not beneath what it holds.
LEMMA NotBeneathOwn ==
  ASSUME NEW p, IsSlice(p), NEW t PROVE ~AtOrBeneath(p, Append(p, t))
<1>1. ASSUME AtOrBeneath(p, Append(p, t)) PROVE FALSE
  BY <1>1, BeneathTable, SliceParts DEF Beneath
<1> QED BY <1>1

LEMMA TopPlace ==
  ASSUME NEW t, NEW p, IsSlice(p), AtOrBeneath(p, <<t>>)
  PROVE  p[1] = t
BY DEF AtOrBeneath, Beneath

-----------------------------------------------------------------------------
(* Installing. *)

\* What was installed is there, what nothing was installed over stays.
LEMMA InstalledAt ==
  ASSUME NEW old, NEW slots
  PROVE  LET new == Installed(old, slots)
             places == {s.place : s \in slots}
         IN  /\ \A s \in slots : (\A o \in slots : o.place = s.place => o = s)
                                   => s.place \in DOMAIN new /\ new[s.place] = s
             /\ \A p \in DOMAIN old : (\A q \in places : ~AtOrBeneath(p, q))
                                   => p \in DOMAIN new /\ new[p] = old[p]
<1> DEFINE places == {s.place : s \in slots}
           kept == {p \in DOMAIN old : \A q \in places : ~Beneath(p, q)}
           new == [p \in kept \cup places |->
                     IF p \in places THEN CHOOSE s \in slots : s.place = p ELSE old[p]]
<1>1. Installed(old, slots) = new
  BY DEF Installed
<1>2. ASSUME NEW s \in slots, \A o \in slots : o.place = s.place => o = s
      PROVE  s.place \in DOMAIN new /\ new[s.place] = s
  <2>1. s.place \in places
    OBVIOUS
  <2>2. (CHOOSE o \in slots : o.place = s.place) = s
    BY <1>2
  <2> QED BY <2>1, <2>2
<1>3. ASSUME NEW p \in DOMAIN old, \A q \in places : ~AtOrBeneath(p, q)
      PROVE  p \in DOMAIN new /\ new[p] = old[p]
  <2>1. p \in kept /\ p \notin places
    BY <1>3 DEF AtOrBeneath
  <2> QED BY <2>1
<1> HIDE DEF new
<1> QED BY <1>1, <1>2, <1>3

-----------------------------------------------------------------------------
(* Names. *)

\* A registry whose declarations a Lua state can be made of.
Standing(r) == IsRegistry(r) /\ Validates(r) /\ LuaNames(r) \subseteq DOMAIN Spelling

LEMMA NoRepeatsConcat ==
  ASSUME NEW x, NEW y, IsSlice(x), IsSlice(y), NoRepeats(x \o y)
  PROVE  NoRepeats(x) /\ NoRepeats(y) /\ ToSet(x) \cap ToSet(y) = {}
<1>1. NoRepeats(x)
  BY NoRepeatsInFront
<1>2. Len(x) \in Nat /\ (\A i \in DOMAIN x : i \in Nat /\ i <= Len(x)) /\ (\A i \in DOMAIN y : i \in Nat /\ i > 0)
  BY SliceParts
<1>3. /\ \A i \in DOMAIN x : i \in DOMAIN (x \o y) /\ (x \o y)[i] = x[i]
      /\ \A i \in DOMAIN y : Len(x) + i \in DOMAIN (x \o y) /\ (x \o y)[Len(x) + i] = y[i]
  BY ConcatAt
<1>4. NoRepeats(y)
  <2> SUFFICES ASSUME NEW i \in DOMAIN y, NEW j \in DOMAIN y, y[i] = y[j] PROVE i = j
    BY DEF NoRepeats
  <2>1. Len(x) + i = Len(x) + j
    BY <1>3 DEF NoRepeats
  <2> QED BY <1>2, <2>1
<1>5. ASSUME NEW i \in DOMAIN x, NEW j \in DOMAIN y, x[i] = y[j] PROVE FALSE
  <2>1. i = Len(x) + j
    BY <1>3, <1>5 DEF NoRepeats
  <2> QED BY <1>2, <2>1
<1> QED BY <1>1, <1>4, <1>5 DEF ToSet

LEMMA NamesAre ==
  ASSUME NEW seq, IsSlice(seq)
  PROVE  /\ IsSlice(NamesOf(seq))
         /\ ToSet(NamesOf(seq)) = NamesIn(seq)
         /\ NamesIn(seq) = {e.name : e \in ToSet(seq)}
         /\ NoRepeats(NamesOf(seq)) => \A d, e \in ToSet(seq) : d.name = e.name => d = e
<1>1. DOMAIN NamesOf(seq) = DOMAIN seq /\ NamesOf(seq) = [i \in DOMAIN NamesOf(seq) |-> NamesOf(seq)[i]]
      /\ \A i \in DOMAIN seq : NamesOf(seq)[i] = seq[i].name
  BY DEF NamesOf
<1>2. IsSlice(NamesOf(seq))
  BY <1>1, MappedSlice
<1>3. ToSet(NamesOf(seq)) = NamesIn(seq) /\ NamesIn(seq) = {e.name : e \in ToSet(seq)}
  BY <1>1 DEF NamesIn, ToSet
<1>4. ASSUME NoRepeats(NamesOf(seq)), NEW d \in ToSet(seq), NEW e \in ToSet(seq), d.name = e.name
      PROVE  d = e
  BY <1>1, <1>4 DEF NoRepeats, ToSet
<1> QED BY <1>2, <1>3, <1>4

\* No two types have the same id.
LEMMA SameType ==
  ASSUME NEW r, IsRegistry(r), UniqueTypes(r), NEW d \in ToSet(ValueTypes(r)), NEW e \in ToSet(ValueTypes(r)),
         d.id = e.id
  PROVE  d = e
<1> DEFINE ids(seq) == [i \in DOMAIN seq |-> seq[i].id]
<1>1. IsSlice(r.structs) /\ IsSlice(r.enums) /\ IsSlice(r.aliases) /\ IsSlice(r.foreigns)
  BY DEF IsRegistry
<1>2. ASSUME NEW seq, IsSlice(seq)
      PROVE  /\ IsSlice(ids(seq)) /\ ToSet(ids(seq)) = Ids(seq)
             /\ NoRepeats(ids(seq)) => \A a, b \in ToSet(seq) : a.id = b.id => a = b
  <2>1. DOMAIN ids(seq) = DOMAIN seq /\ ids(seq) = [i \in DOMAIN ids(seq) |-> ids(seq)[i]]
        /\ \A i \in DOMAIN seq : ids(seq)[i] = seq[i].id
    OBVIOUS
  <2> HIDE DEF ids
  <2>2. IsSlice(ids(seq))
    BY <1>2, <2>1, MappedSlice
  <2> QED BY <2>1, <2>2 DEF ToSet, Ids, NoRepeats
<1>3. NoRepeats(((ids(r.structs) \o ids(r.enums)) \o ids(r.aliases)) \o ids(r.foreigns))
  BY DEF UniqueTypes
<1> HIDE DEF ids
<1>4. /\ IsSlice(ids(r.structs) \o ids(r.enums))
      /\ IsSlice((ids(r.structs) \o ids(r.enums)) \o ids(r.aliases))
  BY <1>1, <1>2, ConcatSlices
<1>5. NoRepeats((ids(r.structs) \o ids(r.enums)) \o ids(r.aliases))
  BY <1>1, <1>2, <1>3, <1>4, NoRepeatsConcat
<1>6. NoRepeats(ids(r.structs) \o ids(r.enums)) /\ NoRepeats(ids(r.aliases))
  BY <1>1, <1>2, <1>4, <1>5, NoRepeatsConcat
<1>7. NoRepeats(ids(r.structs)) /\ NoRepeats(ids(r.enums))
  BY <1>1, <1>2, <1>6, NoRepeatsConcat
<1>8. ToSet(ValueTypes(r)) = ToSet(r.structs) \cup ToSet(r.enums) \cup ToSet(r.aliases)
  BY <1>1, ConcatSlices DEF ValueTypes
<1>9. /\ \A a, b \in ToSet(r.structs) : a.id = b.id => a = b
      /\ \A a, b \in ToSet(r.enums) : a.id = b.id => a = b
      /\ \A a, b \in ToSet(r.aliases) : a.id = b.id => a = b
  BY <1>1, <1>2, <1>6, <1>7
<1>10. /\ \A a \in ToSet(r.structs) : a.id \in Ids(r.structs)
       /\ \A a \in ToSet(r.enums) : a.id \in Ids(r.enums)
       /\ \A a \in ToSet(r.aliases) : a.id \in Ids(r.aliases)
  BY DEF Ids, ToSet
<1>11. /\ Ids(r.structs) \cap Ids(r.enums) = {}
       /\ Ids(r.structs) \cap Ids(r.aliases) = {}
       /\ Ids(r.enums) \cap Ids(r.aliases) = {}
  BY IdsApart
<1> QED BY <1>8, <1>9, <1>10, <1>11

\* The type that an id stands for.
LEMMA TypeIs ==
  ASSUME NEW r, IsRegistry(r), NEW id \in Known(r)
  PROVE  TypeOf(r, id) \in ToSet(ValueTypes(r)) /\ TypeOf(r, id).id = id
<1>1. IsSlice(ValueTypes(r))
  BY ConcatSlices DEF ValueTypes, IsRegistry
<1> QED BY <1>1, WithIdIn DEF TypeOf, Known

\* Types are exposed under their names.
LEMMA TypeNamesAre ==
  ASSUME NEW r, IsRegistry(r), UniqueTypes(r), NEW m, IsSlice(m.types), ToSet(m.types) \subseteq Known(r)
  PROVE  /\ IsSlice(TypeNames(m, r))
         /\ \A id \in ToSet(m.types) : \E i \in DOMAIN TypeNames(m, r) :
              TypeNames(m, r)[i] = TypeOf(r, id).name /\ \A k \in ToSet(m.types) :
                 TypeNames(m, r)[i] = TypeOf(r, k).name /\ NoRepeats(TypeNames(m, r)) => k = id
<1> DEFINE here == {i \in DOMAIN m.types : m.types[i] \in Ids(ValueTypes(r))}
           known == Kept(m.types, here)
           names == [i \in DOMAIN known |-> (CHOOSE t \in ToSet(ValueTypes(r)) : t.id = known[i]).name]
<1>1. TypeNames(m, r) = names
  BY DEF TypeNames
<1>2. \A i \in DOMAIN m.types : i \in here
  BY DEF Known, ToSet
<1> HIDE DEF here
<1>3. IsSlice(known) /\ ToSet(known) = ToSet(m.types)
  <2> HIDE DEF names
  <2>1. IsSlice(known) /\ ToSet(known) = {m.types[i] : i \in DOMAIN m.types \cap here}
    <3> HIDE DEF known
    <3>1. known = Kept(m.types, here)
      BY DEF known
    <3> QED BY <3>1, KeptSlice
  <2>2. DOMAIN m.types \cap here = DOMAIN m.types
    BY <1>2
  <2>3. ToSet(m.types) = {m.types[i] : i \in DOMAIN m.types}
    BY DEF ToSet
  <2> HIDE DEF known
  <2> QED BY <2>1, <2>2, <2>3
<1> HIDE DEF known
<1>4. \A id \in ToSet(m.types) : (CHOOSE t \in ToSet(ValueTypes(r)) : t.id = id) = TypeOf(r, id)
  <2> SUFFICES ASSUME NEW id \in ToSet(m.types)
               PROVE  (CHOOSE t \in ToSet(ValueTypes(r)) : t.id = id) = TypeOf(r, id)
    OBVIOUS
  <2>1. TypeOf(r, id) \in ToSet(ValueTypes(r)) /\ TypeOf(r, id).id = id
    BY TypeIs
  <2> QED BY <2>1, SameType
<1>5. \A i \in DOMAIN known : known[i] \in ToSet(m.types) /\ names[i] = TypeOf(r, known[i]).name
  BY <1>3, <1>4 DEF ToSet
<1>6. DOMAIN names = DOMAIN known /\ IsSlice(names)
  <2>1. DOMAIN names = DOMAIN known /\ names = [i \in DOMAIN names |-> names[i]]
    OBVIOUS
  <2> HIDE DEF names
  <2> QED BY <1>3, <2>1, MappedSlice
<1> HIDE DEF names
<1>7. ASSUME NEW id \in ToSet(m.types)
      PROVE  \E i \in DOMAIN names : names[i] = TypeOf(r, id).name /\ \A k \in ToSet(m.types) :
                 names[i] = TypeOf(r, k).name /\ NoRepeats(names) => k = id
  <2>1. PICK i \in DOMAIN known : known[i] = id
    BY <1>3 DEF ToSet
  <2>2. ASSUME NEW k \in ToSet(m.types), names[i] = TypeOf(r, k).name, NoRepeats(names) PROVE k = id
    <3>1. PICK j \in DOMAIN known : known[j] = k
      BY <1>3 DEF ToSet
    <3>2. i = j
      BY <1>5, <1>6, <2>1, <2>2, <3>1 DEF NoRepeats
    <3> QED BY <2>1, <3>1, <3>2
  <2> QED BY <1>5, <1>6, <2>1, <2>2
<1> QED BY <1>1, <1>6, <1>7

\* What a module holds, by name: the names are apart, and each has a text.
TypeNamesIn(r, m) == {TypeOf(r, id).name : id \in ToSet(m.types)}

LEMMA NamesApart ==
  ASSUME NEW r, Standing(r), NEW m \in ModulesUnder(r.modules)
  PROVE  /\ IsModule(m) /\ ToSet(m.submodules) \subseteq ModulesUnder(r.modules)
         /\ ToSet(m.types) \subseteq Known(r)
         /\ NamesIn(m.functions) \cap NamesIn(m.constants) = {}
         /\ NamesIn(m.functions) \cap NamesIn(m.submodules) = {}
         /\ NamesIn(m.functions) \cap TypeNamesIn(r, m) = {}
         /\ NamesIn(m.constants) \cap NamesIn(m.submodules) = {}
         /\ NamesIn(m.constants) \cap TypeNamesIn(r, m) = {}
         /\ NamesIn(m.submodules) \cap TypeNamesIn(r, m) = {}
         /\ \A f, g \in ToSet(m.functions) : f.name = g.name => f = g
         /\ \A f, g \in ToSet(m.submodules) : f.name = g.name => f = g
         /\ \A i, j \in ToSet(m.types) : TypeOf(r, i).name = TypeOf(r, j).name => i = j
<1> DEFINE fns == NamesOf(m.functions)
           consts == NamesOf(m.constants)
           subs == NamesOf(m.submodules)
           types == TypeNames(m, r)
<1>1. IsRegistry(r) /\ UniqueTypes(r) /\ ModuleFits(m, r, Known(r))
  BY DEF Standing, Validates
<1>2. IsModule(m) /\ ToSet(m.submodules) \subseteq ModulesUnder(r.modules)
  BY <1>1, ModulesClosed
<1>3. IsSlice(m.functions) /\ IsSlice(m.constants) /\ IsSlice(m.submodules) /\ IsSlice(m.types)
  BY <1>2 DEF IsModule, AreFunctions, AreNamed
<1>4. ToSet(m.types) \subseteq Known(r) /\ NoRepeats(((fns \o consts) \o subs) \o types)
  BY <1>1 DEF ModuleFits
<1>5. IsSlice(types) /\ \A id \in ToSet(m.types) : \E i \in DOMAIN types :
              types[i] = TypeOf(r, id).name /\ \A k \in ToSet(m.types) :
                 types[i] = TypeOf(r, k).name /\ NoRepeats(types) => k = id
  BY <1>1, <1>3, <1>4, TypeNamesAre
<1>6. TypeNamesIn(r, m) \subseteq ToSet(types)
  BY <1>5 DEF ToSet, TypeNamesIn
<1>7. /\ IsSlice(fns) /\ ToSet(fns) = NamesIn(m.functions)
      /\ IsSlice(consts) /\ ToSet(consts) = NamesIn(m.constants)
      /\ IsSlice(subs) /\ ToSet(subs) = NamesIn(m.submodules)
  BY <1>3, NamesAre
<1>8. /\ NoRepeats(fns) => \A f, g \in ToSet(m.functions) : f.name = g.name => f = g
      /\ NoRepeats(subs) => \A f, g \in ToSet(m.submodules) : f.name = g.name => f = g
  BY <1>3, NamesAre
<1> HIDE DEF fns, consts, subs, types
<1>9. /\ IsSlice(fns \o consts) /\ ToSet(fns \o consts) = ToSet(fns) \cup ToSet(consts)
  BY <1>7, ConcatSlices
<1>10. /\ IsSlice((fns \o consts) \o subs)
       /\ ToSet((fns \o consts) \o subs) = ToSet(fns) \cup ToSet(consts) \cup ToSet(subs)
  BY <1>7, <1>9, ConcatSlices
<1>11. /\ NoRepeats((fns \o consts) \o subs) /\ NoRepeats(types)
       /\ ToSet((fns \o consts) \o subs) \cap ToSet(types) = {}
  BY <1>4, <1>5, <1>10, NoRepeatsConcat
<1>12. /\ NoRepeats(fns \o consts) /\ NoRepeats(subs)
       /\ ToSet(fns \o consts) \cap ToSet(subs) = {}
  BY <1>7, <1>9, <1>11, NoRepeatsConcat
<1>13. NoRepeats(fns) /\ ToSet(fns) \cap ToSet(consts) = {}
  BY <1>7, <1>12, NoRepeatsConcat
<1>14. \A i, j \in ToSet(m.types) : TypeOf(r, i).name = TypeOf(r, j).name => i = j
  BY <1>5, <1>11
<1>15. /\ NamesIn(m.functions) \cap NamesIn(m.constants) = {}
       /\ NamesIn(m.functions) \cap NamesIn(m.submodules) = {}
       /\ NamesIn(m.functions) \cap TypeNamesIn(r, m) = {}
       /\ NamesIn(m.constants) \cap NamesIn(m.submodules) = {}
       /\ NamesIn(m.constants) \cap TypeNamesIn(r, m) = {}
       /\ NamesIn(m.submodules) \cap TypeNamesIn(r, m) = {}
  BY <1>6, <1>7, <1>9, <1>10, <1>11, <1>12, <1>13
<1> QED BY <1>2, <1>4, <1>8, <1>12, <1>13, <1>14, <1>15

LEMMA SpelledApart ==
  ASSUME NEW a \in DOMAIN Spelling, NEW b \in DOMAIN Spelling, Spelling[a] = Spelling[b]
  PROVE  a = b
BY SpellingAssumption

\* Every name of a registry has a text.
LEMMA ModuleSpelled ==
  ASSUME NEW r, Standing(r), NEW m \in ModulesUnder(r.modules)
  PROVE  /\ m.name \in DOMAIN Spelling
         /\ NamesIn(m.functions) \subseteq DOMAIN Spelling
         /\ NamesIn(m.constants) \subseteq DOMAIN Spelling
         /\ NamesIn(m.submodules) \subseteq DOMAIN Spelling
         /\ TypeNamesIn(r, m) \subseteq DOMAIN Spelling
<1>1. \A n \in ModulesUnder(r.modules) :
        {n.name} \cup NamesIn(n.functions) \cup NamesIn(n.constants) \subseteq DOMAIN Spelling
  BY DEF Standing, LuaNames
<1>2. /\ IsModule(m) /\ ToSet(m.submodules) \subseteq ModulesUnder(r.modules)
      /\ ToSet(m.types) \subseteq Known(r)
  BY NamesApart
<1>3. NamesIn(m.submodules) \subseteq DOMAIN Spelling
  BY <1>1, <1>2, NamesAre DEF IsModule
<1>4. /\ \A s \in ToSet(r.structs) : s.name \in DOMAIN Spelling
      /\ \A e \in ToSet(r.enums) : e.name \in DOMAIN Spelling
      /\ NamesIn(r.aliases) \subseteq DOMAIN Spelling
  BY DEF Standing, LuaNames
<1>5. \A a \in ToSet(r.aliases) : a.name \in DOMAIN Spelling
  BY <1>4 DEF NamesIn, ToSet
<1>6. IsSlice(r.structs) /\ IsSlice(r.enums) /\ IsSlice(r.aliases)
  BY DEF Standing, IsRegistry
<1>7. ToSet(ValueTypes(r)) = ToSet(r.structs) \cup ToSet(r.enums) \cup ToSet(r.aliases)
  BY <1>6, ConcatSlices DEF ValueTypes
<1>8. \A id \in ToSet(m.types) : TypeOf(r, id).name \in DOMAIN Spelling
  BY <1>2, <1>4, <1>5, <1>7, TypeIs DEF Standing
<1> QED BY <1>1, <1>2, <1>3, <1>8 DEF TypeNamesIn

-----------------------------------------------------------------------------
(* The tree of modules. *)

\* A module is at the top, or in the table of the module that it is nested in.
Top(r, x) == \E m \in ToSet(r.modules) : x = [path |-> <<Spelling[m.name]>>, module |-> m]
In(x, y) == \E m \in ToSet(y.module.submodules) :
              x = [path |-> Append(y.path, Spelling[m.name]), module |-> m]

IsTree(r, S) ==
  \A x \in S : /\ IsSlice(x.path) /\ x.path # <<>> /\ x.module \in ModulesUnder(r.modules)
               /\ Top(r, x) \/ \E y \in S : In(x, y)

LEMMA ModulesAre ==
  ASSUME NEW r, Standing(r)
  PROVE  IsTree(r, LuaModules(r))
<1> DEFINE top == {[path |-> <<Spelling[m.name]>>, module |-> m] : m \in ToSet(r.modules)}
           inside(x) == {[path |-> Append(x.path, Spelling[m.name]), module |-> m] :
                           m \in ToSet(x.module.submodules)}
           down(S) == S \cup UNION {inside(x) : x \in S}
<1>1. LuaModules(r) = down(down(down(top)))
  BY DEF LuaModules, Nested
<1>2. IsTree(r, top)
  <2> SUFFICES ASSUME NEW m \in ToSet(r.modules), NEW x, x = [path |-> <<Spelling[m.name]>>, module |-> m]
               PROVE  /\ IsSlice(x.path) /\ x.path # <<>> /\ x.module \in ModulesUnder(r.modules)
                      /\ Top(r, x)
    BY DEF IsTree
  <2>1. x.path = <<Spelling[m.name]>> /\ x.module = m
    OBVIOUS
  <2>2. IsSlice(x.path) /\ x.path # <<>>
    BY <2>1, SmallSlices
  <2> QED BY <2>1, <2>2, TopModules DEF Top
<1>3. ASSUME NEW S, IsTree(r, S) PROVE IsTree(r, down(S))
  <2>1. ASSUME NEW y \in S, NEW m \in ToSet(y.module.submodules),
               NEW x, x = [path |-> Append(y.path, Spelling[m.name]), module |-> m]
        PROVE  /\ IsSlice(x.path) /\ x.path # <<>> /\ x.module \in ModulesUnder(r.modules)
               /\ In(x, y)
    <3>1. IsSlice(y.path) /\ y.module \in ModulesUnder(r.modules)
      BY <1>3 DEF IsTree
    <3>2. m \in ModulesUnder(r.modules)
      BY <3>1, NamesApart
    <3>3. x.path = Append(y.path, Spelling[m.name]) /\ x.module = m
      BY <2>1
    <3>4. IsSlice(x.path) /\ x.path # <<>>
      BY <3>1, <3>3, AppendPlace
    <3> QED BY <2>1, <3>2, <3>3, <3>4 DEF In
  <2>2. ASSUME NEW x \in S
        PROVE  /\ IsSlice(x.path) /\ x.path # <<>> /\ x.module \in ModulesUnder(r.modules)
               /\ Top(r, x) \/ \E y \in S : In(x, y)
    BY <1>3 DEF IsTree
  <2>3. ASSUME NEW x \in down(S), x \notin S
        PROVE  \E y \in S : \E m \in ToSet(y.module.submodules) :
                 x = [path |-> Append(y.path, Spelling[m.name]), module |-> m]
    BY <2>3
  <2>4. S \subseteq down(S)
    OBVIOUS
  <2> HIDE DEF down
  <2> SUFFICES ASSUME NEW x \in down(S)
               PROVE  /\ IsSlice(x.path) /\ x.path # <<>> /\ x.module \in ModulesUnder(r.modules)
                      /\ Top(r, x) \/ \E y \in down(S) : In(x, y)
    BY DEF IsTree
  <2>5. CASE x \in S
    BY <2>2, <2>4, <2>5
  <2>6. CASE x \notin S
    <3>1. PICK y \in S : \E m \in ToSet(y.module.submodules) :
                 x = [path |-> Append(y.path, Spelling[m.name]), module |-> m]
      BY <2>3, <2>6
    <3> QED BY <2>1, <2>4, <3>1
  <2> QED BY <2>5, <2>6
<1> HIDE DEF down, top
<1> QED BY <1>1, <1>2, <1>3

LEMMA ModuleIs ==
  ASSUME NEW r, Standing(r), NEW x \in LuaModules(r)
  PROVE  /\ IsSlice(x.path) /\ x.path # <<>> /\ Len(x.path) \in Nat /\ Len(x.path) > 0
         /\ x.module \in ModulesUnder(r.modules)
         /\ Top(r, x) \/ \E y \in LuaModules(r) : In(x, y)
<1>1. IsSlice(x.path) /\ x.path # <<>> /\ x.module \in ModulesUnder(r.modules)
      /\ (Top(r, x) \/ \E y \in LuaModules(r) : In(x, y))
  BY ModulesAre DEF IsTree
<1>2. Len(x.path) \in Nat /\ Len(x.path) > 0
  BY <1>1 DEF IsSlice
<1> QED BY <1>1, <1>2

\* A module in the table of another: what its path and name are.
LEMMA InsideIs ==
  ASSUME NEW r, Standing(r), NEW x \in LuaModules(r), NEW y \in LuaModules(r), In(x, y)
  PROVE  /\ x.module \in ToSet(y.module.submodules)
         /\ x.path = Append(y.path, Spelling[x.module.name])
         /\ x = [path |-> x.path, module |-> x.module]
         /\ x.module.name \in NamesIn(y.module.submodules)
         /\ Len(x.path) = Len(y.path) + 1
<1>1. PICK m \in ToSet(y.module.submodules) : x = [path |-> Append(y.path, Spelling[m.name]), module |-> m]
  BY DEF In
<1>2. x.path = Append(y.path, Spelling[m.name]) /\ x.module = m
  BY <1>1
<1>3. m.name \in NamesIn(y.module.submodules)
  BY DEF NamesIn, ToSet
<1>4. Len(x.path) = Len(y.path) + 1
  BY <1>2, ModuleIs, AppendPlace
<1> QED BY <1>1, <1>2, <1>3, <1>4

LEMMA TopIs ==
  ASSUME NEW r, Standing(r), NEW x \in LuaModules(r), Top(r, x)
  PROVE  /\ x.module \in ToSet(r.modules) /\ x.path = <<Spelling[x.module.name]>> /\ Len(x.path) = 1
         /\ x = [path |-> x.path, module |-> x.module]
BY DEF Top

\* Modules are at different places.
LEMMA PathsApart ==
  ASSUME NEW r, Standing(r), NEW x \in LuaModules(r), NEW y \in LuaModules(r), x.path = y.path
  PROVE  x = y
<1> DEFINE L == LuaModules(r)
           Twice == {n \in Nat : \E a, b \in L : Len(a.path) = n /\ a.path = b.path /\ a # b}
<1>1. SUFFICES ASSUME x # y PROVE FALSE
  OBVIOUS
<1>2. Len(x.path) \in Twice
  BY <1>1, ModuleIs
<1>3. PICK n \in Twice : \A k \in Twice : n <= k
  <2>1. Twice \in SUBSET Nat /\ Twice # {}
    BY <1>2
  <2> HIDE DEF Twice
  <2> QED BY <2>1, LeastOf
<1>4. PICK a \in L, b \in L : Len(a.path) = n /\ a.path = b.path /\ a # b
  BY <1>3
<1>5. \A c \in L, d \in L : Len(c.path) < n /\ c.path = d.path => c = d
  <2> SUFFICES ASSUME NEW c \in L, NEW d \in L, Len(c.path) < n, c.path = d.path, c # d PROVE FALSE
    OBVIOUS
  <2>1. Len(c.path) \in Twice
    BY ModuleIs
  <2> QED BY <1>3, <2>1, ModuleIs
<1> HIDE DEF Twice
<1>6. CASE Top(r, a) /\ Top(r, b)
  <2>1. /\ a.module \in ToSet(r.modules) /\ b.module \in ToSet(r.modules)
        /\ a.path = <<Spelling[a.module.name]>> /\ b.path = <<Spelling[b.module.name]>>
        /\ a = [path |-> a.path, module |-> a.module] /\ b = [path |-> b.path, module |-> b.module]
    BY <1>6, TopIs
  <2>2. Spelling[a.module.name] = Spelling[b.module.name]
    BY <1>4, <2>1
  <2>3. a.module.name \in DOMAIN Spelling /\ b.module.name \in DOMAIN Spelling
    BY ModuleIs, ModuleSpelled
  <2>4. a.module.name = b.module.name
    BY <2>2, <2>3, SpelledApart
  <2>5. IsSlice(r.modules) /\ NoRepeats(NamesOf(r.modules))
    BY DEF Standing, IsRegistry, Validates
  <2>6. a.module = b.module
    BY <2>1, <2>4, <2>5, NamesAre
  <2> QED BY <1>4, <2>1, <2>6
<1>7. ASSUME NEW c \in L, NEW d \in L, In(a, c), In(b, d) PROVE FALSE
  <2>1. /\ a.module \in ToSet(c.module.submodules) /\ b.module \in ToSet(d.module.submodules)
        /\ a.path = Append(c.path, Spelling[a.module.name]) /\ b.path = Append(d.path, Spelling[b.module.name])
        /\ a = [path |-> a.path, module |-> a.module] /\ b = [path |-> b.path, module |-> b.module]
        /\ Len(a.path) = Len(c.path) + 1
    BY <1>7, InsideIs
  <2>2. IsSlice(c.path) /\ IsSlice(d.path) /\ Len(c.path) \in Nat
    BY ModuleIs
  <2>3. c.path = d.path /\ Spelling[a.module.name] = Spelling[b.module.name]
    <3> DEFINE p == c.path
               q == d.path
               s == Spelling[a.module.name]
               t == Spelling[b.module.name]
    <3>1. Append(p, s) = Append(q, t) /\ IsSlice(p) /\ IsSlice(q)
      BY <1>4, <2>1, <2>2
    <3> HIDE DEF p, q, s, t
    <3>2. p = q /\ s = t
      BY <3>1, AppendApart
    <3> QED BY <3>2 DEF p, q, s, t
  <2>4. c = d
    BY <1>4, <1>5, <2>1, <2>2, <2>3
  <2>5. a.module.name \in DOMAIN Spelling /\ b.module.name \in DOMAIN Spelling
    BY ModuleIs, ModuleSpelled
  <2>6. a.module.name = b.module.name
    BY <2>3, <2>5, SpelledApart
  <2>7. a.module = b.module
    BY <2>1, <2>4, <2>6, ModuleIs, NamesApart
  <2> QED BY <1>4, <2>1, <2>7
<1>9. ASSUME NEW c \in L, NEW d \in L, NEW u \in L, Top(r, c), In(d, u), c.path = d.path PROVE FALSE
  <2> DEFINE above == Len(u.path)
             len == Len(d.path)
  <2>1. len = above + 1
    BY <1>9, InsideIs
  <2>2. above \in Nat /\ above > 0
    BY ModuleIs
  <2>3. len = 1
    BY <1>9, TopIs
  <2> HIDE DEF above, len
  <2> QED BY <2>1, <2>2, <2>3
<1>8. (Top(r, a) \/ \E c \in L : In(a, c)) /\ (Top(r, b) \/ \E c \in L : In(b, c))
  BY ModuleIs
<1> QED BY <1>4, <1>6, <1>7, <1>8, <1>9

\* What is at or beneath a name in the table of a module is not a module, if
\* the name is not that of a submodule.
LEMMA NoModuleThere ==
  ASSUME NEW r, Standing(r), NEW x \in LuaModules(r), NEW y \in LuaModules(r),
         NEW t, t \notin {Spelling[n] : n \in NamesIn(y.module.submodules)}
  PROVE  ~AtOrBeneath(x.path, Append(y.path, t))
<1> DEFINE L == LuaModules(r)
           There == {n \in Nat : \E a \in L : Len(a.path) = n /\ AtOrBeneath(a.path, Append(y.path, t))}
<1>1. SUFFICES ASSUME AtOrBeneath(x.path, Append(y.path, t)) PROVE FALSE
  OBVIOUS
<1>2. Len(x.path) \in There
  BY <1>1, ModuleIs
<1>3. PICK n \in There : \A k \in There : n <= k
  <2>1. There \in SUBSET Nat /\ There # {}
    BY <1>2
  <2> HIDE DEF There
  <2> QED BY <2>1, LeastOf
<1>4. PICK a \in L : Len(a.path) = n /\ AtOrBeneath(a.path, Append(y.path, t))
  BY <1>3
<1>5. \A c \in L : Len(c.path) < n => ~AtOrBeneath(c.path, Append(y.path, t))
  <2> SUFFICES ASSUME NEW c \in L, Len(c.path) < n, AtOrBeneath(c.path, Append(y.path, t)) PROVE FALSE
    OBVIOUS
  <2>1. Len(c.path) \in There
    BY ModuleIs
  <2> QED BY <1>3, <2>1, ModuleIs
<1> HIDE DEF There
<1>6. IsSlice(y.path) /\ Len(y.path) \in Nat /\ Len(y.path) > 0 /\ IsSlice(a.path)
  BY ModuleIs
<1>7. CASE Top(r, a)
  <2>1. Len(a.path) = 1
    BY <1>7, TopIs
  <2>2. Beneath(a.path, y.path)
    BY <1>4, <1>6, BeneathTable
  <2> QED BY <1>6, <2>1, <2>2 DEF Beneath
<1>8. ASSUME NEW c \in L, In(a, c) PROVE FALSE
  <2>1. /\ a.path = Append(c.path, Spelling[a.module.name]) /\ a.module.name \in NamesIn(c.module.submodules)
        /\ Len(a.path) = Len(c.path) + 1
    BY <1>8, InsideIs
  <2>2. IsSlice(c.path) /\ Len(c.path) \in Nat /\ IsSlice(Append(y.path, t))
    BY <1>6, ModuleIs, AppendPlace
  <2>3. a.path = Append(y.path, t) \/ AtOrBeneath(c.path, Append(y.path, t))
    BY <1>4, <2>1, <2>2, InTable
  <2>4. a.path = Append(y.path, t)
    BY <1>4, <1>5, <2>1, <2>2, <2>3
  <2>5. c.path = y.path /\ Spelling[a.module.name] = t
    <3> DEFINE p == c.path
               q == y.path
               s == Spelling[a.module.name]
    <3>1. Append(p, s) = Append(q, t) /\ IsSlice(p) /\ IsSlice(q)
      BY <1>6, <2>1, <2>2, <2>4
    <3> HIDE DEF p, q, s
    <3>2. p = q /\ s = t
      BY <3>1, AppendApart
    <3> QED BY <3>2 DEF p, q, s
  <2>6. c = y
    BY <2>5, PathsApart
  <2> QED BY <2>1, <2>5, <2>6
<1> QED BY <1>7, <1>8, ModuleIs

-----------------------------------------------------------------------------
(* Who meets whom.  Places have at most three levels: a module's table, what *)
(* a module holds, and what is on the table of a type of the module.         *)

SubTexts(m) == {Spelling[n] : n \in NamesIn(m.submodules)}

\* Something is installed in the table of a module, not where a submodule is.
LEMMA NoModuleAt ==
  ASSUME NEW r, Standing(r), NEW x \in LuaModules(r), NEW y \in LuaModules(r),
         NEW t, t \notin SubTexts(y.module)
  PROVE  ~AtOrBeneath(x.path, Append(y.path, t))
BY NoModuleThere DEF SubTexts

LEMMA MeetsInModule ==
  ASSUME NEW r, Standing(r), NEW x \in LuaModules(r), NEW y \in LuaModules(r), NEW n,
         NEW t, t \notin SubTexts(y.module), AtOrBeneath(Append(x.path, n), Append(y.path, t))
  PROVE  x = y /\ n = t
<1> DEFINE p == x.path
           q == y.path
<1>1. IsSlice(p) /\ IsSlice(q)
  BY ModuleIs
<1>2. AtOrBeneath(Append(p, n), Append(q, t)) /\ ~AtOrBeneath(p, Append(q, t))
  BY NoModuleAt
<1> HIDE DEF p, q
<1>3. Append(p, n) = Append(q, t)
  BY <1>1, <1>2, InTable, AppendPlace
<1>4. p = q /\ n = t
  BY <1>1, <1>3, AppendApart
<1> QED BY <1>4, PathsApart DEF p, q

\* ... and one on the table of a type.
LEMMA MeetsOnTable ==
  ASSUME NEW r, Standing(r), NEW x \in LuaModules(r), NEW y \in LuaModules(r), NEW v,
         NEW n, n \notin SubTexts(x.module), NEW t, t \notin SubTexts(y.module),
         AtOrBeneath(Append(Append(x.path, n), v), Append(y.path, t))
  PROVE  x = y /\ n = t
<1> DEFINE p == Append(x.path, n)
           q == y.path
<1>1. IsSlice(p) /\ IsSlice(q)
  BY ModuleIs, AppendPlace
<1>2. AtOrBeneath(Append(p, v), Append(q, t))
  OBVIOUS
<1>3. ~AtOrBeneath(q, p)
  BY NoModuleAt
<1> HIDE DEF p, q
<1>4. Append(p, v) = Append(q, t) \/ AtOrBeneath(p, Append(q, t))
  BY <1>1, <1>2, InTable, AppendPlace
<1>5. Append(p, v) # Append(q, t)
  BY <1>1, <1>3, AppendApart DEF AtOrBeneath
<1> QED BY <1>4, <1>5, MeetsInModule DEF p, q

\* Something is installed on the table of a type: that is beneath the table.
LEMMA OnTable ==
  ASSUME NEW r, Standing(r), NEW y \in LuaModules(r), NEW t, NEW v,
         NEW p, IsSlice(p), AtOrBeneath(p, Append(Append(y.path, t), v))
  PROVE  Beneath(p, Append(y.path, t)) /\ AtOrBeneath(p, Append(y.path, t))
<1> DEFINE q == Append(y.path, t)
<1>1. IsSlice(q)
  BY ModuleIs, AppendPlace
<1> HIDE DEF q
<1>2. Beneath(p, q) /\ AtOrBeneath(p, q)
  BY <1>1, BeneathTable DEF AtOrBeneath, q
<1> QED BY <1>2 DEF q

LEMMA NoModuleOnTable ==
  ASSUME NEW r, Standing(r), NEW x \in LuaModules(r), NEW y \in LuaModules(r),
         NEW t, t \notin SubTexts(y.module), NEW v
  PROVE  ~AtOrBeneath(x.path, Append(Append(y.path, t), v))
<1>1. ~AtOrBeneath(x.path, Append(y.path, t)) /\ IsSlice(x.path)
  BY ModuleIs, NoModuleAt
<1> QED BY <1>1, OnTable

LEMMA NoNameOnTable ==
  ASSUME NEW r, Standing(r), NEW x \in LuaModules(r), NEW y \in LuaModules(r), NEW n,
         NEW t, t \notin SubTexts(y.module), NEW v
  PROVE  ~AtOrBeneath(Append(x.path, n), Append(Append(y.path, t), v))
<1> SUFFICES ASSUME AtOrBeneath(Append(x.path, n), Append(Append(y.path, t), v)) PROVE FALSE
  OBVIOUS
<1> DEFINE p == Append(x.path, n)
           q == Append(y.path, t)
<1>1. IsSlice(p)
  BY ModuleIs, AppendPlace
<1>2. Beneath(p, q) /\ AtOrBeneath(p, q)
  BY <1>1, OnTable
<1>3. p = q
  BY <1>2, MeetsInModule
<1> HIDE DEF p, q
<1> QED BY <1>1, <1>2, <1>3, SliceParts DEF Beneath

LEMMA MeetsTable ==
  ASSUME NEW r, Standing(r), NEW x \in LuaModules(r), NEW y \in LuaModules(r),
         NEW n, n \notin SubTexts(x.module), NEW w, NEW t, t \notin SubTexts(y.module), NEW v,
         AtOrBeneath(Append(Append(x.path, n), w), Append(Append(y.path, t), v))
  PROVE  x = y /\ n = t /\ w = v
<1> DEFINE p == Append(x.path, n)
           q == Append(y.path, t)
<1>1. IsSlice(p) /\ IsSlice(q) /\ IsSlice(Append(p, w)) /\ IsSlice(Append(q, v))
  BY ModuleIs, AppendPlace
<1>2. AtOrBeneath(Append(p, w), q)
  BY <1>1, OnTable
<1>3. x = y /\ n = t
  BY <1>2, MeetsOnTable
<1>4. p = q /\ AtOrBeneath(Append(p, w), Append(q, v))
  BY <1>3
<1> HIDE DEF p, q
<1>5. Append(q, w) = Append(q, v)
  BY <1>1, <1>4, InTable, NotBeneathOwn
<1>6. w = v
  BY <1>1, <1>5, AppendApart
<1> QED BY <1>3, <1>6

-----------------------------------------------------------------------------
(* What `bind` makes of the modules. *)

LEMMA SamePlace ==
  ASSUME NEW r, Standing(r), NEW x \in LuaModules(r), NEW y \in LuaModules(r), NEW n, NEW t,
         Append(x.path, n) = Append(y.path, t)
  PROVE  x = y /\ n = t
<1> DEFINE p == x.path
           q == y.path
<1>1. IsSlice(p) /\ IsSlice(q) /\ Append(p, n) = Append(q, t)
  BY ModuleIs
<1> HIDE DEF p, q
<1>2. p = q /\ n = t
  BY <1>1, AppendApart
<1> QED BY <1>2, PathsApart DEF p, q

\* What is in the table of a module, but for its submodules.
Holds(r, m, what, name) ==
  \/ what = "constant" /\ name \in NamesIn(m.constants)
  \/ what = "stub" /\ name \in NamesIn(m.functions)
  \/ what = "type" /\ name \in TypeNamesIn(r, m)

LEMMA HeldApart ==
  ASSUME NEW r, Standing(r), NEW m \in ModulesUnder(r.modules), NEW what, NEW name, Holds(r, m, what, name)
  PROVE  /\ name \in DOMAIN Spelling
         /\ Spelling[name] \notin SubTexts(m)
         /\ \A other, o : Holds(r, m, other, o) /\ Spelling[o] = Spelling[name] => o = name /\ other = what
<1>1. name \in DOMAIN Spelling /\ name \notin NamesIn(m.submodules)
  BY ModuleSpelled, NamesApart DEF Holds
<1>2. Spelling[name] \notin SubTexts(m)
  BY <1>1, ModuleSpelled, SpelledApart DEF SubTexts
<1>3. ASSUME NEW other, NEW o, Holds(r, m, other, o), Spelling[o] = Spelling[name]
      PROVE  o = name /\ other = what
  <2>1. o \in DOMAIN Spelling
    BY <1>3, ModuleSpelled DEF Holds
  <2>2. o = name
    BY <1>1, <1>3, <2>1, SpelledApart
  <2> QED BY <1>3, <2>2, NamesApart DEF Holds
<1> QED BY <1>1, <1>2, <1>3

\* The place of a type is that of what the module holds under its name.
LEMMA TablePlaceIs ==
  ASSUME NEW r, Standing(r), NEW x \in LuaModules(r), NEW id \in ToSet(x.module.types)
  PROVE  /\ Holds(r, x.module, "type", TypeOf(r, id).name)
         /\ TablePlace(r, x, id) = Append(x.path, Spelling[TypeOf(r, id).name])
         /\ Spelling[TypeOf(r, id).name] \notin SubTexts(x.module)
         /\ id \in Known(r)
<1>1. Holds(r, x.module, "type", TypeOf(r, id).name)
  BY DEF Holds, TypeNamesIn
<1> QED BY <1>1, ModuleIs, HeldApart, NamesApart DEF TablePlace

LEMMA FnPlaceIs ==
  ASSUME NEW r, Standing(r), NEW x \in LuaModules(r), NEW f \in ToSet(x.module.functions)
  PROVE  /\ Holds(r, x.module, "stub", f.name)
         /\ FnPlace(x, f) = Append(x.path, Spelling[f.name])
         /\ Spelling[f.name] \notin SubTexts(x.module)
         /\ f.name \in DOMAIN Spelling
<1>1. Holds(r, x.module, "stub", f.name)
  BY DEF Holds, NamesIn, ToSet
<1> QED BY <1>1, ModuleIs, HeldApart DEF FnPlace

LEMMA TablePlaceIsSlice ==
  ASSUME NEW r, Standing(r), NEW x \in LuaModules(r), NEW id \in ToSet(x.module.types)
  PROVE  IsSlice(TablePlace(r, x, id))
<1>1. IsSlice(x.path) /\ TablePlace(r, x, id) = Append(x.path, Spelling[TypeOf(r, id).name])
  BY ModuleIs, TablePlaceIs
<1> QED BY <1>1, AppendPlace

CaseItem(v) == Item(IF v.shape = "unit" THEN "case" ELSE "payload", v.name, <<>>)

LEMMA SlotsAre ==
  ASSUME NEW r, NEW x, NEW s \in ModuleSlots(r, x)
  PROVE  \/ s = At(x.path, Item("module", x.module.name, <<>>), Nobody)
         \/ \E what, name : /\ Holds(r, x.module, what, name)
                            /\ s = At(Append(x.path, Spelling[name]), Item(what, name, <<>>), Nobody)
         \/ \E id \in ToSet(x.module.types) \cap Ids(r.enums) : \E v \in ToSet(TypeOf(r, id).variants) :
              s = At(Append(TablePlace(r, x, id), Spelling[v.name]), CaseItem(v), Nobody)
<1> DEFINE named(what, things) ==
             {At(Append(x.path, Spelling[n.name]), Item(what, n.name, <<>>), Nobody) : n \in things}
<1>1. ASSUME s \in named("constant", ToSet(x.module.constants)) \cup named("stub", ToSet(x.module.functions))
      PROVE  \E what, name : /\ Holds(r, x.module, what, name)
                             /\ s = At(Append(x.path, Spelling[name]), Item(what, name, <<>>), Nobody)
  BY <1>1 DEF Holds, NamesIn, ToSet
<1>2. ASSUME NEW id \in ToSet(x.module.types), s \in TypeSlots(r, x, id)
      PROVE  \/ \E what, name : /\ Holds(r, x.module, what, name)
                                /\ s = At(Append(x.path, Spelling[name]), Item(what, name, <<>>), Nobody)
             \/ /\ id \in Ids(r.enums)
                /\ \E v \in ToSet(TypeOf(r, id).variants) :
                      s = At(Append(TablePlace(r, x, id), Spelling[v.name]), CaseItem(v), Nobody)
  <2>1. CASE s = At(TablePlace(r, x, id), Item("type", TypeOf(r, id).name, <<>>), Nobody)
    BY <2>1 DEF Holds, TypeNamesIn, TablePlace
  <2>2. CASE s # At(TablePlace(r, x, id), Item("type", TypeOf(r, id).name, <<>>), Nobody)
    BY <1>2, <2>2 DEF TypeSlots, CaseItem
  <2> QED BY <2>1, <2>2
<1>3. \/ s = At(x.path, Item("module", x.module.name, <<>>), Nobody)
      \/ s \in named("constant", ToSet(x.module.constants)) \cup named("stub", ToSet(x.module.functions))
      \/ \E id \in ToSet(x.module.types) : s \in TypeSlots(r, x, id)
  BY DEF ModuleSlots
<1> HIDE DEF named
<1> QED BY <1>1, <1>2, <1>3

LEMMA SlotPlaces ==
  ASSUME NEW r, NEW x, NEW s \in ModuleSlots(r, x)
  PROVE  \/ s.place = x.path
         \/ \E name : /\ Holds(r, x.module, s.member.what, name)
                      /\ s.place = Append(x.path, Spelling[name])
         \/ \E id \in ToSet(x.module.types) \cap Ids(r.enums) : \E v \in ToSet(TypeOf(r, id).variants) :
              s.place = Append(TablePlace(r, x, id), Spelling[v.name])
<1>1. CASE s = At(x.path, Item("module", x.module.name, <<>>), Nobody)
  BY <1>1 DEF At
<1>2. CASE \E what, name : /\ Holds(r, x.module, what, name)
                           /\ s = At(Append(x.path, Spelling[name]), Item(what, name, <<>>), Nobody)
  BY <1>2 DEF At, Item
<1>3. CASE \E id \in ToSet(x.module.types) \cap Ids(r.enums) : \E v \in ToSet(TypeOf(r, id).variants) :
              s = At(Append(TablePlace(r, x, id), Spelling[v.name]), CaseItem(v), Nobody)
  BY <1>3 DEF At
<1> QED BY <1>1, <1>2, <1>3, SlotsAre

\* An enum of a registry: its cases are apart, and each has a text.
LEMMA CasesApart ==
  ASSUME NEW r, Standing(r), NEW id \in Ids(r.enums)
  PROVE  /\ TypeOf(r, id) \in ToSet(r.enums)
         /\ \A v \in ToSet(TypeOf(r, id).variants) : v.name \in DOMAIN Spelling
         /\ \A v, w \in ToSet(TypeOf(r, id).variants) : Spelling[v.name] = Spelling[w.name] => v = w
<1> DEFINE e == TypeOf(r, id)
<1>1. IsRegistry(r) /\ UniqueTypes(r) /\ \A t \in ToSet(r.enums) : EnumFits(t, Known(r))
  BY DEF Standing, Validates
<1>2. id \in Known(r) /\ id \notin Ids(r.structs) /\ id \notin Ids(r.aliases)
  BY <1>1, IdsApart DEF Known
<1>3. e \in ToSet(ValueTypes(r)) /\ e.id = id
  BY <1>1, <1>2, TypeIs
<1>4. ToSet(ValueTypes(r)) = ToSet(r.structs) \cup ToSet(r.enums) \cup ToSet(r.aliases)
  BY <1>1, ConcatSlices DEF ValueTypes, IsRegistry
<1>5. e \in ToSet(r.enums)
  <2>1. (e \in ToSet(r.structs) => e.id \in Ids(r.structs)) /\ (e \in ToSet(r.aliases) => e.id \in Ids(r.aliases))
    BY DEF Ids, ToSet
  <2> QED BY <1>2, <1>3, <1>4, <2>1
<1> HIDE DEF e
<1>6. NamesIn(e.variants) \subseteq DOMAIN Spelling
  BY <1>5 DEF Standing, LuaNames
<1>7. IsSlice(e.variants) /\ IsSlice(e.methods)
  BY <1>1, <1>5 DEF IsRegistry, IsEnum, AreFunctions
<1>8. NoRepeats(NamesOf(e.variants) \o NamesOf(e.methods))
  BY <1>1, <1>5 DEF EnumFits
<1>9. NoRepeats(NamesOf(e.variants))
  BY <1>7, <1>8, NamesAre, NoRepeatsConcat
<1>10. \A v \in ToSet(e.variants) : v.name \in DOMAIN Spelling
  BY <1>6, <1>7, NamesAre
<1>11. \A v, w \in ToSet(e.variants) : Spelling[v.name] = Spelling[w.name] => v = w
  BY <1>7, <1>9, <1>10, NamesAre, SpelledApart
<1> QED BY <1>5, <1>10, <1>11 DEF e

\* No two things of modules are at the same place.
LEMMA SlotsApart ==
  ASSUME NEW r, Standing(r), NEW x \in LuaModules(r), NEW y \in LuaModules(r),
         NEW s \in ModuleSlots(r, x), NEW o \in ModuleSlots(r, y), s.place = o.place
  PROVE  s = o
<1> DEFINE Root(z, slot) == slot = At(z.path, Item("module", z.module.name, <<>>), Nobody)
           OfModule(z, slot) == \E what, name :
             /\ Holds(r, z.module, what, name)
             /\ slot = At(Append(z.path, Spelling[name]), Item(what, name, <<>>), Nobody)
           Case(z, slot) ==
             \E id \in ToSet(z.module.types) \cap Ids(r.enums) : \E v \in ToSet(TypeOf(r, id).variants) :
               slot = At(Append(TablePlace(r, z, id), Spelling[v.name]), CaseItem(v), Nobody)
<1>1. (Root(x, s) \/ OfModule(x, s) \/ Case(x, s)) /\ (Root(y, o) \/ OfModule(y, o) \/ Case(y, o))
  BY SlotsAre
<1>2. ASSUME NEW z \in LuaModules(r), NEW slot, Root(z, slot) PROVE slot.place = z.path
  BY <1>2 DEF At
<1>3. ASSUME NEW z \in LuaModules(r), NEW slot, OfModule(z, slot)
      PROVE  \E name : Spelling[name] \notin SubTexts(z.module) /\ slot.place = Append(z.path, Spelling[name])
  BY <1>3, ModuleIs, HeldApart DEF At
<1>4. ASSUME NEW z \in LuaModules(r), NEW slot, Case(z, slot)
      PROVE  \E t, v : t \notin SubTexts(z.module) /\ slot.place = Append(Append(z.path, t), v)
  BY <1>4, TablePlaceIs DEF At
<1>10. \A p : AtOrBeneath(p, p)
  BY DEF AtOrBeneath
<1>5. ASSUME NEW z \in LuaModules(r), NEW u \in LuaModules(r), NEW a, NEW b, a.place = b.place, Root(z, a),
             OfModule(u, b) \/ Case(u, b)
      PROVE  FALSE
  <2>1. AtOrBeneath(a.place, b.place) /\ a.place = z.path
    BY <1>2, <1>5, <1>10
  <2> HIDE DEF Root, OfModule, Case
  <2>2. CASE OfModule(u, b)
    <3>1. PICK name : Spelling[name] \notin SubTexts(u.module) /\ b.place = Append(u.path, Spelling[name])
      BY <1>3, <2>2
    <3> QED BY <2>1, <3>1, NoModuleAt
  <2>3. CASE Case(u, b)
    <3>1. PICK t, v : t \notin SubTexts(u.module) /\ b.place = Append(Append(u.path, t), v)
      BY <1>4, <2>3
    <3> QED BY <2>1, <3>1, NoModuleOnTable
  <2> QED BY <1>5, <2>2, <2>3
<1>6. ASSUME NEW z \in LuaModules(r), NEW u \in LuaModules(r), NEW a, NEW b, a.place = b.place, OfModule(z, a), Case(u, b)
      PROVE  FALSE
  <2>1. AtOrBeneath(a.place, b.place)
    BY <1>6, <1>10
  <2> HIDE DEF Root, OfModule, Case
  <2>2. PICK name : a.place = Append(z.path, Spelling[name])
    BY <1>3, <1>6
  <2>3. PICK t, v : t \notin SubTexts(u.module) /\ b.place = Append(Append(u.path, t), v)
    BY <1>4, <1>6
  <2> QED BY <2>1, <2>2, <2>3, NoNameOnTable
<1>7. CASE Root(x, s) /\ Root(y, o)
  BY <1>7, PathsApart DEF At
<1>8. CASE OfModule(x, s) /\ OfModule(y, o)
  <2>1. PICK what, name : /\ Holds(r, x.module, what, name)
                          /\ s = At(Append(x.path, Spelling[name]), Item(what, name, <<>>), Nobody)
    BY <1>8
  <2>2. PICK other, n : /\ Holds(r, y.module, other, n)
                        /\ o = At(Append(y.path, Spelling[n]), Item(other, n, <<>>), Nobody)
    BY <1>8
  <2>3. Append(x.path, Spelling[name]) = Append(y.path, Spelling[n])
    BY <2>1, <2>2 DEF At
  <2>4. x = y /\ Spelling[name] = Spelling[n]
    BY <2>3, SamePlace
  <2>5. name = n /\ what = other
    <3>1. x.module \in ModulesUnder(r.modules)
      BY ModuleIs
    <3>2. Holds(r, x.module, what, name) /\ Holds(r, x.module, other, n)
      BY <2>1, <2>2, <2>4
    <3> QED BY <2>4, <3>1, <3>2, HeldApart
  <2> QED BY <2>1, <2>2, <2>4, <2>5
<1>9. CASE Case(x, s) /\ Case(y, o)
  <2>1. PICK id \in ToSet(x.module.types) \cap Ids(r.enums) : \E v \in ToSet(TypeOf(r, id).variants) :
               s = At(Append(TablePlace(r, x, id), Spelling[v.name]), CaseItem(v), Nobody)
    BY <1>9
  <2>2. PICK i \in ToSet(y.module.types) \cap Ids(r.enums) : \E w \in ToSet(TypeOf(r, i).variants) :
               o = At(Append(TablePlace(r, y, i), Spelling[w.name]), CaseItem(w), Nobody)
    BY <1>9
  <2>10. PICK v \in ToSet(TypeOf(r, id).variants) :
               s = At(Append(TablePlace(r, x, id), Spelling[v.name]), CaseItem(v), Nobody)
    BY <2>1
  <2>11. PICK w \in ToSet(TypeOf(r, i).variants) :
               o = At(Append(TablePlace(r, y, i), Spelling[w.name]), CaseItem(w), Nobody)
    BY <2>2
  <2> DEFINE p == TablePlace(r, x, id)
             q == TablePlace(r, y, i)
             a == Spelling[v.name]
             b == Spelling[w.name]
  <2>3. IsSlice(p) /\ IsSlice(q) /\ Append(p, a) = Append(q, b)
    <3>1. s.place = Append(p, a) /\ o.place = Append(q, b)
      BY <2>10, <2>11 DEF At
    <3>2. IsSlice(p) /\ IsSlice(q)
      BY TablePlaceIsSlice
    <3> QED BY <3>1, <3>2
  <2> HIDE DEF p, q, a, b
  <2>4. p = q /\ a = b
    BY <2>3, AppendApart
  <2>5. Append(x.path, Spelling[TypeOf(r, id).name]) = Append(y.path, Spelling[TypeOf(r, i).name])
    BY <2>4, TablePlaceIs DEF p, q
  <2>6. x = y /\ Spelling[TypeOf(r, id).name] = Spelling[TypeOf(r, i).name]
    BY <2>5, SamePlace
  <2>7. TypeOf(r, id).name = TypeOf(r, i).name
    BY <2>6, TablePlaceIs, ModuleIs, HeldApart
  <2>8. id = i
    BY <2>6, <2>7, ModuleIs, NamesApart
  <2>9. v = w
    BY <2>4, <2>8, CasesApart DEF a, b
  <2> QED BY <2>6, <2>8, <2>9, <2>10, <2>11
<1> HIDE DEF Root, OfModule, Case
<1> QED BY <1>1, <1>5, <1>6, <1>7, <1>8, <1>9

\* A fresh state has what is declared, but where the function that decodes
\* errors is.
LEMMA FreshTablesAre ==
  ASSUME NEW r, Standing(r)
  PROVE  /\ <<ErrorInfo>> \in DOMAIN FreshTables(r)
         /\ \A x \in LuaModules(r) : \A s \in ModuleSlots(r, x) :
              s.place[1] # ErrorInfo =>
                s.place \in DOMAIN FreshTables(r) /\ FreshTables(r)[s.place] = s
<1> DEFINE slots == UNION {ModuleSlots(r, x) : x \in LuaModules(r)}
           modules == Installed(NoTables, slots)
           info == At(<<ErrorInfo>>, Item("function", "haphe_error", <<>>), Nobody)
<1>1. FreshTables(r) = Installed(modules, {info})
  BY DEF FreshTables
<1>2. \A s \in slots : \A o \in slots : o.place = s.place => o = s
  <2> SUFFICES ASSUME NEW s \in slots, NEW o \in slots, o.place = s.place PROVE o = s
    OBVIOUS
  <2>1. PICK x \in LuaModules(r) : s \in ModuleSlots(r, x)
    OBVIOUS
  <2>2. PICK y \in LuaModules(r) : o \in ModuleSlots(r, y)
    OBVIOUS
  <2> QED BY <2>1, <2>2, SlotsApart
<1>3. \A x \in LuaModules(r) : \A s \in ModuleSlots(r, x) : s \in slots
  OBVIOUS
<1> HIDE DEF slots
<1>4. \A s \in slots : s.place \in DOMAIN modules /\ modules[s.place] = s
  BY <1>2, InstalledAt
<1> HIDE DEF modules
<1>5. info.place = <<ErrorInfo>>
  BY DEF At
<1> HIDE DEF info
<1>6. <<ErrorInfo>> \in DOMAIN FreshTables(r)
  BY <1>1, <1>5, InstalledAt
<1>7. ASSUME NEW x \in LuaModules(r), NEW s \in ModuleSlots(r, x), s.place[1] # ErrorInfo
      PROVE  s.place \in DOMAIN FreshTables(r) /\ FreshTables(r)[s.place] = s
  <2>1. s.place \in DOMAIN modules /\ modules[s.place] = s
    BY <1>3, <1>4
  <2>2. IsSlice(s.place)
    <3>1. CASE s.place = x.path
      BY <3>1, ModuleIs
    <3>2. ASSUME NEW t, s.place = Append(x.path, t) PROVE IsSlice(s.place)
      BY <3>2, ModuleIs, AppendPlace
    <3>3. ASSUME NEW id \in ToSet(x.module.types), NEW t, s.place = Append(TablePlace(r, x, id), t)
          PROVE  IsSlice(s.place)
      BY <3>3, TablePlaceIsSlice, AppendPlace
    <3>4. \/ s.place = x.path
          \/ \E t : s.place = Append(x.path, t)
          \/ \E id \in ToSet(x.module.types) : \E t : s.place = Append(TablePlace(r, x, id), t)
      <4>1. \/ s.place = x.path
            \/ \E name : /\ Holds(r, x.module, s.member.what, name)
                         /\ s.place = Append(x.path, Spelling[name])
            \/ \E id \in ToSet(x.module.types) \cap Ids(r.enums) : \E v \in ToSet(TypeOf(r, id).variants) :
                 s.place = Append(TablePlace(r, x, id), Spelling[v.name])
        BY SlotPlaces
      <4> QED BY <4>1
    <3> QED BY <3>1, <3>2, <3>3, <3>4
  <2>3. ~AtOrBeneath(s.place, <<ErrorInfo>>)
    BY <1>7, <2>2, TopPlace
  <2>4. {o.place : o \in {info}} = {<<ErrorInfo>>}
    BY <1>5
  <2> QED BY <1>1, <2>1, <2>3, <2>4, InstalledAt
<1> QED BY <1>6, <1>7

-----------------------------------------------------------------------------
(* What functions are called by. *)

CallableOf(how, what, f, text, args) ==
  [how |-> how, async |-> f.async, text |-> text, member |-> Item(what, f.name, args)]

CallableSet(what, f, insts) ==
  IF f.generics = <<>> THEN {CallableOf("plain", what, f, Spelling[f.name], <<>>)}
  ELSE IF ~f.dyn
  THEN {CallableOf("mangled", what, f, LuaMangled(f.name, args), args) : args \in ToSet(insts)}
  ELSE IF insts = <<>> THEN {}
  ELSE {CallableOf("dyn", what, f, Spelling[f.name], <<>>)}

LEMMA CallablesAre ==
  ASSUME NEW what, NEW f, NEW insts, IsSlice(insts)
  PROVE  /\ IsSlice(Callables(what, f, insts))
         /\ ToSet(Callables(what, f, insts)) = CallableSet(what, f, insts)
<1> DEFINE all == Callables(what, f, insts)
<1>1. CASE f.generics = <<>>
  <2>1. all = <<CallableOf("plain", what, f, Spelling[f.name], <<>>)>>
    BY <1>1 DEF Callables, CallableOf
  <2>2. CallableSet(what, f, insts) = {CallableOf("plain", what, f, Spelling[f.name], <<>>)}
    BY <1>1 DEF CallableSet
  <2> QED BY <2>1, <2>2, SmallSlices
<1>2. CASE f.generics # <<>> /\ ~f.dyn
  <2> DEFINE one(args) == CallableOf("mangled", what, f, LuaMangled(f.name, args), args)
  <2>1. all = [i \in DOMAIN insts |-> one(insts[i])]
    BY <1>2 DEF Callables, CallableOf
  <2>2. CallableSet(what, f, insts) = {one(args) : args \in ToSet(insts)}
    BY <1>2 DEF CallableSet
  <2> HIDE DEF one, all
  <2>3. IsSlice(all) /\ ToSet(all) = {all[i] : i \in DOMAIN insts}
    BY <2>1, MappedSlice
  <2>4. ToSet(all) = {one(args) : args \in ToSet(insts)}
    BY <2>1, <2>3 DEF ToSet
  <2> QED BY <2>2, <2>3, <2>4 DEF all
<1>3. CASE f.generics # <<>> /\ f.dyn /\ insts = <<>>
  <2>1. all = <<>>
    BY <1>3 DEF Callables
  <2>2. CallableSet(what, f, insts) = {}
    BY <1>3 DEF CallableSet
  <2> QED BY <2>1, <2>2, SmallSlices
<1>4. CASE f.generics # <<>> /\ f.dyn /\ insts # <<>>
  <2>1. all = <<CallableOf("dyn", what, f, Spelling[f.name], <<>>)>>
    BY <1>4 DEF Callables, CallableOf
  <2>2. CallableSet(what, f, insts) = {CallableOf("dyn", what, f, Spelling[f.name], <<>>)}
    BY <1>4 DEF CallableSet
  <2> QED BY <2>1, <2>2, SmallSlices
<1> QED BY <1>1, <1>2, <1>3, <1>4

\* One of them: by its own name, or by one that was made for an instantiation.
LEMMA CallableIs ==
  ASSUME NEW what, NEW f, NEW insts, IsSlice(insts), NEW c \in ToSet(Callables(what, f, insts))
  PROVE  /\ c.async = f.async /\ c.member.what = what /\ c.member.name = f.name
         /\ \/ /\ c.how \in {"plain", "dyn"}
               /\ c.text = Spelling[f.name] /\ c.member = Item(what, f.name, <<>>)
            \/ /\ c.how = "mangled"
               /\ \E args \in ToSet(insts) : /\ c.text = LuaMangled(f.name, args)
                                             /\ c.member = Item(what, f.name, args)
<1>1. c \in CallableSet(what, f, insts)
  BY CallablesAre
<1>2. CASE \E how \in {"plain", "dyn"} : c = CallableOf(how, what, f, Spelling[f.name], <<>>)
  BY <1>2 DEF CallableOf, Item
<1>3. CASE \E args \in ToSet(insts) : c = CallableOf("mangled", what, f, LuaMangled(f.name, args), args)
  BY <1>3 DEF CallableOf, Item
<1> QED BY <1>1, <1>2, <1>3 DEF CallableSet

\* The callables of several functions.
LEMMA AllCallables ==
  ASSUME NEW what, NEW fns, IsSlice(fns), \A f \in ToSet(fns) : IsSlice(f.insts)
  PROVE  LET all == FlattenSeq([i \in DOMAIN fns |-> Callables(what, fns[i], fns[i].insts)])
         IN  /\ IsSlice(all)
             /\ ToSet(all) = UNION {ToSet(Callables(what, f, f.insts)) : f \in ToSet(fns)}
<1> DEFINE one(f) == Callables(what, f, f.insts)
           each == [i \in DOMAIN fns |-> one(fns[i])]
<1>1. IsSlice(each) /\ DOMAIN each = DOMAIN fns
  <2>1. DOMAIN each = DOMAIN fns /\ each = [i \in DOMAIN each |-> each[i]]
    OBVIOUS
  <2> HIDE DEF each
  <2> QED BY <2>1, MappedSlice
<1>2. \A i \in DOMAIN fns : fns[i] \in ToSet(fns) /\ each[i] = one(fns[i])
  BY DEF ToSet
<1>3. \A f \in ToSet(fns) : IsSlice(one(f))
  BY CallablesAre
<1> HIDE DEF one, each
<1>4. /\ IsSlice(FlattenSeq(each))
      /\ ToSet(FlattenSeq(each)) = UNION {ToSet(each[i]) : i \in DOMAIN each}
  BY <1>1, <1>2, <1>3, FlattenSlices
<1>5. {ToSet(each[i]) : i \in DOMAIN each} = {ToSet(one(f)) : f \in ToSet(fns)}
  BY <1>1, <1>2 DEF ToSet
<1>6. FlattenSeq(each) = FlattenSeq([i \in DOMAIN fns |-> Callables(what, fns[i], fns[i].insts)])
      /\ {ToSet(one(f)) : f \in ToSet(fns)} = {ToSet(Callables(what, f, f.insts)) : f \in ToSet(fns)}
  BY DEF each, one
<1> QED BY <1>4, <1>5, <1>6

\* The texts of callables.
LEMMA TextsAre ==
  ASSUME NEW s, IsSlice(s)
  PROVE  /\ ToSet(Texts(s)) = {c.text : c \in ToSet(s)}
         /\ NoRepeats(Texts(s)) => \A c, d \in ToSet(s) : c.text = d.text => c = d
<1>1. DOMAIN Texts(s) = DOMAIN s /\ \A i \in DOMAIN s : Texts(s)[i] = s[i].text
  BY DEF Texts
<1> QED BY <1>1 DEF ToSet, NoRepeats

\* One name before or behind others.
LEMMA OneBefore ==
  ASSUME NEW e, NEW s, IsSlice(s) PROVE IsSlice(<<e>> \o s)
<1> DEFINE one == <<e>>
<1>1. IsSlice(one)
  BY SmallSlices
<1> HIDE DEF one
<1>2. IsSlice(one \o s)
  BY <1>1, ConcatSlices
<1> QED BY <1>2 DEF one

LEMMA LongerWith ==
  ASSUME NEW s, IsSlice(s), s # <<>>, NEW t, IsSlice(t), t # <<>>
  PROVE  IsSlice(s \o t) /\ Len(s \o t) > 1 /\ Len(s \o t) \in Nat
<1> DEFINE T == ToSet(s) \cup ToSet(t)
<1>1. s \in Seq(T) /\ t \in Seq(T)
  BY SliceIn
<1> HIDE DEF T
<1>2. Len(s) \in Nat /\ Len(t) \in Nat /\ Len(s) > 0 /\ Len(t) > 0 /\ Len(s \o t) = Len(s) + Len(t)
  BY <1>1
<1> QED BY <1>2, ConcatSlices

\* Types are rendered as texts, ...
LEMMA FragmentIsSlice ==
  ASSUME NEW t, IsType(t) PROVE IsSlice(LuaFragment(t))
<1> DEFINE Node(u, parts) ==
             LET inside == FlattenSeq([i \in DOMAIN parts |-> <<Dash>> \o parts[i]]) IN
             CASE u.kind \in {"primitive", "ref", "instance"} -> <<u.name>>
               [] u.kind = "borrowed" -> FlattenSeq(parts)
               [] u.kind = "option" -> <<"opt">> \o inside
               [] OTHER -> <<u.kind>> \o inside
           S == Subterms(t)
           partsOf(f, u) == [i \in DOMAIN u.parts |-> f[u.parts[i]]]
           leaves == [u \in S |-> Node(u, <<>>)]
           up(f) == [u \in S |-> Node(u, partsOf(f, u))]
<1>1. LuaFragment(t) = up(up(up(leaves)))[t]
  BY DEF LuaFragment, Walked, Nested
<1>2. t \in S /\ \A u \in S : IsSlice(u.parts) /\ ToSet(u.parts) \subseteq S
  BY DEF Subterms, Nested, IsType
<1>3. ASSUME NEW u, NEW parts, IsSlice(parts), \A i \in DOMAIN parts : IsSlice(parts[i])
      PROVE  IsSlice(Node(u, parts))
  <2> DEFINE each == [i \in DOMAIN parts |-> <<Dash>> \o parts[i]]
             inside == FlattenSeq(each)
  <2>1. \A i \in DOMAIN parts : IsSlice(<<Dash>> \o parts[i])
    BY <1>3, OneBefore
  <2>2. IsSlice(each) /\ DOMAIN each = DOMAIN parts /\ \A i \in DOMAIN each : IsSlice(each[i])
    <3> DEFINE dashed(p) == <<Dash>> \o p
    <3>1. each = [i \in DOMAIN parts |-> dashed(parts[i])] /\ \A i \in DOMAIN parts : IsSlice(dashed(parts[i]))
      BY <2>1
    <3> HIDE DEF each, dashed
    <3>2. DOMAIN each = DOMAIN parts /\ each = [i \in DOMAIN each |-> each[i]]
          /\ \A i \in DOMAIN each : IsSlice(each[i])
      BY <3>1
    <3> QED BY <1>3, <3>2, MappedSlice
  <2> HIDE DEF each
  <2>3. IsSlice(inside) /\ IsSlice(FlattenSeq(parts))
    BY <1>3, <2>2, FlattenSlices
  <2>4. Node(u, parts) = CASE u.kind \in {"primitive", "ref", "instance"} -> <<u.name>>
               [] u.kind = "borrowed" -> FlattenSeq(parts)
               [] u.kind = "option" -> <<"opt">> \o inside
               [] OTHER -> <<u.kind>> \o inside
    BY DEF each
  <2> HIDE DEF inside, Node
  <2>5. IsSlice(<<u.name>>) /\ IsSlice(<<"opt">> \o inside) /\ IsSlice(<<u.kind>> \o inside)
    BY <2>3, SmallSlices, ConcatSlices
  <2> QED BY <2>3, <2>4, <2>5
<1> HIDE DEF Node, S
<1>4. ASSUME NEW f, \A u \in S : IsSlice(f[u])
      PROVE  \A u \in S : IsSlice(up(f)[u])
  <2> SUFFICES ASSUME NEW u \in S PROVE IsSlice(Node(u, partsOf(f, u)))
    OBVIOUS
  <2>1. DOMAIN partsOf(f, u) = DOMAIN u.parts /\ partsOf(f, u) = [i \in DOMAIN partsOf(f, u) |-> partsOf(f, u)[i]]
    OBVIOUS
  <2>2. \A i \in DOMAIN u.parts : u.parts[i] \in S /\ partsOf(f, u)[i] = f[u.parts[i]]
    BY <1>2 DEF ToSet
  <2> HIDE DEF partsOf
  <2>3. IsSlice(partsOf(f, u)) /\ \A i \in DOMAIN partsOf(f, u) : IsSlice(partsOf(f, u)[i])
    BY <1>2, <1>4, <2>1, <2>2, MappedSlice
  <2> QED BY <1>3, <2>3
<1>5. \A u \in S : IsSlice(leaves[u])
  BY <1>3, SmallSlices
<1> HIDE DEF up, leaves
<1>6. \A u \in S : IsSlice(up(leaves)[u])
  BY <1>4, <1>5
<1>7. \A u \in S : IsSlice(up(up(leaves))[u])
  BY <1>4, <1>6
<1>8. \A u \in S : IsSlice(up(up(up(leaves)))[u])
  BY <1>4, <1>7
<1> QED BY <1>1, <1>2, <1>8

\* ... and the name of a monomorph is longer than the name it is made from.
LEMMA MangledIsLonger ==
  ASSUME NEW name \in DOMAIN Spelling, NEW args, IsSlice(args), \A t \in ToSet(args) : IsType(t)
  PROVE  IsSlice(LuaMangled(name, args)) /\ Len(LuaMangled(name, args)) > 1
<1> DEFINE each == [i \in DOMAIN args |-> <<Dash>> \o LuaFragment(args[i])]
           rest == FlattenSeq(each)
           front == Spelling[name] \o <<Dash>>
<1>1. \A i \in DOMAIN args : IsSlice(<<Dash>> \o LuaFragment(args[i]))
  <2> SUFFICES ASSUME NEW i \in DOMAIN args PROVE IsSlice(<<Dash>> \o LuaFragment(args[i]))
    OBVIOUS
  <2>1. IsType(args[i])
    BY DEF ToSet
  <2> QED BY <2>1, FragmentIsSlice, OneBefore
<1>2. IsSlice(each) /\ DOMAIN each = DOMAIN args /\ \A i \in DOMAIN each : IsSlice(each[i])
  <2> DEFINE dashed(t) == <<Dash>> \o LuaFragment(t)
  <2>1. each = [i \in DOMAIN args |-> dashed(args[i])] /\ \A i \in DOMAIN args : IsSlice(dashed(args[i]))
    BY <1>1
  <2> HIDE DEF each, dashed
  <2>2. DOMAIN each = DOMAIN args /\ each = [i \in DOMAIN each |-> each[i]]
        /\ \A i \in DOMAIN each : IsSlice(each[i])
    BY <2>1
  <2> QED BY <2>2, MappedSlice
<1>3. LuaMangled(name, args) = front \o rest
  BY DEF LuaMangled
<1> HIDE DEF each
<1>4. IsSlice(rest)
  BY <1>2, FlattenSlices
<1>5. IsSlice(Spelling[name]) /\ Spelling[name] # <<>>
  BY SpellingAssumption
<1>6. IsSlice(front) /\ Len(front) \in Nat /\ Len(front) > 1
  <2> DEFINE own == Spelling[name]
             dash == <<Dash>>
  <2>1. IsSlice(own) /\ own # <<>> /\ IsSlice(dash) /\ dash # <<>>
    BY <1>5, SmallSlices
  <2> HIDE DEF own, dash
  <2>2. IsSlice(own \o dash) /\ Len(own \o dash) \in Nat /\ Len(own \o dash) > 1
    BY <2>1, LongerWith
  <2> QED BY <2>2 DEF own, dash
<1> HIDE DEF rest, front
<1>7. IsSlice(front \o rest) /\ Len(front \o rest) = Len(front) + Len(rest) /\ Len(rest) \in Nat
  <2> DEFINE T == ToSet(front) \cup ToSet(rest)
  <2>1. front \in Seq(T) /\ rest \in Seq(T)
    BY <1>4, <1>6, SliceIn
  <2> HIDE DEF T
  <2> QED BY <1>4, <1>6, <2>1, ConcatSlices
<1> QED BY <1>3, <1>6, <1>7

\* A function whose name and instantiations can be rendered.
IsRendered(f, insts) ==
  /\ f.name \in DOMAIN Spelling
  /\ IsSlice(insts)
  /\ \A args \in ToSet(insts) : IsSlice(args) /\ \A t \in ToSet(args) : IsType(t)

LEMMA CallableSpelled ==
  ASSUME NEW what, NEW f, NEW insts, IsRendered(f, insts), NEW c \in ToSet(Callables(what, f, insts))
  PROVE  /\ c.text # <<>>
         /\ c.how = "mangled" => IsSlice(c.text) /\ Len(c.text) > 1
<1>1. IsSlice(insts) /\ f.name \in DOMAIN Spelling
  BY DEF IsRendered
<1>2. CASE c.how \in {"plain", "dyn"} /\ c.text = Spelling[f.name]
  BY <1>1, <1>2, SpellingAssumption
<1>3. ASSUME NEW args \in ToSet(insts), c.text = LuaMangled(f.name, args)
      PROVE  c.text # <<>> /\ IsSlice(c.text) /\ Len(c.text) > 1
  <2>1. IsSlice(LuaMangled(f.name, args)) /\ Len(LuaMangled(f.name, args)) > 1
    BY MangledIsLonger DEF IsRendered
  <2> DEFINE text == LuaMangled(f.name, args)
  <2> HIDE DEF text
  <2>2. IsSlice(text) /\ Len(text) > 1
    BY <2>1 DEF text
  <2>3. text # <<>>
    BY <2>2, SmallSlices
  <2> QED BY <1>3, <2>2, <2>3 DEF text
<1> QED BY <1>1, <1>2, <1>3, CallableIs

LEMMA FunctionsRendered ==
  ASSUME NEW fns, AreFunctions(fns), NamesIn(fns) \subseteq DOMAIN Spelling
  PROVE  /\ IsSlice(fns)
         /\ \A f \in ToSet(fns) : IsRendered(f, f.insts) /\ IsRendered(f, <<>>) /\ IsSlice(f.insts)
<1>1. IsSlice(fns)
  BY DEF AreFunctions
<1>2. ASSUME NEW f \in ToSet(fns) PROVE IsRendered(f, f.insts) /\ IsRendered(f, <<>>) /\ IsSlice(f.insts)
  <2>1. f.name \in DOMAIN Spelling
    BY <1>1, NamesAre
  <2>2. IsSlice(f.insts) /\ \A args \in ToSet(f.insts) : IsSlice(args) /\ \A t \in ToSet(args) : IsType(t)
    BY DEF AreFunctions, InstArgs
  <2> QED BY <2>1, <2>2, SmallSlices DEF IsRendered
<1> QED BY <1>1, <1>2

-----------------------------------------------------------------------------
(* What a binding puts into tables. *)

\* A function: each of its callables is there, and replaces only what was at
\* or beneath its place.
LEMMA FunctionInstalled ==
  ASSUME NEW r, Standing(r), NEW x \in LuaModules(r), NEW f \in ToSet(x.module.functions), FnBinds(f), NEW old
  PROVE  LET new == Installed(old, FnSlots(x, f)) IN
         /\ \A c \in OwnCallables(f) : /\ Append(x.path, c.text) \in DOMAIN new
                                       /\ new[Append(x.path, c.text)].member = c.member
         /\ \A p \in DOMAIN old :
              (\A c \in OwnCallables(f) : ~AtOrBeneath(p, Append(x.path, c.text)))
                => p \in DOMAIN new /\ new[p] = old[p]
<1> DEFINE all == Callables("function", f, f.insts)
           slot(c) == At(Append(x.path, c.text), c.member, Nobody)
           slots == {slot(c) : c \in OwnCallables(f)}
<1>1. FnSlots(x, f) = slots
  BY DEF FnSlots, OwnCallables
<1>2. IsSlice(f.insts)
  BY ModuleIs, NamesApart DEF IsModule, AreFunctions
<1>3. \A c, d \in OwnCallables(f) : c.text = d.text => c = d
  <2>1. IsSlice(all) /\ NoRepeats(Texts(all)) /\ OwnCallables(f) = ToSet(all)
    BY <1>2, CallablesAre DEF FnBinds, OwnCallables
  <2> HIDE DEF all
  <2> QED BY <2>1, TextsAre
<1>4. \A c : slot(c).place = Append(x.path, c.text) /\ slot(c).member = c.member
  BY DEF At
<1>5. {s.place : s \in slots} = {Append(x.path, c.text) : c \in OwnCallables(f)}
  BY <1>4
<1>6. ASSUME NEW c \in OwnCallables(f), NEW d \in OwnCallables(f), slot(d).place = slot(c).place PROVE d = c
  <2>1. Append(x.path, c.text) = Append(x.path, d.text)
    BY <1>4, <1>6
  <2>2. c.text = d.text
    BY <2>1, SamePlace
  <2> QED BY <1>3, <2>2
<1> DEFINE new == Installed(old, slots)
<1>7. ASSUME NEW c \in OwnCallables(f)
      PROVE  Append(x.path, c.text) \in DOMAIN new /\ new[Append(x.path, c.text)].member = c.member
  <2>1. slot(c) \in slots /\ \A o \in slots : o.place = slot(c).place => o = slot(c)
    BY <1>6
  <2> HIDE DEF slots, slot
  <2>2. slot(c).place \in DOMAIN new /\ new[slot(c).place] = slot(c)
    BY <2>1, InstalledAt
  <2> QED BY <1>4, <2>2
<1>8. ASSUME NEW p \in DOMAIN old, \A c \in OwnCallables(f) : ~AtOrBeneath(p, Append(x.path, c.text))
      PROVE  p \in DOMAIN new /\ new[p] = old[p]
  <2>1. \A q \in {s.place : s \in slots} : ~AtOrBeneath(p, q)
    BY <1>5, <1>8
  <2> HIDE DEF slots
  <2> QED BY <2>1, InstalledAt
<1> QED BY <1>1, <1>7, <1>8

\* What can be bound: its methods and constructors have names.
IsBindable(d) ==
  /\ AreFunctions(d.methods) /\ NamesIn(d.methods) \subseteq DOMAIN Spelling
  /\ AreFunctions(d.constructors) /\ NamesIn(d.constructors) \subseteq DOMAIN Spelling

LEMMA StructIs ==
  ASSUME NEW r, Standing(r), NEW id \in Ids(r.structs)
  PROVE  /\ id \notin Ids(r.enums) /\ id \in Known(r)
         /\ TypeOf(r, id) \in ToSet(r.structs)
         /\ Bindable(r, id) = TypeOf(r, id)
<1>1. IsRegistry(r) /\ UniqueTypes(r)
  BY DEF Standing, Validates
<1>2. /\ WithId(ValueTypes(r), id) = WithId(r.structs, id)
      /\ id \notin Ids(r.enums)
  BY <1>1, ValueTypeOf
<1>3. WithId(r.structs, id) \in ToSet(r.structs)
  BY <1>1, WithIdIn DEF IsRegistry
<1>4. id \in Known(r)
  BY <1>1, IdsApart DEF Known
<1> QED BY <1>2, <1>3, <1>4 DEF Bindable, TypeOf

LEMMA BindableIs ==
  ASSUME NEW r, Standing(r), NEW id \in Ids(r.structs) \cup Ids(r.enums)
  PROVE  IsBindable(Bindable(r, id))
<1>1. CASE id \in Ids(r.structs)
  <2> DEFINE s == TypeOf(r, id)
  <2>1. s \in ToSet(r.structs) /\ Bindable(r, id) = s
    BY <1>1, StructIs
  <2> HIDE DEF s
  <2>2. IsStruct(s)
    BY <2>1 DEF Standing, IsRegistry
  <2>3. NamesIn(s.methods) \subseteq DOMAIN Spelling /\ NamesIn(s.constructors) \subseteq DOMAIN Spelling
    BY <2>1 DEF Standing, LuaNames
  <2> QED BY <2>1, <2>2, <2>3 DEF IsStruct, IsBindable
<1>2. CASE id \in Ids(r.enums)
  <2> DEFINE e == TypeOf(r, id)
             d == [Struct(e.id, e.name) EXCEPT !.methods = e.methods, !.traits = e.traits]
  <2>1. e \in ToSet(r.enums)
    BY <1>2, CasesApart
  <2>2. Bindable(r, id) = d
    BY <1>2 DEF Bindable
  <2>3. d.methods = e.methods /\ d.constructors = <<>>
    BY DEF Struct
  <2> HIDE DEF d, e
  <2>4. IsEnum(e)
    BY <2>1 DEF Standing, IsRegistry
  <2>5. NamesIn(e.methods) \subseteq DOMAIN Spelling
    BY <2>1 DEF Standing, LuaNames
  <2>6. AreFunctions(<<>>) /\ NamesIn(<<>>) = {}
    BY SmallSlices DEF AreFunctions, NamesIn
  <2> QED BY <2>2, <2>3, <2>4, <2>5, <2>6 DEF IsEnum, IsBindable
<1> QED BY <1>1, <1>2

LEMMA TableCallablesAre ==
  ASSUME NEW d, IsBindable(d)
  PROVE  /\ IsSlice(TableCallables(d))
         /\ \A c \in ToSet(TableCallables(d)) : c.text # <<>>
<1> DEFINE default == Function("default", <<>>, Ref(d.id))
           added == IF Declares(d, {"Default"}) THEN <<default>> ELSE <<>>
           ctors == d.constructors \o added
           positions == {i \in DOMAIN d.methods : d.methods[i].receiver = "none"}
           static == Kept(d.methods, positions)
           made == [i \in DOMAIN ctors |-> Callables("constructor", ctors[i], <<>>)]
           called == [i \in DOMAIN static |-> Callables("associated", static[i], static[i].insts)]
<1>1. TableCallables(d) = FlattenSeq(made) \o FlattenSeq(called)
  BY DEF TableCallables, Where
<1>2. /\ IsSlice(d.constructors) /\ \A f \in ToSet(d.constructors) : IsRendered(f, <<>>)
      /\ IsSlice(d.methods) /\ \A f \in ToSet(d.methods) : IsRendered(f, f.insts) /\ IsSlice(f.insts)
  BY FunctionsRendered DEF IsBindable
<1>3. IsRendered(default, <<>>)
  BY SpellingAssumption, SmallSlices DEF IsRendered, Function
<1> HIDE DEF default
<1>4. IsSlice(ctors) /\ \A f \in ToSet(ctors) : IsRendered(f, <<>>)
  <2>1. IsSlice(added) /\ ToSet(added) \subseteq {default}
    BY SmallSlices
  <2> HIDE DEF added
  <2> QED BY <1>2, <1>3, <2>1, ConcatSlices
<1>5. IsSlice(static) /\ ToSet(static) \subseteq ToSet(d.methods)
  <2> HIDE DEF positions
  <2> QED BY <1>2, KeptIn
<1> HIDE DEF ctors, static
<1>6. /\ IsSlice(FlattenSeq(made))
      /\ \A c \in ToSet(FlattenSeq(made)) : c.text # <<>>
  <2>1. DOMAIN made = DOMAIN ctors /\ made = [i \in DOMAIN made |-> made[i]]
        /\ \A i \in DOMAIN ctors : ctors[i] \in ToSet(ctors) /\ made[i] = Callables("constructor", ctors[i], <<>>)
    BY DEF ToSet
  <2> HIDE DEF made
  <2>2. IsSlice(made)
    BY <1>4, <2>1, MappedSlice
  <2>3. \A i \in DOMAIN made : IsSlice(made[i]) /\ \A c \in ToSet(made[i]) : c.text # <<>>
    BY <1>4, <2>1, CallablesAre, SmallSlices, CallableSpelled
  <2> QED BY <2>2, <2>3, FlattenSlices
<1>7. /\ IsSlice(FlattenSeq(called))
      /\ \A c \in ToSet(FlattenSeq(called)) : c.text # <<>>
  <2>1. \A f \in ToSet(static) : IsSlice(f.insts) /\ IsRendered(f, f.insts)
    BY <1>2, <1>5
  <2>2. /\ IsSlice(FlattenSeq(called))
        /\ ToSet(FlattenSeq(called)) = UNION {ToSet(Callables("associated", f, f.insts)) : f \in ToSet(static)}
    BY <1>5, <2>1, AllCallables
  <2> HIDE DEF called
  <2> QED BY <2>1, <2>2, CallableSpelled
<1> HIDE DEF made, called
<1> QED BY <1>1, <1>6, <1>7, ConcatSlices
\* A type: each of its callables is on the table, and they replace only what was
\* at or beneath their places or the empty name.
LEMMA TableInstalled ==
  ASSUME NEW place, IsSlice(place), NEW d, IsBindable(d), TableNamesDiffer(d), NEW owner, NEW old
  PROVE  LET new == Installed(old, TypeTableSlots(old, place, d, owner)) IN
         /\ \A c \in ToSet(TableCallables(d)) :
              /\ Append(place, c.text) \in DOMAIN new
              /\ new[Append(place, c.text)] = At(Append(place, c.text), c.member, owner)
         /\ \A p \in DOMAIN old :
              (/\ ~AtOrBeneath(p, Append(place, <<>>))
               /\ \A c \in ToSet(TableCallables(d)) : ~AtOrBeneath(p, Append(place, c.text)))
                => p \in DOMAIN new /\ new[p] = old[p]
<1> DEFINE all == ToSet(TableCallables(d))
           slot(c) == At(Append(place, c.text), c.member, owner)
           own == {slot(c) : c \in all}
           slots == TypeTableSlots(old, place, d, owner)
           new == Installed(old, slots)
<1>1. own \subseteq slots /\ \A s \in slots : s \in own \/ s.place = Append(place, <<>>)
  <2> DEFINE withCtors == Installed(old, {At(Append(place, c.text), c.member, owner) :
                 c \in ToSet(Where(TableCallables(d), LAMBDA e : e.member.what = "constructor"))})
             called(m, o) == At(Append(place, <<>>), m, o)
             ctor == Append(place, <<"new">>)
  <2>1. slots = own \cup (IF ctor \in DOMAIN withCtors /\ withCtors[ctor].member.what # "case"
                          THEN {called(withCtors[ctor].member, withCtors[ctor].owner)} ELSE {})
    BY DEF TypeTableSlots
  <2> HIDE DEF own, slots, withCtors, ctor
  <2>2. \A m, o : called(m, o).place = Append(place, <<>>)
    BY DEF At
  <2> HIDE DEF called
  <2> QED BY <2>1, <2>2
<1>2. \A c, e \in all : c.text = e.text => c = e
  BY TableCallablesAre, TextsAre DEF TableNamesDiffer
<1>3. \A c : slot(c).place = Append(place, c.text)
  BY DEF At
<1>4. \A s, t : Append(place, s) = Append(place, t) => s = t
  BY AppendApart
<1>5. \A c \in all : c.text # <<>>
  BY TableCallablesAre
<1> HIDE DEF slot, slots, all
<1>6. ASSUME NEW c \in all
      PROVE  slot(c) \in slots /\ \A o \in slots : o.place = slot(c).place => o = slot(c)
  <2>1. slot(c) \in slots
    BY <1>1
  <2>2. ASSUME NEW o \in slots, o.place = slot(c).place PROVE o = slot(c)
    <3>1. CASE o \in own
      <4>1. PICK e \in all : o = slot(e)
        BY <3>1
      <4>2. Append(place, e.text) = Append(place, c.text)
        BY <1>3, <2>2, <4>1
      <4> QED BY <1>2, <1>4, <4>1, <4>2
    <3>2. CASE o.place = Append(place, <<>>)
      <4>1. Append(place, <<>>) = Append(place, c.text)
        BY <1>3, <2>2, <3>2
      <4> QED BY <1>4, <1>5, <4>1
    <3> QED BY <1>1, <3>1, <3>2
  <2> QED BY <2>1, <2>2
<1>7. ASSUME NEW c \in all
      PROVE  Append(place, c.text) \in DOMAIN new /\ new[Append(place, c.text)] = slot(c)
  <2>1. slot(c).place \in DOMAIN Installed(old, slots) /\ Installed(old, slots)[slot(c).place] = slot(c)
    BY <1>6, InstalledAt
  <2> QED BY <1>3, <2>1
<1>8. ASSUME NEW p \in DOMAIN old, ~AtOrBeneath(p, Append(place, <<>>)),
             \A c \in all : ~AtOrBeneath(p, Append(place, c.text))
      PROVE  p \in DOMAIN new /\ new[p] = old[p]
  <2>1. \A q \in {s.place : s \in slots} : ~AtOrBeneath(p, q)
    BY <1>1, <1>3, <1>8
  <2> QED BY <2>1, InstalledAt
<1> QED BY <1>7, <1>8 DEF slot, slots, all
-----------------------------------------------------------------------------
(* What objects answer. *)

LEMMA MethodCallablesAre ==
  ASSUME NEW d, IsBindable(d)
  PROVE  /\ IsSlice(MethodCallables(d))
         /\ \A c \in ToSet(MethodCallables(d)) :
              \/ /\ c.how \in {"plain", "dyn"}
                 /\ \E n \in DOMAIN Spelling : c.text = Spelling[n] /\ c.member = Item("method", n, <<>>)
              \/ c.how = "mangled" /\ IsSlice(c.text) /\ Len(c.text) > 1
<1> DEFINE positions == {i \in DOMAIN d.methods : d.methods[i].receiver # "none"}
           methods == Kept(d.methods, positions)
           called == FlattenSeq([i \in DOMAIN methods |-> Callables("method", methods[i], methods[i].insts)])
<1>1. MethodCallables(d) = called
  BY DEF MethodCallables, Where
<1>2. IsSlice(d.methods) /\ \A f \in ToSet(d.methods) : IsRendered(f, f.insts) /\ IsSlice(f.insts)
  BY FunctionsRendered DEF IsBindable
<1>3. IsSlice(methods) /\ ToSet(methods) \subseteq ToSet(d.methods)
  <2> HIDE DEF positions
  <2> QED BY <1>2, KeptIn
<1> HIDE DEF methods
<1>4. /\ IsSlice(called)
      /\ ToSet(called) = UNION {ToSet(Callables("method", f, f.insts)) : f \in ToSet(methods)}
  BY <1>2, <1>3, AllCallables
<1> HIDE DEF called
<1>5. ASSUME NEW c \in ToSet(called)
      PROVE  \/ /\ c.how \in {"plain", "dyn"}
                /\ \E n \in DOMAIN Spelling : c.text = Spelling[n] /\ c.member = Item("method", n, <<>>)
             \/ c.how = "mangled" /\ IsSlice(c.text) /\ Len(c.text) > 1
  <2>1. PICK f \in ToSet(methods) : c \in ToSet(Callables("method", f, f.insts))
    BY <1>4
  <2>2. IsRendered(f, f.insts) /\ IsSlice(f.insts) /\ f.name \in DOMAIN Spelling
    BY <1>2, <1>3 DEF IsRendered
  <2>3. c.how = "mangled" => IsSlice(c.text) /\ Len(c.text) > 1
    BY <2>1, <2>2, CallableSpelled
  <2>4. \/ /\ c.how \in {"plain", "dyn"}
           /\ c.text = Spelling[f.name] /\ c.member = Item("method", f.name, <<>>)
        \/ c.how = "mangled"
    BY <2>1, <2>2, CallableIs
  <2> QED BY <2>2, <2>3, <2>4
<1> QED BY <1>1, <1>4, <1>5

\* The callables among some that are of given kinds.
LEMMA CalledAre ==
  ASSUME NEW s, IsSlice(s), NEW hows
  PROVE  /\ IsSlice(Called(s, hows))
         /\ ToSet(Called(s, hows)) = {c \in ToSet(s) : c.how \in hows}
<1> DEFINE positions == {i \in DOMAIN s : s[i].how \in hows}
<1>1. Called(s, hows) = Kept(s, positions)
  BY DEF Called, Where
<1>2. \A i \in DOMAIN s : i \in positions <=> s[i].how \in hows
  OBVIOUS
<1> HIDE DEF positions
<1>3. IsSlice(Kept(s, positions)) /\ ToSet(Kept(s, positions)) = {s[i] : i \in DOMAIN s \cap positions}
  BY KeptSlice
<1> QED BY <1>1, <1>2, <1>3 DEF ToSet

LEMMA PortableAre ==
  ASSUME NEW d
  PROVE  /\ IsSlice(Portable(d))
         /\ \A c \in ToSet(Portable(d)) :
              /\ c.how = "portable"
              /\ \E name : c.text = <<name>> /\ c.member = Item("portable", name, <<>>)
<1> DEFINE one(name) == [how |-> "portable", async |-> FALSE, text |-> <<name>>,
                         member |-> Item("portable", name, <<>>)]
           added(name, traits) == IF Declares(d, traits) THEN <<one(name)>> ELSE <<>>
           iter == added("iter", {"Iterator", "IntoIterator"})
           hash == added("hash", {"Hash"})
           debug == added("debug", {"Debug"})
<1>1. Portable(d) = (iter \o hash) \o debug
  BY DEF Portable
<1>2. \A name : one(name).how = "portable" /\ one(name).text = <<name>>
                /\ one(name).member = Item("portable", name, <<>>)
  OBVIOUS
<1> HIDE DEF one
<1>3. \A name, traits : IsSlice(added(name, traits)) /\ \A c \in ToSet(added(name, traits)) : c = one(name)
  BY SmallSlices
<1> HIDE DEF added
<1>4. IsSlice(iter \o hash) /\ ToSet(iter \o hash) = ToSet(iter) \cup ToSet(hash)
  BY <1>3, ConcatSlices
<1>5. IsSlice((iter \o hash) \o debug) /\ ToSet((iter \o hash) \o debug) = ToSet(iter) \cup ToSet(hash) \cup ToSet(debug)
  BY <1>3, <1>4, ConcatSlices
<1> QED BY <1>1, <1>2, <1>3, <1>5

\* Fields and properties: what has the same text is the same.
LEMMA DataAre ==
  ASSUME NEW d, IsSlice(d.fields), IsSlice(d.properties),
         NamesIn(d.fields) \cup NamesIn(d.properties) \subseteq DOMAIN Spelling
  PROVE  /\ IsSlice(Data(d))
         /\ \A m \in ToSet(Data(d)) : m = [text |-> m.text, member |-> m.member]
         /\ \A m, o \in ToSet(Data(d)) : m.text = o.text => m = o
<1> DEFINE data == d.fields \o d.properties
           one(n) == [text |-> Spelling[n], member |-> Item("field", n, <<>>)]
<1>1. IsSlice(data) /\ ToSet(data) = ToSet(d.fields) \cup ToSet(d.properties)
  BY ConcatSlices
<1>2. \A e \in ToSet(data) : e.name \in DOMAIN Spelling
  BY <1>1, NamesAre
<1>3. Data(d) = [i \in DOMAIN data |-> one(data[i].name)]
  BY DEF Data
<1> HIDE DEF data
<1>4. \A n : one(n).text = Spelling[n] /\ one(n) = [text |-> one(n).text, member |-> one(n).member]
  OBVIOUS
<1> HIDE DEF one
<1>5. DOMAIN Data(d) = DOMAIN data /\ Data(d) = [i \in DOMAIN Data(d) |-> Data(d)[i]]
      /\ \A i \in DOMAIN data : Data(d)[i] = one(data[i].name) /\ data[i] \in ToSet(data)
  BY <1>3 DEF ToSet
<1>6. IsSlice(Data(d))
  BY <1>1, <1>5, MappedSlice
<1>7. \A m \in ToSet(Data(d)) : \E n \in DOMAIN Spelling : m = one(n)
  BY <1>2, <1>5 DEF ToSet
<1> QED BY <1>4, <1>6, <1>7, SpelledApart
\* A field before a method, and one of the methods that have the name.
LEMMA AnswerIs ==
  ASSUME NEW d, IsBindable(d), IsSlice(Data(d)), NEW text
  PROVE  /\ (\E m \in ToSet(Data(d)) : m.text = text)
              => \E m \in ToSet(Data(d)) : m.text = text /\ Answer(d, text) = m.member
         /\ (\A m \in ToSet(Data(d)) : m.text # text)
            /\ (\E m \in ToSet(MethodCallables(d)) \cup ToSet(Portable(d)) : m.text = text)
              => \E o \in ToSet(MethodCallables(d)) \cup ToSet(Portable(d)) :
                   o.text = text /\ Answer(d, text) = o.member
<1> DEFINE data == Where(Data(d), LAMBDA m : m.text = text)
           plain == Called(MethodCallables(d), {"plain"})
           mangled == Called(MethodCallables(d), {"mangled"})
           dyn == Called(MethodCallables(d), {"dyn"})
           registered == plain \o mangled \o dyn \o Portable(d)
           said == Where(registered, LAMBDA m : m.text = text)
           all == ToSet(MethodCallables(d)) \cup ToSet(Portable(d))
<1>1. Answer(d, text) = IF data # <<>> THEN data[1].member ELSE Last(said).member
  BY DEF Answer
<1>2. IsSlice(data) /\ ToSet(data) = {m \in ToSet(Data(d)) : m.text = text}
  <2> DEFINE positions == {i \in DOMAIN Data(d) : Data(d)[i].text = text}
  <2>1. data = Kept(Data(d), positions)
    BY DEF Where
  <2>2. \A i \in DOMAIN Data(d) : i \in positions <=> Data(d)[i].text = text
    OBVIOUS
  <2> HIDE DEF positions, data
  <2> QED BY <2>1, <2>2, KeptSlice DEF ToSet
<1>3. IsSlice(registered) /\ ToSet(registered) = all
  <2>1. /\ IsSlice(plain) /\ ToSet(plain) = {c \in ToSet(MethodCallables(d)) : c.how = "plain"}
        /\ IsSlice(mangled) /\ ToSet(mangled) = {c \in ToSet(MethodCallables(d)) : c.how = "mangled"}
        /\ IsSlice(dyn) /\ ToSet(dyn) = {c \in ToSet(MethodCallables(d)) : c.how = "dyn"}
    BY MethodCallablesAre, CalledAre
  <2>2. IsSlice(Portable(d))
    BY PortableAre
  <2>3. \A c \in ToSet(MethodCallables(d)) : c.how \in {"plain", "mangled", "dyn"}
    BY MethodCallablesAre
  <2> HIDE DEF plain, mangled, dyn
  <2>4. IsSlice(plain \o mangled) /\ ToSet(plain \o mangled) = ToSet(plain) \cup ToSet(mangled)
    BY <2>1, ConcatSlices
  <2>5. /\ IsSlice((plain \o mangled) \o dyn)
        /\ ToSet((plain \o mangled) \o dyn) = ToSet(plain) \cup ToSet(mangled) \cup ToSet(dyn)
    BY <2>1, <2>4, ConcatSlices
  <2>6. /\ IsSlice(((plain \o mangled) \o dyn) \o Portable(d))
        /\ ToSet(((plain \o mangled) \o dyn) \o Portable(d))
             = ToSet(plain) \cup ToSet(mangled) \cup ToSet(dyn) \cup ToSet(Portable(d))
    BY <2>2, <2>5, ConcatSlices
  <2> QED BY <2>1, <2>3, <2>6
<1> HIDE DEF registered
<1>4. IsSlice(said) /\ ToSet(said) = {m \in all : m.text = text}
  <2> DEFINE positions == {i \in DOMAIN registered : registered[i].text = text}
  <2>1. said = Kept(registered, positions)
    BY DEF Where
  <2>2. \A i \in DOMAIN registered : i \in positions <=> registered[i].text = text
    OBVIOUS
  <2> HIDE DEF positions, said, all
  <2>3. IsSlice(said) /\ ToSet(said) = {registered[i] : i \in DOMAIN registered \cap positions}
    BY <1>3, <2>1, KeptSlice
  <2>4. all = {registered[i] : i \in DOMAIN registered}
    BY <1>3 DEF ToSet
  <2> QED BY <2>2, <2>3, <2>4
<1> HIDE DEF data, said, all
<1>5. ASSUME \E m \in ToSet(Data(d)) : m.text = text
      PROVE  \E m \in ToSet(Data(d)) : m.text = text /\ Answer(d, text) = m.member
  <2>1. data # <<>>
    BY <1>2, <1>5, SmallSlices
  <2>2. 1 \in DOMAIN data
    BY <1>2, <2>1 DEF IsSlice
  <2>3. data[1] \in ToSet(data)
    BY <2>2 DEF ToSet
  <2> QED BY <1>1, <1>2, <2>1, <2>3
<1>6. ASSUME \A m \in ToSet(Data(d)) : m.text # text, \E m \in all : m.text = text
      PROVE  \E o \in all : o.text = text /\ Answer(d, text) = o.member
  <2>1. data = <<>>
    <3>1. ToSet(data) = {}
      BY <1>2, <1>6
    <3>2. DOMAIN data = {}
      BY <3>1 DEF ToSet
    <3>3. data = [i \in 1..Len(data) |-> data[i]] /\ DOMAIN data = 1..Len(data) /\ Len(data) \in Nat
      BY <1>2, SliceParts
    <3>4. Len(data) = 0
      BY <3>2, <3>3
    <3> QED BY <1>2, <3>4 DEF IsSlice
  <2>2. said # <<>>
    BY <1>4, <1>6, SmallSlices
  <2>3. Last(said) \in ToSet(said)
    BY <1>4, <2>2, LastIn
  <2> QED BY <1>1, <1>4, <2>1, <2>3
<1> QED BY <1>5, <1>6 DEF all

\* Two methods of the same name that a type was bound with: the same member, or
\* the name is that of an async method.
LEMMA MethodsApart ==
  ASSUME NEW d, IsBindable(d), TypeBinds(d),
         NEW m \in ToSet(MethodCallables(d)) \cup ToSet(Portable(d)),
         NEW o \in ToSet(MethodCallables(d)) \cup ToSet(Portable(d)), m.text = o.text
  PROVE  \/ m.member = o.member
         \/ \E c \in ToSet(MethodCallables(d)) : c.how = "plain" /\ c.async /\ c.text = m.text
<1> DEFINE methods == ToSet(MethodCallables(d))
           async == \E c \in methods : c.how = "plain" /\ c.async /\ c.text = m.text
           mangled == Called(MethodCallables(d), {"mangled"})
<1>1. SUFFICES ASSUME ~async PROVE m.member = o.member
  OBVIOUS
<1>2. /\ \A c \in methods :
              \/ /\ c.how \in {"plain", "dyn"}
                 /\ \E n \in DOMAIN Spelling : c.text = Spelling[n] /\ c.member = Item("method", n, <<>>)
              \/ c.how = "mangled" /\ IsSlice(c.text) /\ Len(c.text) > 1
      /\ \A c \in ToSet(Portable(d)) :
              /\ c.how = "portable"
              /\ \E name : c.text = <<name>> /\ c.member = Item("portable", name, <<>>)
  BY MethodCallablesAre, PortableAre
<1>3. /\ IsSlice(mangled) /\ ToSet(mangled) = {c \in methods : c.how = "mangled"}
  BY MethodCallablesAre, CalledAre
<1>4. /\ NoRepeats(Texts(mangled)) /\ ToSet(Texts(mangled)) \cap ScannedNames(d) = {}
      /\ ToSet(Texts(Portable(d))) \cap ScannedNames(d) = {}
  BY DEF TypeBinds, MonomorphsDiffer
<1>5. \A c \in methods : c.text = m.text /\ c.how \in {"plain", "dyn"} => c.text \in ScannedNames(d)
  BY <1>1 DEF ScannedNames
<1>6. \A c \in ToSet(Portable(d)) : c.text \in ToSet(Texts(Portable(d)))
  BY PortableAre, TextsAre
<1>7. /\ \A c \in methods : c.how = "mangled" => c.text \in ToSet(Texts(mangled))
      /\ \A c, e \in methods : c.how = "mangled" /\ e.how = "mangled" /\ c.text = e.text => c = e
  BY <1>3, <1>4, TextsAre
<1> HIDE DEF mangled, methods
<1>8. CASE m \in ToSet(Portable(d)) /\ o \in ToSet(Portable(d))
  <2>1. PICK a : m.text = <<a>> /\ m.member = Item("portable", a, <<>>)
    BY <1>2, <1>8
  <2>2. PICK b : o.text = <<b>> /\ o.member = Item("portable", b, <<>>)
    BY <1>2, <1>8
  <2>3. <<a>> = <<b>>
    BY <2>1, <2>2
  <2>4. <<a>>[1] = a /\ <<b>>[1] = b
    OBVIOUS
  <2>5. a = b
    BY <2>3, <2>4
  <2> QED BY <2>1, <2>2, <2>5
<1>9. ASSUME NEW p \in ToSet(Portable(d)), NEW c \in methods, p.text = c.text, c.text = m.text PROVE FALSE
  <2>1. CASE c.how = "mangled"
    <3>1. PICK a : p.text = <<a>>
      BY <1>2
    <3>2. Len(c.text) > 1
      BY <1>2, <2>1
    <3>3. c.text = <<a>>
      BY <1>9, <3>1
    <3>4. Len(<<a>>) = 1
      OBVIOUS
    <3>5. Len(<<a>>) > 1
      BY <3>2, <3>3
    <3> QED BY <3>4, <3>5
  <2>2. CASE c.how \in {"plain", "dyn"}
    BY <1>4, <1>5, <1>6, <1>9, <2>2
  <2> QED BY <1>2, <2>1, <2>2
<1>10. CASE m \in methods /\ o \in methods
  <2>1. CASE m.how = "mangled" /\ o.how = "mangled"
    BY <1>7, <1>10, <2>1
  <2>2. CASE m.how \in {"plain", "dyn"} /\ o.how \in {"plain", "dyn"}
    <3>1. PICK a \in DOMAIN Spelling : m.text = Spelling[a] /\ m.member = Item("method", a, <<>>)
      BY <1>2, <1>10, <2>2
    <3>2. PICK b \in DOMAIN Spelling : o.text = Spelling[b] /\ o.member = Item("method", b, <<>>)
      BY <1>2, <1>10, <2>2
    <3>3. a = b
      BY <3>1, <3>2, SpelledApart
    <3> QED BY <3>1, <3>2, <3>3
  <2>3. ASSUME NEW c \in methods, NEW e \in methods, c.how = "mangled", e.how \in {"plain", "dyn"},
               c.text = m.text, e.text = m.text
        PROVE  FALSE
    BY <1>4, <1>5, <1>7, <2>3
  <2> QED BY <1>2, <1>10, <2>1, <2>2, <2>3
<1> QED BY <1>8, <1>9, <1>10 DEF methods
\* Objects of a type that was bound answer what is declared.
LEMMA ObjectsAnswer ==
  ASSUME Standing(reg), NEW owner, owner.id \in Ids(reg.structs) \cup Ids(reg.enums),
         TypeBinds(Bindable(reg, owner.id))
  PROVE  ObjectFound(owner)
<1> DEFINE id == owner.id
           d == Bindable(reg, id)
           object == DescribedObject(reg, id)
           declared == ToSet(object)
           unchecked == {m.text : m \in ToSet(Data(d))}
                        \cup {c.text : c \in {m \in ToSet(MethodCallables(d)) : m.how = "plain" /\ m.async}}
           shared == {m.text : m \in {n \in declared : \E o \in declared : o.text = n.text /\ o # n}}
<1>1. SUFFICES ASSUME NEW m \in declared
               PROVE  m.text \in shared \cap unchecked \/ Answer(d, m.text) = m.member
  BY DEF ObjectFound
<1>2. id \in Ids(reg.structs)
  <2>1. CASE id \notin Ids(reg.structs)
    <3>1. object = <<>>
      BY <2>1 DEF DescribedObject
    <3> HIDE DEF object
    <3> QED BY <3>1, <1>1, SmallSlices
  <2> QED BY <2>1
<1>3. d = TypeOf(reg, id) /\ TypeOf(reg, id) \in ToSet(reg.structs)
  BY <1>2, StructIs
<1>4. IsBindable(d) /\ TypeBinds(d)
  BY BindableIs
<1> DEFINE brief(c) == [text |-> c.text, member |-> c.member]
           shown(seq) == [i \in DOMAIN seq |-> brief(seq[i])]
           data == Data(d)
           ported == Portable(d)
           methods == MethodCallables(d)
<1>5. object = (data \o shown(ported)) \o shown(methods)
  BY <1>2, <1>3 DEF DescribedObject
<1>6. IsSlice(d.fields) /\ IsSlice(d.properties)
      /\ NamesIn(d.fields) \cup NamesIn(d.properties) \subseteq DOMAIN Spelling
  BY <1>3 DEF Standing, IsRegistry, IsStruct, AreNamed, LuaNames
<1> HIDE DEF d, object
<1>7. /\ IsSlice(data)
      /\ \A e \in ToSet(data) : e = brief(e)
      /\ \A e, o \in ToSet(data) : e.text = o.text => e = o
  BY <1>6, DataAre
<1>8. IsSlice(ported) /\ IsSlice(methods)
  BY <1>4, PortableAre, MethodCallablesAre
<1> HIDE DEF data, ported, methods
<1>9. ASSUME NEW seq, IsSlice(seq)
      PROVE  IsSlice(shown(seq)) /\ ToSet(shown(seq)) = {brief(c) : c \in ToSet(seq)}
  <2> HIDE DEF brief
  <2>1. DOMAIN shown(seq) = DOMAIN seq /\ shown(seq) = [i \in DOMAIN shown(seq) |-> shown(seq)[i]]
        /\ \A i \in DOMAIN seq : shown(seq)[i] = brief(seq[i])
    OBVIOUS
  <2> HIDE DEF shown
  <2> QED BY <1>9, <2>1, MappedSlice DEF ToSet
<1>10. declared = ToSet(data) \cup {brief(c) : c \in ToSet(methods) \cup ToSet(ported)}
  <2> HIDE DEF brief, shown
  <2>1. IsSlice(shown(ported)) /\ ToSet(shown(ported)) = {brief(c) : c \in ToSet(ported)}
        /\ IsSlice(shown(methods)) /\ ToSet(shown(methods)) = {brief(c) : c \in ToSet(methods)}
    BY <1>8, <1>9
  <2>2. IsSlice(data \o shown(ported))
        /\ ToSet(data \o shown(ported)) = ToSet(data) \cup ToSet(shown(ported))
    BY <1>7, <2>1, ConcatSlices
  <2>3. ToSet((data \o shown(ported)) \o shown(methods))
          = ToSet(data) \cup ToSet(shown(ported)) \cup ToSet(shown(methods))
    BY <2>1, <2>2, ConcatSlices
  <2> QED BY <1>5, <2>1, <2>3
<1>11. \A c : brief(c).text = c.text /\ brief(c).member = c.member
  OBVIOUS
<1> HIDE DEF declared, brief
<1>12. /\ (\E e \in ToSet(data) : e.text = m.text)
             => \E e \in ToSet(data) : e.text = m.text /\ Answer(d, m.text) = e.member
       /\ (\A e \in ToSet(data) : e.text # m.text)
          /\ (\E e \in ToSet(methods) \cup ToSet(ported) : e.text = m.text)
             => \E o \in ToSet(methods) \cup ToSet(ported) :
                  o.text = m.text /\ Answer(d, m.text) = o.member
  BY <1>4, <1>7, AnswerIs DEF data, methods, ported
<1>13. CASE \E e \in ToSet(data) : e.text = m.text
  <2>1. PICK e \in ToSet(data) : e.text = m.text /\ Answer(d, m.text) = e.member
    BY <1>12, <1>13
  <2>2. CASE m = e
    BY <2>1, <2>2
  <2>3. CASE m # e
    <3>1. m.text \in shared
      BY <1>1, <1>10, <2>1, <2>3
    <3>2. m.text \in unchecked
      BY <2>1 DEF data
    <3> QED BY <3>1, <3>2
  <2> QED BY <2>2, <2>3
<1>14. CASE \A e \in ToSet(data) : e.text # m.text
  <2>1. PICK c \in ToSet(methods) \cup ToSet(ported) : m = brief(c)
    BY <1>1, <1>10, <1>14
  <2>2. PICK o \in ToSet(methods) \cup ToSet(ported) : o.text = m.text /\ Answer(d, m.text) = o.member
    BY <1>11, <1>12, <1>14, <2>1
  <2>3. CASE c.member = o.member
    BY <1>11, <2>1, <2>2, <2>3
  <2>4. CASE c.member # o.member
    <3>1. \E e \in ToSet(methods) : e.how = "plain" /\ e.async /\ e.text = c.text
      BY <1>4, <1>11, <2>1, <2>2, <2>4, MethodsApart DEF methods, ported
    <3>2. m.text \in unchecked
      BY <1>11, <2>1, <3>1 DEF methods
    <3>3. brief(o) \in declared /\ brief(o).text = m.text /\ brief(o) # m
      BY <1>10, <1>11, <2>1, <2>2, <2>4
    <3>4. m.text \in shared
      BY <1>1, <3>3
    <3> QED BY <3>2, <3>4
  <2> QED BY <2>3, <2>4
<1> QED BY <1>13, <1>14
-----------------------------------------------------------------------------
(* Callbacks tables. *)

\* A callbacks table is asked for what is declared: all of it connects, and
\* nothing that is declared may be left out.
LEMMA HandlersConnect ==
  ASSUME NEW r, Standing(r), LuaDescribes(r), NEW foreign \in ToSet(r.foreigns), NEW left,
         left \in {{}} \cup {{text} : text \in ToSet(Texts(DescribedCallbacks(foreign)))}
  PROVE  Accepts(foreign, ToSet(Texts(DescribedCallbacks(foreign))) \ left) = (left = {})
<1> DEFINE fns == foreign.functions
           all == FlattenSeq([i \in DOMAIN fns |-> Callables("callback", fns[i], fns[i].insts)])
           texts == ToSet(Texts(all))
<1>1. DescribedCallbacks(foreign) = all
  BY DEF DescribedCallbacks
<1>2. IsSlice(fns) /\ \A f \in ToSet(fns) : IsSlice(f.insts)
  BY DEF Standing, IsRegistry, IsForeign, AreFunctions
<1>3. \A f \in ToSet(fns) : f.generics # <<>> => f.insts # <<>>
  <2> SUFFICES ASSUME NEW f \in ToSet(fns), f.generics # <<>> PROVE f.insts # <<>>
    OBVIOUS
  <2> DEFINE described == [f |-> f, insts |-> f.insts]
  <2>1. described \in DescribedFunctions(r)
    BY DEF DescribedFunctions
  <2>2. described.f = f /\ described.insts = f.insts
    OBVIOUS
  <2>3. \A e \in DescribedFunctions(r) : e.f.generics # <<>> => e.insts # <<>>
    BY DEF LuaDescribes
  <2> HIDE DEF described
  <2> QED BY <2>1, <2>2, <2>3
<1>4. IsSlice(all) /\ ToSet(all) = UNION {ToSet(Callables("callback", f, f.insts)) : f \in ToSet(fns)}
  BY <1>2, AllCallables
<1>5. ASSUME NEW f \in ToSet(fns)
      PROVE  AskedOf(f) = {c.text : c \in ToSet(Callables("callback", f, f.insts))} /\ AskedOf(f) # {}
  <2>1. IsSlice(f.insts)
    BY <1>2
  <2>2. ToSet(Callables("callback", f, f.insts)) = CallableSet("callback", f, f.insts)
    BY <2>1, CallablesAre
  <2>3. \A how, text, args : CallableOf(how, "callback", f, text, args).text = text
    BY DEF CallableOf
  <2>4. CASE f.generics # <<>> /\ ~f.dyn
    <3>1. f.insts # <<>>
      BY <1>3, <2>4
    <3>2. Last(f.insts) \in ToSet(f.insts)
      BY <2>1, <3>1, LastIn
    <3>3. CallableSet("callback", f, f.insts)
            = {CallableOf("mangled", "callback", f, LuaMangled(f.name, args), args) : args \in ToSet(f.insts)}
      BY <2>4 DEF CallableSet
    <3>4. AskedOf(f) = {LuaMangled(f.name, args) : args \in ToSet(f.insts)}
      BY <2>4 DEF AskedOf
    <3> QED BY <2>2, <2>3, <3>2, <3>3, <3>4
  <2>5. CASE ~(f.generics # <<>> /\ ~f.dyn)
    <3>1. f.generics = <<>> \/ f.insts # <<>>
      BY <1>3
    <3>2. \E how : CallableSet("callback", f, f.insts)
                     = {CallableOf(how, "callback", f, Spelling[f.name], <<>>)}
      BY <2>5, <3>1 DEF CallableSet
    <3>3. AskedOf(f) = {Spelling[f.name]}
      BY <2>5 DEF AskedOf
    <3> QED BY <2>2, <2>3, <3>2, <3>3
  <2> QED BY <2>4, <2>5
<1> HIDE DEF all
<1>6. texts = {c.text : c \in ToSet(all)}
  BY <1>4, TextsAre
<1>7. texts = UNION {AskedOf(f) : f \in ToSet(fns)}
  BY <1>4, <1>5, <1>6
<1> HIDE DEF texts
<1>8. Accepts(foreign, texts \ left) = (\A f \in ToSet(fns) : AskedOf(f) # {} /\ AskedOf(f) \subseteq texts \ left)
  BY DEF Accepts
<1>9. CASE left = {}
  BY <1>1, <1>5, <1>7, <1>8, <1>9 DEF texts
<1>10. CASE left # {}
  <2>1. PICK t \in texts : left = {t}
    BY <1>1, <1>10 DEF texts
  <2>2. PICK f \in ToSet(fns) : t \in AskedOf(f)
    BY <1>7
  <2>3. ~(\A g \in ToSet(fns) : AskedOf(g) # {} /\ AskedOf(g) \subseteq texts \ left)
    BY <2>1, <2>2
  <2>4. Accepts(foreign, texts \ left) = FALSE
    BY <1>8, <2>3
  <2>5. (left = {}) = FALSE
    BY <1>10
  <2> QED BY <1>1, <2>4, <2>5 DEF texts
<1> QED BY <1>9, <1>10
-----------------------------------------------------------------------------
(* Registries that are built have names with texts. *)

\* LuaNames by what has the names.
LuaNamesOf(structs, enums, aliases, modules) ==
  LET ofStruct(s) == {s.name} \cup NamesIn(s.fields) \cup NamesIn(s.methods)
                     \cup NamesIn(s.constructors) \cup NamesIn(s.properties)
      ofEnum(e) == {e.name} \cup NamesIn(e.variants) \cup NamesIn(e.methods)
      ofModule(m) == {m.name} \cup NamesIn(m.functions) \cup NamesIn(m.constants)
  IN  (UNION {ofStruct(s) : s \in structs}) \cup (UNION {ofEnum(e) : e \in enums})
      \cup {a.name : a \in aliases} \cup UNION {ofModule(m) : m \in modules}

LEMMA LuaNamesAre ==
  ASSUME NEW r, IsSlice(r.aliases)
  PROVE  LuaNames(r) = LuaNamesOf(ToSet(r.structs), ToSet(r.enums), ToSet(r.aliases), ModulesUnder(r.modules))
<1>1. NamesIn(r.aliases) = {a.name : a \in ToSet(r.aliases)}
  BY NamesAre
<1> QED BY <1>1 DEF LuaNames, LuaNamesOf

LEMMA LuaNamesJoin ==
  ASSUME NEW s, NEW e, NEW a, NEW m, NEW ss, NEW ee, NEW aa, NEW mm
  PROVE  LuaNamesOf(s \cup ss, e \cup ee, a \cup aa, m \cup mm)
           = LuaNamesOf(s, e, a, m) \cup LuaNamesOf(ss, ee, aa, mm)
<1> DEFINE ofStruct(x) == {x.name} \cup NamesIn(x.fields) \cup NamesIn(x.methods)
                          \cup NamesIn(x.constructors) \cup NamesIn(x.properties)
           ofEnum(x) == {x.name} \cup NamesIn(x.variants) \cup NamesIn(x.methods)
           ofModule(x) == {x.name} \cup NamesIn(x.functions) \cup NamesIn(x.constants)
<1>1. \A i, j, k, l : LuaNamesOf(i, j, k, l)
        = (UNION {ofStruct(x) : x \in i}) \cup (UNION {ofEnum(x) : x \in j})
          \cup {x.name : x \in k} \cup UNION {ofModule(x) : x \in l}
  BY DEF LuaNamesOf
<1> HIDE DEF ofStruct, ofEnum, ofModule
<1>2. (UNION {ofStruct(x) : x \in s \cup ss}) = (UNION {ofStruct(x) : x \in s}) \cup UNION {ofStruct(x) : x \in ss}
  OBVIOUS
<1>3. (UNION {ofEnum(x) : x \in e \cup ee}) = (UNION {ofEnum(x) : x \in e}) \cup UNION {ofEnum(x) : x \in ee}
  OBVIOUS
<1>4. (UNION {ofModule(x) : x \in m \cup mm}) = (UNION {ofModule(x) : x \in m}) \cup UNION {ofModule(x) : x \in mm}
  OBVIOUS
<1>5. {x.name : x \in a \cup aa} = {x.name : x \in a} \cup {x.name : x \in aa}
  OBVIOUS
<1> QED BY <1>1, <1>2, <1>3, <1>4, <1>5

LEMMA ModulesJoin ==
  ASSUME NEW s, IsSlice(s), NEW e
  PROVE  /\ ModulesUnder(Append(s, e)) = ModulesUnder(s) \cup ModulesUnder(Append(<<>>, e))
         /\ ModulesUnder(<<>>) = {}
<1> DEFINE down(S) == S \cup UNION {ToSet(n.submodules) : n \in S}
<1>1. \A t : ModulesUnder(t) = down(down(down(ToSet(t))))
  BY DEF ModulesUnder, Nested
<1>2. \A S, T : down(S \cup T) = down(S) \cup down(T)
  OBVIOUS
<1>3. down({}) = {}
  OBVIOUS
<1>4. ToSet(Append(s, e)) = ToSet(s) \cup {e} /\ ToSet(Append(<<>>, e)) = {e} /\ ToSet(<<>>) = {}
  BY AppendSlice, SmallSlices
<1> DEFINE under(S) == down(down(down(S)))
<1>5. \A S, T : under(S \cup T) = under(S) \cup under(T)
  <2> SUFFICES ASSUME NEW S, NEW T PROVE under(S \cup T) = under(S) \cup under(T)
    OBVIOUS
  <2> HIDE DEF down
  <2>1. down(S \cup T) = down(S) \cup down(T)
    BY <1>2
  <2>2. down(down(S \cup T)) = down(down(S)) \cup down(down(T))
    BY <1>2, <2>1
  <2>3. down(down(down(S \cup T))) = down(down(down(S))) \cup down(down(down(T)))
    BY <1>2, <2>2
  <2> QED BY <2>3
<1>6. under({}) = {}
  BY <1>3
<1> HIDE DEF under
<1>7. \A t : ModulesUnder(t) = under(ToSet(t))
  BY <1>1 DEF under
<1> DEFINE a == Append(s, e)
           b == Append(<<>>, e)
<1>8. ToSet(a) = ToSet(s) \cup ToSet(b) /\ ToSet(<<>>) = {}
  BY <1>4
<1> HIDE DEF a, b, down
<1>9. ModulesUnder(a) = ModulesUnder(s) \cup ModulesUnder(b) /\ ModulesUnder(<<>>) = {}
  BY <1>5, <1>6, <1>7, <1>8
<1> QED BY <1>9 DEF a, b

\* A declaration adds the names that it has by itself.
LEMMA NamesRegistered ==
  ASSUME NEW r, IsRegistry(r), NEW d, IsDeclaration(d)
  PROVE  LuaNames(Register(r, d)) = LuaNames(r) \cup LuaNames(Register(Empty, d))
<1> DEFINE names(t) == LuaNamesOf(ToSet(t.structs), ToSet(t.enums), ToSet(t.aliases), ModulesUnder(t.modules))
           new == Register(r, d)
           alone == Register(Empty, d)
           Joined(f) == /\ ToSet(new[f]) = ToSet(r[f]) \cup ToSet(alone[f])
                        /\ IsSlice(new[f]) /\ IsSlice(alone[f])
           JoinedModules == ModulesUnder(new.modules) = ModulesUnder(r.modules) \cup ModulesUnder(alone.modules)
<1>1. /\ IsSlice(r.structs) /\ IsSlice(r.enums) /\ IsSlice(r.aliases) /\ IsSlice(r.modules)
      /\ DOMAIN r = {"structs", "enums", "aliases", "foreigns", "modules", "insts"}
  BY DEF IsRegistry
<1>2. /\ Empty.structs = <<>> /\ Empty.enums = <<>> /\ Empty.aliases = <<>> /\ Empty.modules = <<>>
      /\ DOMAIN Empty = {"structs", "enums", "aliases", "foreigns", "modules", "insts"}
  BY DEF Empty
<1>3. ASSUME NEW f \in {"structs", "enums", "aliases", "modules"},
             \/ new[f] = r[f] /\ alone[f] = <<>>
             \/ new[f] = Append(r[f], d.desc) /\ alone[f] = Append(<<>>, d.desc)
      PROVE  Joined(f)
  <2>1. IsSlice(r[f])
    BY <1>1
  <2> HIDE DEF new, alone
  <2>2. CASE new[f] = r[f] /\ alone[f] = <<>>
    BY <2>1, <2>2, SmallSlices
  <2>3. CASE new[f] = Append(r[f], d.desc) /\ alone[f] = Append(<<>>, d.desc)
    <3>1. ToSet(new[f]) = ToSet(r[f]) \cup {d.desc} /\ ToSet(alone[f]) = {} \cup {d.desc}
          /\ IsSlice(new[f]) /\ IsSlice(alone[f])
      BY <2>1, <2>3, AppendSlice, SmallSlices
    <3> QED BY <3>1
  <2> QED BY <1>3, <2>2, <2>3
<1>4. \A f \in {"structs", "enums", "aliases", "modules"} :
        \/ new[f] = r[f] /\ alone[f] = <<>>
        \/ new[f] = Append(r[f], d.desc) /\ alone[f] = Append(<<>>, d.desc)
  <2>1. CASE d.sort = "struct"
    BY <1>1, <1>2, <2>1 DEF Register
  <2>2. CASE d.sort = "enum"
    BY <1>1, <1>2, <2>2 DEF Register
  <2>3. CASE d.sort = "alias"
    BY <1>1, <1>2, <2>3 DEF Register
  <2>4. CASE d.sort = "foreign"
    BY <1>1, <1>2, <2>4 DEF Register
  <2>5. CASE d.sort = "module"
    BY <1>1, <1>2, <2>5 DEF Register
  <2>6. CASE d.sort = "inst"
    BY <1>1, <1>2, <2>6 DEF Register
  <2> QED BY <2>1, <2>2, <2>3, <2>4, <2>5, <2>6 DEF IsDeclaration
<1>5. Joined("structs") /\ Joined("enums") /\ Joined("aliases")
  BY <1>3, <1>4
<1>6. JoinedModules
  <2>1. \/ new.modules = r.modules /\ alone.modules = <<>>
        \/ new.modules = Append(r.modules, d.desc) /\ alone.modules = Append(<<>>, d.desc)
    BY <1>4
  <2> HIDE DEF new, alone
  <2> DEFINE old == r.modules
             one == Append(<<>>, d.desc)
             more == Append(old, d.desc)
  <2>2. ModulesUnder(more) = ModulesUnder(old) \cup ModulesUnder(one) /\ ModulesUnder(<<>>) = {}
    BY <1>1, ModulesJoin
  <2>3. CASE new.modules = old /\ alone.modules = <<>>
    BY <2>2, <2>3
  <2>4. CASE new.modules = more /\ alone.modules = one
    BY <2>2, <2>4
  <2> QED BY <2>1, <2>3, <2>4
<1> HIDE DEF new, alone
<1>7. LuaNames(new) = names(new) /\ LuaNames(alone) = names(alone) /\ LuaNames(r) = names(r)
  BY <1>1, <1>5, LuaNamesAre
<1>8. names(new) = names(r) \cup names(alone)
  BY <1>5, <1>6, LuaNamesJoin
<1> QED BY <1>7, <1>8 DEF new, alone
-----------------------------------------------------------------------------
(* The inductive invariant: what ScriptsSeeDeclared says of tables holds     *)
(* whether the registry can be described or not.                             *)

Begun ==
  /\ LuaNames(reg) \subseteq DOMAIN Spelling
  /\ tables = NoTables => bound = {} /\ objects = {}
  /\ tables # NoTables \/ handlers # {} => status = "validated"
  /\ tables # NoTables => <<ErrorInfo>> \in DOMAIN tables

SlotsKept ==
  \A x \in Modules : \A s \in DescribedSlots(reg, x) : Replaced(s.place) \/ Found(s.place, s.member)

FunctionsKept ==
  \A x \in Modules : \A f \in ToSet(x.module.functions) :
    IsBound(FnPlace(x, f), Nobody) => Replaced(x.path) \/ FunctionsFound(x, f)

TypesKept ==
  \A x \in Modules : \A id \in ToSet(x.module.types) : \A owner \in Instantiations(id) :
    IsBound(TablePlace(reg, x, id), owner) => Replaced(TablePlace(reg, x, id)) \/ TypeFound(x, id)

\* An object's type was bound; a callbacks table was answered as foreign_caller does.
ObjectsKept ==
  \A owner \in objects : /\ owner.id \in Ids(reg.structs) \cup Ids(reg.enums)
                         /\ TypeBinds(Bindable(reg, owner.id))

HandlersKept ==
  \A h \in handlers : \E foreign \in ToSet(reg.foreigns) :
    LET texts == ToSet(Texts(DescribedCallbacks(foreign)))
    IN  /\ h.left \in {{}} \cup {{text} : text \in texts}
        /\ h.connected = Accepts(foreign, texts \ h.left)

LuaInv == Begun /\ SlotsKept /\ FunctionsKept /\ TypesKept /\ ObjectsKept /\ HandlersKept

\* Once there are tables or callbacks, the registry is a valid one.
LEMMA HasStanding ==
  ASSUME IInv, LuaInv, status = "validated" PROVE Standing(reg)
BY DEF IInv, TypeOK, Settled, LuaInv, Begun, Standing

\* What is installed in tables that `bind` made leaves tables.
LEMMA StillTables ==
  ASSUME <<ErrorInfo>> \in DOMAIN tables PROVE tables # NoTables
BY DEF NoTables

\* A binding adds to what was bound, and to what is replaced.
Adds == /\ tables # NoTables /\ tables' # NoTables
        /\ reg' = reg
        /\ bound \subseteq bound'

LEMMA SameModules ==
  ASSUME Adds
  PROVE  /\ Modules' = Modules /\ Modules = LuaModules(reg)
         /\ \A id : Instantiations(id)' = Instantiations(id)
BY DEF Adds, Modules, Instantiations

LEMMA StaysBound ==
  ASSUME Adds, NEW place, NEW owner, IsBound(place, owner) PROVE IsBound(place, owner)'
BY DEF Adds, IsBound

LEMMA StaysReplaced ==
  ASSUME Adds, NEW place, Replaced(place) PROVE Replaced(place)'
<1>1. CASE place[1] = ErrorInfo
  BY <1>1 DEF Replaced
<1>2. CASE \E x \in Modules : \E f \in ToSet(x.module.functions) : \E c \in OwnCallables(f) :
             LET taken == Append(x.path, c.text) IN
             /\ IsBound(FnPlace(x, f), Nobody)
             /\ c.how = "mangled"
             /\ AtOrBeneath(place, taken)
  <2>1. PICK x \in Modules : \E f \in ToSet(x.module.functions) : \E c \in OwnCallables(f) :
             LET taken == Append(x.path, c.text) IN
             /\ IsBound(FnPlace(x, f), Nobody)
             /\ c.how = "mangled"
             /\ AtOrBeneath(place, taken)
    BY <1>2
  <2>2. PICK f \in ToSet(x.module.functions) : \E c \in OwnCallables(f) :
             /\ IsBound(FnPlace(x, f), Nobody)
             /\ c.how = "mangled"
             /\ AtOrBeneath(place, Append(x.path, c.text))
    BY <2>1
  <2>3. IsBound(FnPlace(x, f), Nobody)' /\ x \in Modules'
    BY <2>2, StaysBound, SameModules
  <2> QED BY <2>2, <2>3 DEF Replaced
<1>3. CASE \E x \in Modules : \E id \in ToSet(x.module.types) \cap Ids(reg.enums) :
             \E owner \in Instantiations(id) : \E c \in ToSet(TableCallables(Bindable(reg, id))) :
               /\ IsBound(TablePlace(reg, x, id), owner)
               /\ place = Append(TablePlace(reg, x, id), c.text)
  <2>1. PICK x \in Modules : \E id \in ToSet(x.module.types) \cap Ids(reg.enums) :
             \E owner \in Instantiations(id) : \E c \in ToSet(TableCallables(Bindable(reg, id))) :
               /\ IsBound(TablePlace(reg, x, id), owner)
               /\ place = Append(TablePlace(reg, x, id), c.text)
    BY <1>3
  <2>2. PICK id \in ToSet(x.module.types) \cap Ids(reg.enums) :
             \E owner \in Instantiations(id) : \E c \in ToSet(TableCallables(Bindable(reg, id))) :
               /\ IsBound(TablePlace(reg, x, id), owner)
               /\ place = Append(TablePlace(reg, x, id), c.text)
    BY <2>1
  <2>3. PICK owner \in Instantiations(id), c \in ToSet(TableCallables(Bindable(reg, id))) :
               /\ IsBound(TablePlace(reg, x, id), owner)
               /\ place = Append(TablePlace(reg, x, id), c.text)
    BY <2>2
  <2> DEFINE table == TablePlace(reg, x, id)
             d == Bindable(reg, id)
  <2>4. /\ Binding(table, owner) \in bound' /\ x \in Modules' /\ owner \in Instantiations(id)'
        /\ id \in ToSet(x.module.types) \cap Ids(reg'.enums)
        /\ table' = table /\ d' = d /\ c \in ToSet(TableCallables(d)) /\ place = Append(table, c.text)
    BY <2>3, SameModules DEF Adds, IsBound
  <2>5. \E u \in Modules' : \E i \in ToSet(u.module.types) \cap Ids(reg'.enums) :
          \E o \in Instantiations(i)' : \E e \in ToSet(TableCallables(Bindable(reg', i))) :
            /\ Binding(TablePlace(reg', u, i), o) \in bound'
            /\ place = Append(TablePlace(reg', u, i), e.text)
    BY <2>4
  <2> QED BY <2>5 DEF Replaced, IsBound
<1> QED BY <1>1, <1>2, <1>3 DEF Replaced

\* What is in a table stays there if nothing is installed at it or above it.
StaysAt(place) == place \in DOMAIN tables' /\ tables'[place] = tables[place]

LEMMA StaysFound ==
  ASSUME NEW place, NEW member, Found(place, member), StaysAt(place)
  PROVE  Found(place, member)'
BY DEF Found, StaysAt
LEMMA ErrorInfoStays ==
  ASSUME NEW e, NEW above, IsSlice(above), above # <<>>, NEW t
  PROVE  ~AtOrBeneath(<<e>>, Append(above, t))
<1> SUFFICES ASSUME AtOrBeneath(<<e>>, Append(above, t)) PROVE FALSE
  OBVIOUS
<1> DEFINE p == <<e>>
<1>1. IsSlice(p) /\ Len(p) = 1
  BY SmallSlices
<1> HIDE DEF p
<1>2. Len(above) < Len(p)
  BY <1>1, BeneathTable DEF Beneath, p
<1>3. Len(above) \in Nat /\ Len(above) > 0
  BY DEF IsSlice
<1> QED BY <1>1, <1>2, <1>3

-----------------------------------------------------------------------------
(* A function is bound. *)

LEMMA FnStep ==
  ASSUME IInv, LuaInv, NEW y \in Modules, NEW g \in ToSet(y.module.functions), BindFn(y, g)
  PROVE  /\ Standing(reg) /\ Adds /\ y \in LuaModules(reg)
         /\ bound' = bound \cup {Binding(FnPlace(y, g), Nobody)}
         /\ \A c \in OwnCallables(g) : Found(Append(y.path, c.text), c.member)'
         /\ \A p \in DOMAIN tables :
              (\A c \in OwnCallables(g) : ~AtOrBeneath(p, Append(y.path, c.text))) => StaysAt(p)
         /\ <<ErrorInfo>> \in DOMAIN tables'
<1>1. tables # NoTables /\ y \in LuaModules(reg)
  BY DEF Modules
<1>2. Standing(reg) /\ <<ErrorInfo>> \in DOMAIN tables
  BY <1>1, HasStanding DEF LuaInv, Begun
<1> DEFINE new == Installed(tables, FnSlots(y, g))
<1>3. tables' = new /\ bound' = bound \cup {Binding(FnPlace(y, g), Nobody)} /\ reg' = reg /\ FnBinds(g)
  BY DEF BindFn, vars
<1>4. /\ \A c \in OwnCallables(g) : /\ Append(y.path, c.text) \in DOMAIN new
                                    /\ new[Append(y.path, c.text)].member = c.member
      /\ \A p \in DOMAIN tables :
              (\A c \in OwnCallables(g) : ~AtOrBeneath(p, Append(y.path, c.text)))
                => p \in DOMAIN new /\ new[p] = tables[p]
  BY <1>1, <1>2, <1>3, FunctionInstalled
<1> HIDE DEF new
<1>5. \A c \in OwnCallables(g) : Found(Append(y.path, c.text), c.member)'
  BY <1>3, <1>4 DEF Found
<1>6. \A p \in DOMAIN tables :
        (\A c \in OwnCallables(g) : ~AtOrBeneath(p, Append(y.path, c.text))) => StaysAt(p)
  BY <1>3, <1>4 DEF StaysAt
<1>7. IsSlice(y.path) /\ y.path # <<>>
  BY <1>1, <1>2, ModuleIs
<1>8. <<ErrorInfo>> \in DOMAIN tables'
  BY <1>2, <1>6, <1>7, ErrorInfoStays DEF StaysAt
<1>9. Adds
  BY <1>1, <1>3, <1>8 DEF Adds, NoTables
<1> QED BY <1>1, <1>2, <1>3, <1>5, <1>6, <1>8, <1>9

\* What a function's binding hits is replaced, as far as monomorphs go; the
\* function's own name hits what it was declared for.
LEMMA FnHits ==
  ASSUME IInv, LuaInv, NEW y \in Modules, NEW g \in ToSet(y.module.functions), BindFn(y, g),
         NEW c \in OwnCallables(g), NEW p, AtOrBeneath(p, Append(y.path, c.text))
  PROVE  \/ Replaced(p)'
         \/ c.text = Spelling[g.name] /\ Spelling[g.name] \notin SubTexts(y.module)
            /\ y.module \in ModulesUnder(reg.modules) /\ Holds(reg, y.module, "stub", g.name)
<1>1. Standing(reg) /\ Adds /\ y \in LuaModules(reg) /\ bound' = bound \cup {Binding(FnPlace(y, g), Nobody)}
  BY FnStep
<1>2. IsSlice(g.insts)
  BY <1>1, ModuleIs, NamesApart DEF IsModule, AreFunctions
<1>3. c.text = Spelling[g.name] \/ c.how = "mangled"
  BY <1>2, CallableIs DEF OwnCallables
<1>4. CASE c.how = "mangled"
  <2>1. y \in Modules' /\ Binding(FnPlace(y, g), Nobody) \in bound'
    BY <1>1, SameModules
  <2> QED BY <1>4, <2>1 DEF Replaced, IsBound
<1>5. CASE c.text = Spelling[g.name]
  BY <1>1, <1>5, ModuleIs, FnPlaceIs
<1> QED BY <1>3, <1>4, <1>5

\* Hit by one of what a binding installs, or not.
LEMMA FnLeaves ==
  ASSUME IInv, LuaInv, NEW y \in Modules, NEW g \in ToSet(y.module.functions), BindFn(y, g),
         NEW p, NEW member, Found(p, member),
         \A c \in OwnCallables(g) : ~AtOrBeneath(p, Append(y.path, c.text))
  PROVE  Found(p, member)' /\ StaysAt(p)
BY FnStep, StaysFound DEF Found

LEMMA FnKeepsSlots ==
  ASSUME IInv, LuaInv, NEW y \in Modules, NEW g \in ToSet(y.module.functions), BindFn(y, g)
  PROVE  SlotsKept'
<1>1. Standing(reg) /\ Adds /\ y \in LuaModules(reg) /\ reg' = reg
  BY FnStep DEF Adds
<1>2. Modules' = Modules /\ Modules = LuaModules(reg)
  BY <1>1, SameModules
<1> SUFFICES ASSUME NEW x \in Modules, NEW s \in DescribedSlots(reg, x), ~Replaced(s.place)'
             PROVE  Found(s.place, s.member)'
  BY <1>1, <1>2 DEF SlotsKept
<1>3. x \in LuaModules(reg) /\ s \in ModuleSlots(reg, x) /\ s.member.what # "stub"
  BY <1>2 DEF DescribedSlots
<1>4. Found(s.place, s.member)
  <2>1. ~Replaced(s.place)
    BY <1>1, StaysReplaced
  <2> QED BY <2>1 DEF LuaInv, SlotsKept
<1>5. ASSUME NEW c \in OwnCallables(g), AtOrBeneath(s.place, Append(y.path, c.text)) PROVE FALSE
  <2> DEFINE t == Spelling[g.name]
  <2>1. c.text = t /\ t \notin SubTexts(y.module)
        /\ y.module \in ModulesUnder(reg.modules) /\ Holds(reg, y.module, "stub", g.name)
    BY <1>5, FnHits
  <2>2. AtOrBeneath(s.place, Append(y.path, t))
    BY <1>5, <2>1
  <2>3. \A what, name : Holds(reg, y.module, what, name) /\ Spelling[name] = t => what = "stub"
    BY <1>1, <2>1, HeldApart
  <2> HIDE DEF t
  <2>4. CASE s.place = x.path
    BY <1>1, <1>3, <2>1, <2>2, <2>4, NoModuleAt
  <2>5. ASSUME NEW name, Holds(reg, x.module, s.member.what, name), s.place = Append(x.path, Spelling[name])
        PROVE  FALSE
    <3> DEFINE n == Spelling[name]
    <3>1. AtOrBeneath(Append(x.path, n), Append(y.path, t))
      BY <2>2, <2>5
    <3> HIDE DEF n
    <3>2. x = y /\ n = t
      BY <1>1, <1>3, <2>1, <3>1, MeetsInModule
    <3> QED BY <1>3, <2>3, <2>5, <3>2 DEF n
  <2>6. ASSUME NEW id \in ToSet(x.module.types), NEW v, s.place = Append(TablePlace(reg, x, id), v)
        PROVE  FALSE
    <3> DEFINE n == Spelling[TypeOf(reg, id).name]
    <3>1. Holds(reg, x.module, "type", TypeOf(reg, id).name) /\ n \notin SubTexts(x.module)
          /\ TablePlace(reg, x, id) = Append(x.path, n)
      BY <1>1, <1>3, <2>6, TablePlaceIs
    <3>2. AtOrBeneath(Append(Append(x.path, n), v), Append(y.path, t))
      BY <2>2, <2>6, <3>1
    <3> HIDE DEF n
    <3>3. Standing(reg) /\ x \in LuaModules(reg) /\ y \in LuaModules(reg)
          /\ n \notin SubTexts(x.module) /\ t \notin SubTexts(y.module)
      BY <1>1, <1>3, <2>1, <3>1
    <3>4. x = y /\ n = t
      BY <3>2, <3>3, MeetsOnTable
    <3> QED BY <2>3, <3>1, <3>4 DEF n
  <2>7. CASE \E name : /\ Holds(reg, x.module, s.member.what, name)
                       /\ s.place = Append(x.path, Spelling[name])
    BY <2>5, <2>7
  <2>8. CASE \E id \in ToSet(x.module.types) \cap Ids(reg.enums) : \E v \in ToSet(TypeOf(reg, id).variants) :
               s.place = Append(TablePlace(reg, x, id), Spelling[v.name])
    BY <2>6, <2>8
  <2> QED BY <1>3, <2>4, <2>7, <2>8, SlotPlaces
<1> QED BY <1>4, <1>5, FnLeaves
LEMMA FnKeepsFunctions ==
  ASSUME IInv, LuaInv, NEW y \in Modules, NEW g \in ToSet(y.module.functions), BindFn(y, g)
  PROVE  FunctionsKept'
<1>1. /\ Standing(reg) /\ Adds /\ y \in LuaModules(reg) /\ reg' = reg
      /\ bound' = bound \cup {Binding(FnPlace(y, g), Nobody)}
      /\ \A c \in OwnCallables(g) : Found(Append(y.path, c.text), c.member)'
  BY FnStep DEF Adds
<1>2. Modules' = Modules /\ Modules = LuaModules(reg)
  BY <1>1, SameModules
<1> SUFFICES ASSUME NEW x \in Modules, NEW f \in ToSet(x.module.functions),
                    Binding(FnPlace(x, f), Nobody) \in bound', ~Replaced(x.path)'
             PROVE  FunctionsFound(x, f)'
  BY <1>1, <1>2 DEF FunctionsKept, IsBound
<1>3. x \in LuaModules(reg) /\ Standing(reg) /\ y \in LuaModules(reg)
  BY <1>1, <1>2
<1> SUFFICES ASSUME NEW c \in ToSet(DescribedCallables(x, f)), c \in OwnCallables(f),
                    \A h \in ToSet(x.module.functions) \ {f} :
                      Binding(FnPlace(x, h), Nobody) \in bound' => \A o \in OwnCallables(h) : o.text # c.text
             PROVE  Found(Append(x.path, c.text), c.member)'
  BY DEF FunctionsFound, IsBound
<1>4. CASE x = y /\ f = g
  BY <1>1, <1>4
<1>5. CASE ~(x = y /\ f = g)
  <2>1. FnPlace(x, f) # FnPlace(y, g)
    <3> SUFFICES ASSUME FnPlace(x, f) = FnPlace(y, g) PROVE FALSE
      OBVIOUS
    <3>1. x = y /\ Spelling[f.name] = Spelling[g.name]
      BY <1>3, SamePlace DEF FnPlace
    <3>2. f.name = g.name
      BY <1>3, <3>1, FnPlaceIs, SpelledApart
    <3> QED BY <1>3, <1>5, <3>1, <3>2, ModuleIs, NamesApart
  <2>2. Binding(FnPlace(x, f), Nobody) \in bound
    <3>1. Binding(FnPlace(x, f), Nobody) # Binding(FnPlace(y, g), Nobody)
      BY <2>1 DEF Binding
    <3> QED BY <1>1, <3>1
  <2>3. FunctionsFound(x, f)
    <3>1. ~Replaced(x.path)
      BY <1>1, StaysReplaced
    <3> QED BY <2>2, <3>1 DEF LuaInv, FunctionsKept, IsBound
  <2>4. Found(Append(x.path, c.text), c.member)
    <3>1. bound \subseteq bound'
      BY <1>1
    <3> QED BY <2>3, <3>1 DEF FunctionsFound, IsBound
  <2>5. Binding(FnPlace(y, g), Nobody) \in bound'
    BY <1>1
  <2>6. ASSUME NEW e \in OwnCallables(g), AtOrBeneath(Append(x.path, c.text), Append(y.path, e.text))
        PROVE  FALSE
    <3> DEFINE n == c.text
               t == e.text
    <3>1. IsSlice(x.path) /\ IsSlice(Append(y.path, t))
      BY <1>3, ModuleIs, AppendPlace
    <3>2. x = y => n # t
      BY <1>5, <2>5, <2>6
    <3>3. ASSUME AtOrBeneath(x.path, Append(y.path, t)) PROVE FALSE
      <4>1. \/ Replaced(x.path)'
            \/ t = Spelling[g.name] /\ Spelling[g.name] \notin SubTexts(y.module)
        BY <3>3, FnHits
      <4>2. t \notin SubTexts(y.module)
        BY <4>1
      <4> HIDE DEF t
      <4> QED BY <1>3, <3>3, <4>2, NoModuleAt
    <3>4. AtOrBeneath(Append(x.path, n), Append(y.path, t))
      BY <2>6
    <3> HIDE DEF n, t
    <3>5. Append(x.path, n) = Append(y.path, t)
      BY <3>1, <3>3, <3>4, InTable
    <3>6. x = y /\ n = t
      BY <1>3, <3>5, SamePlace
    <3> QED BY <3>2, <3>6
  <2> QED BY <2>4, <2>6, FnLeaves
<1> QED BY <1>4, <1>5

\* What is to be shown of a type's table.
LEMMA TypesKeptBy ==
  ASSUME Adds,
         \A x \in Modules : \A id \in ToSet(x.module.types) : \A owner \in Instantiations(id) : \A place :
           (place = TablePlace(reg, x, id) /\ Binding(place, owner) \in bound' /\ ~Replaced(place)')
             => \A c \in ToSet(DescribedTable(reg, id)) :
                  /\ Found(Append(place, c.text), c.member)'
                  /\ Binding(place, tables'[Append(place, c.text)].owner) \in bound'
  PROVE  TypesKept'
<1>1. reg' = reg /\ Modules' = Modules /\ \A id : Instantiations(id)' = Instantiations(id)
  BY SameModules DEF Adds
<1> SUFFICES ASSUME NEW x \in Modules, NEW id \in ToSet(x.module.types), NEW owner \in Instantiations(id),
                    IsBound(TablePlace(reg, x, id), owner)', ~Replaced(TablePlace(reg, x, id))'
             PROVE  TypeFound(x, id)'
  BY <1>1 DEF TypesKept
<1>2. PICK place : place = TablePlace(reg, x, id)
  OBVIOUS
<1>3. TablePlace(reg', x, id) = place
  BY <1>1, <1>2
<1>4. Binding(place, owner) \in bound'
  BY <1>3 DEF IsBound
<1>5. Replaced(place)' => Replaced(TablePlace(reg, x, id))'
  BY <1>3 DEF Replaced
<1>6. \A c \in ToSet(DescribedTable(reg', id)) :
        /\ Found(Append(place, c.text), c.member)'
        /\ Binding(place, tables'[Append(place, c.text)].owner) \in bound'
  BY <1>1, <1>2, <1>4, <1>5
<1> QED BY <1>3, <1>6 DEF TypeFound, IsBound, Found

LEMMA FnKeepsTypes ==
  ASSUME IInv, LuaInv, NEW y \in Modules, NEW g \in ToSet(y.module.functions), BindFn(y, g)
  PROVE  TypesKept'
<1>1. /\ Standing(reg) /\ Adds /\ y \in LuaModules(reg) /\ reg' = reg
      /\ bound' = bound \cup {Binding(FnPlace(y, g), Nobody)}
  BY FnStep DEF Adds
<1>2. Modules' = Modules /\ Modules = LuaModules(reg)
      /\ \A i : Instantiations(i)' = Instantiations(i)
  BY <1>1, SameModules
<1> SUFFICES ASSUME NEW x \in Modules, NEW id \in ToSet(x.module.types), NEW owner \in Instantiations(id),
                    NEW place, place = TablePlace(reg, x, id),
                    Binding(place, owner) \in bound', ~Replaced(place)'
             PROVE  \A c \in ToSet(DescribedTable(reg, id)) :
                      /\ Found(Append(place, c.text), c.member)'
                      /\ Binding(place, tables'[Append(place, c.text)].owner) \in bound'
  BY <1>1, TypesKeptBy
<1>3. x \in LuaModules(reg) /\ Standing(reg) /\ y \in LuaModules(reg)
  BY <1>1, <1>2
<1> DEFINE n == Spelling[TypeOf(reg, id).name]
           t == Spelling[g.name]
<1>4. /\ Holds(reg, x.module, "type", TypeOf(reg, id).name) /\ n \notin SubTexts(x.module)
      /\ place = Append(x.path, n) /\ IsSlice(place)
  BY <1>3, TablePlaceIs, TablePlaceIsSlice
<1>5. /\ Holds(reg, y.module, "stub", g.name) /\ t \notin SubTexts(y.module)
      /\ FnPlace(y, g) = Append(y.path, t) /\ y.module \in ModulesUnder(reg.modules)
  BY <1>3, FnPlaceIs, ModuleIs
<1>6. ~(x = y /\ n = t)
  <2>1. \A other, o : Holds(reg, y.module, other, o) /\ Spelling[o] = t => other = "stub"
    BY <1>3, <1>5, HeldApart
  <2> QED BY <1>4, <2>1
<1> HIDE DEF n, t
<1>7. Binding(place, owner) \in bound
  <2>1. place # FnPlace(y, g)
    BY <1>3, <1>4, <1>5, <1>6, SamePlace
  <2>2. Binding(place, owner) # Binding(FnPlace(y, g), Nobody)
    BY <2>1 DEF Binding
  <2> QED BY <1>1, <2>2
<1>8. TypeFound(x, id)
  <2>1. ~Replaced(place)
    BY <1>1, StaysReplaced
  <2> QED BY <1>7, <2>1 DEF LuaInv, TypesKept, IsBound
<1>9. \A c \in ToSet(DescribedTable(reg, id)) :
        /\ Found(Append(place, c.text), c.member)
        /\ Binding(place, tables[Append(place, c.text)].owner) \in bound
  BY <1>8 DEF TypeFound, IsBound
<1>10. ASSUME NEW v, NEW e \in OwnCallables(g), AtOrBeneath(Append(place, v), Append(y.path, e.text))
       PROVE  FALSE
  <2> DEFINE s == e.text
  <2>1. IsSlice(y.path) /\ IsSlice(Append(y.path, s))
    BY <1>3, ModuleIs, AppendPlace
  <2>2. AtOrBeneath(Append(place, v), Append(y.path, s))
    BY <1>10
  <2>3. Append(place, v) = Append(y.path, s) \/ AtOrBeneath(place, Append(y.path, s))
    <3> HIDE DEF s
    <3> QED BY <1>4, <2>1, <2>2, InTable
  <2>4. Append(place, v) # Append(y.path, s)
    <3> SUFFICES ASSUME Append(place, v) = Append(y.path, s) PROVE FALSE
      OBVIOUS
    <3> DEFINE q == y.path
    <3>1. IsSlice(q) /\ IsSlice(place) /\ Append(place, v) = Append(q, s)
      BY <1>4, <2>1
    <3> HIDE DEF q, s
    <3>2. place = q
      BY <3>1, AppendApart
    <3>3. AtOrBeneath(y.path, Append(x.path, n))
      BY <1>4, <3>2 DEF AtOrBeneath, q
    <3> QED BY <1>3, <1>4, <3>3, NoModuleAt
  <2>5. AtOrBeneath(place, Append(y.path, s))
    BY <2>3, <2>4
  <2>6. Replaced(place)' \/ s = t
    BY <2>5, FnHits DEF t
  <2>7. AtOrBeneath(Append(x.path, n), Append(y.path, t))
    BY <1>4, <2>5, <2>6
  <2>8. x = y /\ n = t
    BY <1>3, <1>5, <2>7, MeetsInModule
  <2> QED BY <1>6, <2>8
<1>11. \A c \in ToSet(DescribedTable(reg, id)) :
         Found(Append(place, c.text), c.member)' /\ StaysAt(Append(place, c.text))
  BY <1>9, <1>10, FnLeaves
<1> QED BY <1>1, <1>9, <1>11 DEF StaysAt
LEMMA FnKeeps ==
  ASSUME IInv, LuaInv, NEW y \in Modules, NEW g \in ToSet(y.module.functions), BindFn(y, g)
  PROVE  LuaInv'
<1>1. /\ reg' = reg /\ status' = status /\ objects' = objects /\ handlers' = handlers
      /\ tables # NoTables /\ tables' # NoTables /\ <<ErrorInfo>> \in DOMAIN tables'
  BY FnStep DEF Adds, BindFn, vars
<1>2. Begun'
  BY <1>1 DEF LuaInv, Begun
<1>3. ObjectsKept'
  BY <1>1 DEF LuaInv, ObjectsKept
<1>4. HandlersKept'
  BY <1>1 DEF LuaInv, HandlersKept
<1> QED BY <1>2, <1>3, <1>4, FnKeepsSlots, FnKeepsFunctions, FnKeepsTypes DEF LuaInv

-----------------------------------------------------------------------------
(* A type is bound. *)

TextsOn(id) == {<<>>} \cup {c.text : c \in ToSet(TableCallables(Bindable(reg, id)))}

LEMMA TypeStep ==
  ASSUME IInv, LuaInv, NEW y \in Modules, NEW id \in ToSet(y.module.types), NEW owner \in Instantiations(id),
         BindType(y, owner), NEW place, place = TablePlace(reg, y, id)
  PROVE  /\ Standing(reg) /\ Adds /\ y \in LuaModules(reg) /\ owner.id = id
         /\ id \in Ids(reg.structs) \cup Ids(reg.enums) /\ TypeBinds(Bindable(reg, id))
         /\ bound' = bound \cup {Binding(place, owner)} /\ objects' = objects \cup {owner}
         /\ \A c \in ToSet(TableCallables(Bindable(reg, id))) :
              /\ Append(place, c.text) \in DOMAIN tables'
              /\ tables'[Append(place, c.text)] = At(Append(place, c.text), c.member, owner)
         /\ \A p \in DOMAIN tables :
              (\A t \in TextsOn(id) : ~AtOrBeneath(p, Append(place, t))) => StaysAt(p)
         /\ <<ErrorInfo>> \in DOMAIN tables'
<1>1. tables # NoTables /\ y \in LuaModules(reg)
  BY DEF Modules
<1>2. Standing(reg) /\ <<ErrorInfo>> \in DOMAIN tables
  BY <1>1, HasStanding DEF LuaInv, Begun
<1>3. owner.id = id /\ id \notin Ids(reg.aliases)
  BY DEF Instantiations, Owner
<1>4. id \in Ids(reg.structs) \cup Ids(reg.enums)
  <2>1. id \in Known(reg) /\ IsRegistry(reg) /\ UniqueTypes(reg)
    BY <1>1, <1>2, TablePlaceIs DEF Standing, Validates
  <2> QED BY <1>3, <2>1, IdsApart DEF Known
<1> DEFINE d == Bindable(reg, id)
           all == ToSet(TableCallables(d))
           new == Installed(tables, TypeTableSlots(tables, place, d, owner))
<1>5. /\ tables' = new /\ bound' = bound \cup {Binding(place, owner)} /\ objects' = objects \cup {owner}
      /\ reg' = reg /\ TypeBinds(d)
  BY <1>3 DEF BindType, vars
<1>6. IsBindable(d) /\ TableNamesDiffer(d) /\ IsSlice(place) /\ place # <<>>
  <2>1. IsBindable(d) /\ TableNamesDiffer(d)
    BY <1>2, <1>4, <1>5, BindableIs DEF TypeBinds
  <2>2. IsSlice(place)
    BY <1>1, <1>2, TablePlaceIsSlice
  <2>3. place = Append(y.path, Spelling[TypeOf(reg, id).name]) /\ IsSlice(y.path)
    BY <1>1, <1>2, TablePlaceIs, ModuleIs
  <2>4. place # <<>>
    BY <2>3, AppendPlace
  <2> QED BY <2>1, <2>2, <2>4
<1>7. /\ \A c \in all : /\ Append(place, c.text) \in DOMAIN new
                        /\ new[Append(place, c.text)] = At(Append(place, c.text), c.member, owner)
      /\ \A p \in DOMAIN tables :
           (/\ ~AtOrBeneath(p, Append(place, <<>>))
            /\ \A c \in all : ~AtOrBeneath(p, Append(place, c.text)))
             => p \in DOMAIN new /\ new[p] = tables[p]
  BY <1>6, TableInstalled
<1> HIDE DEF new
<1>8. \A p \in DOMAIN tables :
        (\A t \in TextsOn(id) : ~AtOrBeneath(p, Append(place, t))) => StaysAt(p)
  BY <1>5, <1>7 DEF StaysAt, TextsOn
<1>9. <<ErrorInfo>> \in DOMAIN tables'
  BY <1>2, <1>6, <1>8, ErrorInfoStays DEF StaysAt
<1>10. Adds
  BY <1>1, <1>5, <1>9 DEF Adds, NoTables
<1> QED BY <1>1, <1>2, <1>3, <1>4, <1>5, <1>7, <1>8, <1>9, <1>10

LEMMA TypeLeaves ==
  ASSUME IInv, LuaInv, NEW y \in Modules, NEW id \in ToSet(y.module.types), NEW owner \in Instantiations(id),
         BindType(y, owner), NEW p, NEW member, Found(p, member),
         \A t \in TextsOn(id) : ~AtOrBeneath(p, Append(TablePlace(reg, y, id), t))
  PROVE  Found(p, member)' /\ StaysAt(p)
<1>1. PICK place : place = TablePlace(reg, y, id)
  OBVIOUS
<1>2. p \in DOMAIN tables
  BY DEF Found
<1>3. StaysAt(p)
  BY <1>1, <1>2, TypeStep
<1> QED BY <1>3, StaysFound

\* The table of a type: where it is, and that no function or submodule is there.
LEMMA TableOf ==
  ASSUME IInv, LuaInv, NEW y \in Modules, NEW id \in ToSet(y.module.types), NEW owner \in Instantiations(id),
         BindType(y, owner)
  PROVE  LET n == Spelling[TypeOf(reg, id).name]
         IN  /\ TablePlace(reg, y, id) = Append(y.path, n) /\ n \notin SubTexts(y.module)
             /\ \A other, o : Holds(reg, y.module, other, o) /\ Spelling[o] = n => other = "type"
             /\ \A i \in ToSet(y.module.types) : Spelling[TypeOf(reg, i).name] = n => i = id
<1>1. Standing(reg) /\ y \in LuaModules(reg) /\ y.module \in ModulesUnder(reg.modules)
  BY TypeStep, ModuleIs
<1>2. /\ Holds(reg, y.module, "type", TypeOf(reg, id).name)
      /\ TablePlace(reg, y, id) = Append(y.path, Spelling[TypeOf(reg, id).name])
      /\ Spelling[TypeOf(reg, id).name] \notin SubTexts(y.module)
  BY <1>1, TablePlaceIs
<1>3. \A other, o : Holds(reg, y.module, other, o) /\ Spelling[o] = Spelling[TypeOf(reg, id).name]
                      => o = TypeOf(reg, id).name /\ other = "type"
  BY <1>1, <1>2, HeldApart
<1>4. \A i \in ToSet(y.module.types) : Holds(reg, y.module, "type", TypeOf(reg, i).name)
  BY <1>1, TablePlaceIs
<1>5. \A i \in ToSet(y.module.types) : TypeOf(reg, i).name = TypeOf(reg, id).name => i = id
  BY <1>1, NamesApart
<1> QED BY <1>2, <1>3, <1>4, <1>5
\* What an enum has besides its cases replaces what was there.
LEMMA TypeReplaces ==
  ASSUME IInv, LuaInv, NEW y \in Modules, NEW id \in ToSet(y.module.types), NEW owner \in Instantiations(id),
         BindType(y, owner), id \in Ids(reg.enums), NEW c \in ToSet(TableCallables(Bindable(reg, id))),
         NEW p, p = Append(TablePlace(reg, y, id), c.text)
  PROVE  Replaced(p)'
<1>1. PICK place : place = TablePlace(reg, y, id)
  OBVIOUS
<1>2. Adds /\ bound' = bound \cup {Binding(place, owner)}
  BY <1>1, TypeStep
<1>3. /\ y \in Modules' /\ owner \in Instantiations(id)' /\ reg' = reg
  BY <1>2, SameModules DEF Adds
<1>4. \E u \in Modules' : \E i \in ToSet(u.module.types) \cap Ids(reg'.enums) :
        \E o \in Instantiations(i)' : \E e \in ToSet(TableCallables(Bindable(reg', i))) :
          /\ Binding(TablePlace(reg', u, i), o) \in bound'
          /\ p = Append(TablePlace(reg', u, i), e.text)
  BY <1>1, <1>2, <1>3
<1> QED BY <1>4 DEF Replaced, IsBound

LEMMA TypeKeepsSlots ==
  ASSUME IInv, LuaInv, NEW y \in Modules, NEW id \in ToSet(y.module.types), NEW owner \in Instantiations(id),
         BindType(y, owner)
  PROVE  SlotsKept'
<1>1. Standing(reg) /\ Adds /\ y \in LuaModules(reg) /\ reg' = reg
  <2>1. PICK place : place = TablePlace(reg, y, id)
    OBVIOUS
  <2> QED BY <2>1, TypeStep DEF Adds
<1>2. Modules' = Modules /\ Modules = LuaModules(reg)
  BY <1>1, SameModules
<1> SUFFICES ASSUME NEW x \in Modules, NEW s \in DescribedSlots(reg, x), ~Replaced(s.place)'
             PROVE  Found(s.place, s.member)'
  BY <1>1, <1>2 DEF SlotsKept
<1>3. Standing(reg) /\ x \in LuaModules(reg) /\ y \in LuaModules(reg) /\ s \in ModuleSlots(reg, x)
  BY <1>1, <1>2 DEF DescribedSlots
<1>4. Found(s.place, s.member)
  <2>1. ~Replaced(s.place)
    BY <1>1, StaysReplaced
  <2> QED BY <2>1 DEF LuaInv, SlotsKept
<1> DEFINE n == Spelling[TypeOf(reg, id).name]
<1>5. /\ TablePlace(reg, y, id) = Append(y.path, n) /\ n \notin SubTexts(y.module)
      /\ \A i \in ToSet(y.module.types) : Spelling[TypeOf(reg, i).name] = n => i = id
  BY TableOf
<1> HIDE DEF n
<1>6. ASSUME NEW t \in TextsOn(id), AtOrBeneath(s.place, Append(TablePlace(reg, y, id), t)) PROVE FALSE
  <2>1. AtOrBeneath(s.place, Append(Append(y.path, n), t))
    BY <1>5, <1>6
  <2>2. CASE s.place = x.path
    BY <1>3, <1>5, <2>1, <2>2, NoModuleOnTable
  <2>3. ASSUME NEW m, s.place = Append(x.path, m) PROVE FALSE
    <3>1. AtOrBeneath(Append(x.path, m), Append(Append(y.path, n), t)) /\ n \notin SubTexts(y.module)
      BY <1>5, <2>1, <2>3
    <3> QED BY <1>3, <3>1, NoNameOnTable
  <2>4. ASSUME NEW i \in ToSet(x.module.types) \cap Ids(reg.enums), NEW v \in ToSet(TypeOf(reg, i).variants),
               s.place = Append(TablePlace(reg, x, i), Spelling[v.name])
        PROVE  FALSE
    <3> DEFINE m == Spelling[TypeOf(reg, i).name]
               w == Spelling[v.name]
    <3>1. TablePlace(reg, x, i) = Append(x.path, m) /\ m \notin SubTexts(x.module)
      BY <1>3, TablePlaceIs
    <3>2. w # <<>>
      BY <1>3, CasesApart, SpellingAssumption
    <3>3. s.place = Append(TablePlace(reg, x, i), w)
      BY <2>4
    <3> HIDE DEF w
    <3>4. x = y /\ m = n /\ w = t
      <4> HIDE DEF m
      <4>1. AtOrBeneath(Append(Append(x.path, m), w), Append(Append(y.path, n), t))
        BY <2>1, <3>1, <3>3
      <4>2. Standing(reg) /\ x \in LuaModules(reg) /\ y \in LuaModules(reg)
            /\ m \notin SubTexts(x.module) /\ n \notin SubTexts(y.module)
        BY <1>3, <1>5, <3>1
      <4> QED BY <4>1, <4>2, MeetsTable
    <3>5. i = id
      BY <1>5, <3>4
    <3>6. PICK c \in ToSet(TableCallables(Bindable(reg, id))) : t = c.text
      BY <1>6, <3>2, <3>4 DEF TextsOn
    <3>7. id \in Ids(reg.enums) /\ s.place = Append(TablePlace(reg, y, id), c.text)
      BY <3>3, <3>4, <3>5, <3>6
    <3> QED BY <3>7, TypeReplaces
  <2>5. CASE \E name : /\ Holds(reg, x.module, s.member.what, name)
                       /\ s.place = Append(x.path, Spelling[name])
    BY <2>3, <2>5
  <2>6. CASE \E i \in ToSet(x.module.types) \cap Ids(reg.enums) : \E v \in ToSet(TypeOf(reg, i).variants) :
               s.place = Append(TablePlace(reg, x, i), Spelling[v.name])
    BY <2>4, <2>6
  <2> QED BY <1>3, <2>2, <2>5, <2>6, SlotPlaces
<1> QED BY <1>4, <1>6, TypeLeaves

LEMMA TypeKeepsFunctions ==
  ASSUME IInv, LuaInv, NEW y \in Modules, NEW id \in ToSet(y.module.types), NEW owner \in Instantiations(id),
         BindType(y, owner)
  PROVE  FunctionsKept'
<1>0. PICK place : place = TablePlace(reg, y, id)
  OBVIOUS
<1>1. Standing(reg) /\ Adds /\ y \in LuaModules(reg) /\ reg' = reg /\ bound' = bound \cup {Binding(place, owner)}
  BY <1>0, TypeStep DEF Adds
<1>2. Modules' = Modules /\ Modules = LuaModules(reg)
  BY <1>1, SameModules
<1> SUFFICES ASSUME NEW x \in Modules, NEW f \in ToSet(x.module.functions),
                    Binding(FnPlace(x, f), Nobody) \in bound', ~Replaced(x.path)'
             PROVE  FunctionsFound(x, f)'
  BY <1>1, <1>2 DEF FunctionsKept, IsBound
<1>3. x \in LuaModules(reg) /\ Standing(reg) /\ y \in LuaModules(reg)
  BY <1>1, <1>2
<1> DEFINE n == Spelling[TypeOf(reg, id).name]
<1>4. /\ place = Append(y.path, n) /\ n \notin SubTexts(y.module)
      /\ \A other, o : Holds(reg, y.module, other, o) /\ Spelling[o] = n => other = "type"
  BY <1>0, TableOf
<1> HIDE DEF n
<1>5. Binding(FnPlace(x, f), Nobody) \in bound
  <2>1. FnPlace(x, f) = Append(x.path, Spelling[f.name]) /\ Holds(reg, x.module, "stub", f.name)
    BY <1>3, FnPlaceIs
  <2>2. FnPlace(x, f) # place
    <3> SUFFICES ASSUME FnPlace(x, f) = place PROVE FALSE
      OBVIOUS
    <3> DEFINE m == Spelling[f.name]
    <3>1. Append(x.path, m) = Append(y.path, n)
      BY <1>4, <2>1
    <3> HIDE DEF m
    <3>2. x = y /\ m = n
      BY <1>3, <3>1, SamePlace
    <3> QED BY <1>4, <2>1, <3>2 DEF m
  <2>3. Binding(FnPlace(x, f), Nobody) # Binding(place, owner)
    BY <2>2 DEF Binding
  <2> QED BY <1>1, <2>3
<1>6. FunctionsFound(x, f)
  <2>1. ~Replaced(x.path)
    BY <1>1, StaysReplaced
  <2> QED BY <1>5, <2>1 DEF LuaInv, FunctionsKept, IsBound
<1>7. ASSUME NEW m, NEW member, Found(Append(x.path, m), member) PROVE Found(Append(x.path, m), member)'
  <2>1. ASSUME NEW t, AtOrBeneath(Append(x.path, m), Append(TablePlace(reg, y, id), t)) PROVE FALSE
    <3>1. AtOrBeneath(Append(x.path, m), Append(Append(y.path, n), t)) /\ n \notin SubTexts(y.module)
      BY <1>0, <1>4, <2>1
    <3> QED BY <1>3, <3>1, NoNameOnTable
  <2> QED BY <1>7, <2>1, TypeLeaves
<1>8. bound \subseteq bound'
  BY <1>1
<1> QED BY <1>6, <1>7, <1>8 DEF FunctionsFound, IsBound

LEMMA TypeKeepsTypes ==
  ASSUME IInv, LuaInv, NEW y \in Modules, NEW id \in ToSet(y.module.types), NEW owner \in Instantiations(id),
         BindType(y, owner)
  PROVE  TypesKept'
<1>0. PICK table : table = TablePlace(reg, y, id)
  OBVIOUS
<1>1. /\ Standing(reg) /\ Adds /\ y \in LuaModules(reg) /\ bound' = bound \cup {Binding(table, owner)}
      /\ id \in Ids(reg.structs) \cup Ids(reg.enums)
      /\ \A c \in ToSet(TableCallables(Bindable(reg, id))) :
           /\ Append(table, c.text) \in DOMAIN tables'
           /\ tables'[Append(table, c.text)] = At(Append(table, c.text), c.member, owner)
  BY <1>0, TypeStep
<1>2. Modules = LuaModules(reg)
  BY <1>1, SameModules
<1> SUFFICES ASSUME NEW x \in Modules, NEW i \in ToSet(x.module.types), NEW o \in Instantiations(i),
                    NEW place, place = TablePlace(reg, x, i),
                    Binding(place, o) \in bound', ~Replaced(place)'
             PROVE  \A c \in ToSet(DescribedTable(reg, i)) :
                      /\ Found(Append(place, c.text), c.member)'
                      /\ Binding(place, tables'[Append(place, c.text)].owner) \in bound'
  BY <1>1, TypesKeptBy
<1>3. x \in LuaModules(reg) /\ Standing(reg) /\ y \in LuaModules(reg)
  BY <1>1, <1>2
<1>4. CASE x = y /\ i = id
  <2>1. place = table
    BY <1>0, <1>4
  <2>2. SUFFICES ASSUME NEW c \in ToSet(DescribedTable(reg, id))
                 PROVE  /\ Found(Append(table, c.text), c.member)'
                        /\ Binding(table, tables'[Append(table, c.text)].owner) \in bound'
    BY <1>4, <2>1
  <2>3. id \in Ids(reg.structs)
    <3>1. CASE id \notin Ids(reg.structs)
      <4>1. DescribedTable(reg, id) = <<>>
        BY <3>1 DEF DescribedTable
      <4>2. c \in ToSet(<<>>)
        BY <2>2, <4>1
      <4> QED BY <4>2, SmallSlices
    <3> QED BY <3>1
  <2>4. c \in ToSet(TableCallables(Bindable(reg, id)))
    BY <1>1, <2>2, <2>3, StructIs DEF DescribedTable
  <2> DEFINE there == At(Append(table, c.text), c.member, owner)
  <2>5. there.member = c.member /\ there.owner = owner
    BY DEF At
  <2> HIDE DEF there
  <2>6. Append(table, c.text) \in DOMAIN tables' /\ tables'[Append(table, c.text)] = there
    BY <1>1, <2>4 DEF there
  <2> QED BY <1>1, <2>5, <2>6 DEF Found
<1>5. CASE ~(x = y /\ i = id)
  <2> DEFINE n == Spelling[TypeOf(reg, id).name]
             m == Spelling[TypeOf(reg, i).name]
  <2>1. /\ table = Append(y.path, n) /\ n \notin SubTexts(y.module)
        /\ x = y => m # n
    BY <1>0, <1>5, TableOf
  <2>2. place = Append(x.path, m) /\ m \notin SubTexts(x.module)
    BY <1>3, TablePlaceIs
  <2> HIDE DEF n, m
  <2>3. place # table
    BY <1>3, <2>1, <2>2, SamePlace
  <2>4. Binding(place, o) \in bound
    <3>1. Binding(place, o) # Binding(table, owner)
      BY <2>3 DEF Binding
    <3> QED BY <1>1, <3>1
  <2>5. TypeFound(x, i)
    <3>1. ~Replaced(place)
      BY <1>1, StaysReplaced
    <3> QED BY <2>4, <3>1 DEF LuaInv, TypesKept, IsBound
  <2>6. \A c \in ToSet(DescribedTable(reg, i)) :
          /\ Found(Append(place, c.text), c.member)
          /\ Binding(place, tables[Append(place, c.text)].owner) \in bound
    BY <2>5 DEF TypeFound, IsBound
  <2>7. ASSUME NEW v, NEW t, AtOrBeneath(Append(place, v), Append(TablePlace(reg, y, id), t)) PROVE FALSE
    <3>1. AtOrBeneath(Append(Append(x.path, m), v), Append(Append(y.path, n), t))
      BY <1>0, <2>1, <2>2, <2>7
    <3>2. Standing(reg) /\ x \in LuaModules(reg) /\ y \in LuaModules(reg)
          /\ m \notin SubTexts(x.module) /\ n \notin SubTexts(y.module)
      BY <1>3, <2>1, <2>2
    <3>3. x = y /\ m = n /\ v = t
      BY <3>1, <3>2, MeetsTable
    <3> QED BY <2>1, <3>3
  <2>8. \A c \in ToSet(DescribedTable(reg, i)) :
          Found(Append(place, c.text), c.member)' /\ StaysAt(Append(place, c.text))
    BY <2>6, <2>7, TypeLeaves
  <2>9. bound \subseteq bound'
    BY <1>1
  <2> QED BY <2>6, <2>8, <2>9 DEF StaysAt
<1> QED BY <1>4, <1>5

LEMMA TypeKeeps ==
  ASSUME IInv, LuaInv, NEW y \in Modules, NEW id \in ToSet(y.module.types), NEW owner \in Instantiations(id),
         BindType(y, owner)
  PROVE  LuaInv'
<1>0. PICK place : place = TablePlace(reg, y, id)
  OBVIOUS
<1>1. /\ tables # NoTables /\ tables' # NoTables /\ <<ErrorInfo>> \in DOMAIN tables'
      /\ objects' = objects \cup {owner} /\ owner.id = id
      /\ id \in Ids(reg.structs) \cup Ids(reg.enums) /\ TypeBinds(Bindable(reg, id))
  BY <1>0, TypeStep DEF Adds
<1>2. reg' = reg /\ status' = status /\ handlers' = handlers
  BY DEF BindType, vars
<1>3. Begun'
  BY <1>1, <1>2 DEF LuaInv, Begun
<1>4. ObjectsKept'
  BY <1>1, <1>2 DEF LuaInv, ObjectsKept
<1>5. HandlersKept'
  BY <1>2 DEF LuaInv, HandlersKept
<1> QED BY <1>3, <1>4, <1>5, TypeKeepsSlots, TypeKeepsFunctions, TypeKeepsTypes DEF LuaInv
-----------------------------------------------------------------------------
(* The other steps. *)

LEMMA LuaInitHolds == HostInit => LuaInv
<1> SUFFICES ASSUME HostInit PROVE LuaInv
  OBVIOUS
<1>1. reg \in Given /\ tables = NoTables /\ bound = {} /\ objects = {} /\ handlers = {}
  BY DEF HostInit, Init
<1>2. LuaNames(reg) \subseteq DOMAIN Spelling
  BY <1>1, SpellingAssumption
<1>3. Modules = {}
  BY <1>1 DEF Modules
<1> QED BY <1>1, <1>2, <1>3 DEF LuaInv, Begun, SlotsKept, FunctionsKept, TypesKept, ObjectsKept, HandlersKept

\* `bind` makes what is declared, and nothing is bound any more.
LEMMA LuaBindKeeps == ASSUME IInv, LuaInv, LuaBind PROVE LuaInv'
<1>1. /\ reg' = reg /\ status' = status /\ status = "validated" /\ objects' = objects
      /\ tables' = FreshTables(reg) /\ bound' = {} /\ handlers = {} /\ handlers' = {}
  BY DEF LuaBind, vars
<1>2. Standing(reg)
  BY <1>1, HasStanding
<1>3. <<ErrorInfo>> \in DOMAIN tables'
  BY <1>1, <1>2, FreshTablesAre
<1>4. tables' # NoTables
  BY <1>3 DEF NoTables
<1>5. Begun'
  BY <1>1, <1>3, <1>4 DEF LuaInv, Begun
<1>6. SlotsKept'
  <2>1. Modules' = LuaModules(reg)
    BY <1>1, <1>4 DEF Modules
  <2> SUFFICES ASSUME NEW x \in LuaModules(reg), NEW s \in DescribedSlots(reg, x)
               PROVE  Replaced(s.place)' \/ Found(s.place, s.member)'
    BY <1>1, <2>1 DEF SlotsKept
  <2>2. CASE s.place[1] = ErrorInfo
    BY <2>2 DEF Replaced
  <2>3. CASE s.place[1] # ErrorInfo
    <3>1. s \in ModuleSlots(reg, x)
      BY DEF DescribedSlots
    <3>2. s.place \in DOMAIN tables' /\ tables'[s.place] = s
      BY <1>1, <1>2, <2>3, <3>1, FreshTablesAre
    <3> QED BY <3>2 DEF Found
  <2> QED BY <2>2, <2>3
<1>7. FunctionsKept' /\ TypesKept'
  BY <1>1 DEF FunctionsKept, TypesKept, IsBound
<1>8. ObjectsKept' /\ HandlersKept'
  BY <1>1 DEF LuaInv, ObjectsKept, HandlersKept
<1> QED BY <1>5, <1>6, <1>7, <1>8 DEF LuaInv

LEMMA SupplyKeeps ==
  ASSUME IInv, LuaInv, NEW foreign \in ToSet(reg.foreigns),
         NEW left \in {{}} \cup {{text} : text \in ToSet(Texts(DescribedCallbacks(foreign)))},
         Supply(foreign, left)
  PROVE  LuaInv'
<1> DEFINE texts == ToSet(Texts(DescribedCallbacks(foreign)))
           answer == Accepts(foreign, texts \ left)
           h == [foreign |-> foreign.id, left |-> left, connected |-> answer]
<1>1. /\ status = "validated" /\ tables = NoTables /\ reg' = reg /\ status' = status
      /\ tables' = tables /\ bound' = bound /\ objects' = objects /\ handlers' = {h}
  BY DEF Supply, vars
<1>2. bound' = {} /\ objects' = {} /\ Modules' = {}
  BY <1>1 DEF LuaInv, Begun, Modules
<1>3. Begun'
  BY <1>1, <1>2 DEF LuaInv, Begun
<1>4. HandlersKept'
  <2>1. h.left = left /\ h.connected = answer
    OBVIOUS
  <2> HIDE DEF h
  <2>2. left \in {{}} \cup {{text} : text \in texts}
    OBVIOUS
  <2> QED BY <1>1, <2>1, <2>2 DEF HandlersKept
<1> QED BY <1>2, <1>3, <1>4 DEF LuaInv, SlotsKept, FunctionsKept, TypesKept, ObjectsKept

\* Before there is a Lua state declarations may come and the registry be
\* validated: the names that are added have texts.
LEMMA NextKeepsLua ==
  ASSUME IInv, LuaInv, tables = NoTables, handlers = {}, Next, UNCHANGED luaVars PROVE LuaInv'
<1>1. /\ tables' = NoTables /\ bound' = {} /\ objects' = {} /\ handlers' = {}
  BY DEF LuaInv, Begun, luaVars
<1>2. LuaNames(reg') \subseteq DOMAIN Spelling
  <2>1. LuaNames(reg) \subseteq DOMAIN Spelling /\ IsRegistry(reg)
    BY DEF LuaInv, Begun, IInv, TypeOK
  <2>2. ASSUME NEW d \in Palette, Declare(d) PROVE LuaNames(reg') \subseteq DOMAIN Spelling
    <3>1. reg' = Register(reg, d) /\ IsDeclaration(d)
      BY <2>2, PackagesAssumption DEF Declare
    <3>2. LuaNames(Register(Empty, d)) \subseteq DOMAIN Spelling
      BY SpellingAssumption
    <3> QED BY <2>1, <3>1, <3>2, NamesRegistered
  <2>3. ASSUME Validate \/ Plan \/ Generate \/ Bind \/ Instantiate \/ \E a \in Addresses : Connect(a)
        PROVE  reg' = reg
    BY <2>3 DEF Validate, Plan, Generate, Bind, Instantiate, Connect
  <2> QED BY <2>1, <2>2, <2>3 DEF Next
<1>3. Modules' = {}
  BY <1>1 DEF Modules
<1> QED BY <1>1, <1>2, <1>3 DEF LuaInv, Begun, SlotsKept, FunctionsKept, TypesKept, ObjectsKept, HandlersKept

LEMMA StutterKeepsLua == ASSUME LuaInv, UNCHANGED hostVars PROVE LuaInv'
<1>1. /\ reg' = reg /\ status' = status /\ tables' = tables /\ bound' = bound
      /\ objects' = objects /\ handlers' = handlers
  BY DEF hostVars, vars, luaVars
<1>2. Begun'
  BY <1>1 DEF LuaInv, Begun
<1>3. SlotsKept'
  BY <1>1 DEF LuaInv, SlotsKept, Replaced, Found, IsBound, Modules, Instantiations
<1>4. FunctionsKept'
  BY <1>1 DEF LuaInv, FunctionsKept, FunctionsFound, Replaced, Found, IsBound, Modules, Instantiations
<1>5. TypesKept'
  BY <1>1 DEF LuaInv, TypesKept, TypeFound, Replaced, Found, IsBound, Modules, Instantiations
<1>6. ObjectsKept' /\ HandlersKept'
  BY <1>1 DEF LuaInv, ObjectsKept, HandlersKept
<1> QED BY <1>2, <1>3, <1>4, <1>5, <1>6 DEF LuaInv

LEMMA LuaStepKeeps == IInv /\ LuaInv /\ [HostNext]_hostVars => LuaInv'
<1> SUFFICES ASSUME IInv, LuaInv, [HostNext]_hostVars PROVE LuaInv'
  OBVIOUS
<1>1. CASE tables = NoTables /\ handlers = {} /\ Next /\ UNCHANGED luaVars
  BY <1>1, NextKeepsLua
<1>2. CASE LuaBind
  BY <1>2, LuaBindKeeps
<1>3. ASSUME NEW x \in Modules, NEW f \in ToSet(x.module.functions), BindFn(x, f) PROVE LuaInv'
  BY <1>3, FnKeeps
<1>4. ASSUME NEW x \in Modules, NEW id \in ToSet(x.module.types), NEW owner \in Instantiations(id),
             BindType(x, owner)
      PROVE  LuaInv'
  BY <1>4, TypeKeeps
<1>5. ASSUME NEW foreign \in ToSet(reg.foreigns),
             NEW left \in {{}} \cup {{text} : text \in ToSet(Texts(DescribedCallbacks(foreign)))},
             Supply(foreign, left)
      PROVE  LuaInv'
  BY <1>5, SupplyKeeps
<1>6. CASE UNCHANGED hostVars
  BY <1>6, StutterKeepsLua
<1>7. CASE LuaNext
  BY <1>2, <1>3, <1>4, <1>5, <1>7 DEF LuaNext
<1> QED BY <1>1, <1>6, <1>7 DEF HostNext

\* The tables of a Lua state, the objects and the callbacks are such as the code
\* leaves them, whatever was bound in whatever order.
THEOREM LuaInvariance == HostSpec => []LuaInv
<1>1. HostSpec => []IInv
  BY Invariance
<1> QED BY <1>1, LuaInitHolds, LuaStepKeeps, PTL DEF HostSpec

\* What the generated declarations of a registry promise a script sees, for
\* any registry that can be described, any names and any order of bind,
\* bind_fn and bind_type: a declared name is live and the member it was
\* declared for, but for the names no check of the binders compares.
THEOREM Scripts == HostSpec => []ScriptsSeeDeclared
<1>1. IInv /\ LuaInv => ScriptsSeeDeclared
  <2> SUFFICES ASSUME IInv, LuaInv, LuaDescribes(reg) PROVE ScriptsSeeDeclared
    BY DEF ScriptsSeeDeclared
  <2>1. tables # NoTables \/ handlers # {} => Standing(reg)
    BY HasStanding DEF LuaInv, Begun
  <2>2. ASSUME NEW h \in handlers PROVE h.connected = (h.left = {})
    <3>1. Standing(reg)
      BY <2>1
    <3>2. PICK foreign \in ToSet(reg.foreigns) :
            LET texts == ToSet(Texts(DescribedCallbacks(foreign)))
            IN  /\ h.left \in {{}} \cup {{text} : text \in texts}
                /\ h.connected = Accepts(foreign, texts \ h.left)
      BY DEF LuaInv, HandlersKept
    <3> DEFINE texts == ToSet(Texts(DescribedCallbacks(foreign)))
               left == h.left
    <3>3. left \in {{}} \cup {{text} : text \in texts} /\ h.connected = Accepts(foreign, texts \ left)
      BY <3>2
    <3> HIDE DEF left
    <3>4. Accepts(foreign, texts \ left) = (left = {})
      BY <3>1, <3>3, HandlersConnect
    <3>5. h.connected = (left = {})
      BY <3>3, <3>4
    <3> QED BY <3>5 DEF left
  <2>3. ASSUME NEW owner \in objects PROVE ObjectFound(owner)
    <3>1. tables # NoTables
      BY DEF LuaInv, Begun
    <3> QED BY <2>1, <3>1, ObjectsAnswer DEF LuaInv, ObjectsKept
  <2>4. SlotsKept /\ FunctionsKept /\ TypesKept
    BY DEF LuaInv
  <2> QED BY <2>2, <2>3, <2>4 DEF ScriptsSeeDeclared, SlotsKept, FunctionsKept, TypesKept
<1> QED BY <1>1, Invariance, LuaInvariance, PTL

=============================================================================
