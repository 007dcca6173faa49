------------------------------ MODULE Runtimes ------------------------------
(***************************************************************************)
(* The runtimes' side of the value bridge: what a ScriptValue has become   *)
(* once it has been handed to a script and taken back unchanged.  Lua and  *)
(* Rhai are untyped, so the way back has to guess; WebAssembly goes by the *)
(* declared type on both ways.  Each operator is the conversion out and    *)
(* the conversion in, composed; the results are sets because of the length *)
(* of a Lua table with holes, which may be any border of it.               *)
(***************************************************************************)
EXTENDS ScriptValues, FiniteSets

CONSTANT Enums     \* the enums of the registry that a WebAssembly caller is built with

\* The way back failed: the script cannot pass this value at all.
NotCarried == [tag |-> "NotCarried"]

\* Values that both Lua and Rhai represent as nothing.
RECURSIVE IsNil(_)
IsNil(v) == \/ v.tag \in {"Unit", "None"}
            \/ v.tag = "Some" /\ IsNil(v.inner)

-----------------------------------------------------------------------------
(* Lua: script_to_lua, then lua_to_script. *)

RECURSIVE ThroughLua(_)

\* All ways to carry each of vs; none if one of them fails.
ChooseEach(vs) ==
  LET all == UNION {ThroughLua(vs[i]) : i \in DOMAIN vs}
  IN  {ws \in [DOMAIN vs -> all] : \A i \in DOMAIN vs : ws[i] \in ThroughLua(vs[i])}
AnyFails(ws) == \E i \in DOMAIN ws : ws[i] = NotCarried

\* What `#t` may be for a table built from vs: an index that holds a value
\* and whose successor does not.
Borders(vs) ==
  {n \in 0 .. Len(vs) : /\ n = 0 \/ ~IsNil(vs[n])
                        /\ n = Len(vs) \/ IsNil(vs[n + 1])}

\* The entries 1..n as a list; a hole among them reads as nil.
Prefixes(vs, n) ==
  {IF AnyFails(ws) THEN NotCarried ELSE ListV(ws) : ws \in ChooseEach(SubSeq(vs, 1, n))}
HasIndices(vs) == \E i \in DOMAIN vs : ~IsNil(vs[i])

\* A list is a table.  With length 0 it is read as a map, whose keys must be
\* strings.
ListThroughLua(vs) ==
  UNION {IF n > 0 THEN Prefixes(vs, n)
         ELSE IF HasIndices(vs) THEN {NotCarried} ELSE {MapV(<<>>)}
         : n \in Borders(vs)}

\* A map loses the keys whose value is nil.  A table with the only key
\* `case`, and a string there, is taken for an enum case.
MapThroughLua(ps) ==
  LET kept == SelectSeq(ps, LAMBDA p : ~IsNil(p[2]))
      named(vs) == Len(kept) = 1 /\ kept[1][1] = "case" /\ vs[1].tag = "String"
  IN  {IF AnyFails(vs) THEN NotCarried
       ELSE IF named(vs) THEN EnumV(vs[1].str, <<>>, <<>>)
       ELSE MapV([i \in DOMAIN kept |-> <<kept[i][1], vs[i]>>])
       : vs \in ChooseEach(Each(LAMBDA p : p[2], kept))}

\* A payload case is a table { case = name, values... }, as long as no value
\* lies behind the border that `#t` happens to be.
EnumThroughLua(v) ==
  IF v.payload = <<>> THEN
    {IF v.disc # <<>> THEN I64V(v.disc[1]) ELSE StringV(v.case)}
  ELSE
    UNION {IF \A i \in n + 1 .. Len(v.payload) : IsNil(v.payload[i]) THEN
             {IF AnyFails(ws) THEN NotCarried ELSE EnumV(v.case, <<>>, ws)
              : ws \in ChooseEach(SubSeq(v.payload, 1, n))}
           ELSE IF n > 0 THEN Prefixes(v.payload, n) ELSE {NotCarried}
           : n \in Borders(v.payload)}

ThroughLua(v) ==
  CASE IsNil(v)         -> {UnitV}
    [] v.tag = "Some"   -> ThroughLua(v.inner)
    [] v.tag = "Char"   -> {StringV(v.chr)}
    [] v.tag = "List"   -> ListThroughLua(v.items)
    [] v.tag = "Map"    -> MapThroughLua(v.pairs)
    [] v.tag = "Enum"   -> EnumThroughLua(v)
    [] OTHER            -> {v}

-----------------------------------------------------------------------------
(* Rhai: script_to_dynamic, then dynamic_to_script. *)

RECURSIVE ThroughRhai(_)
ThroughRhai(v) ==
  CASE IsNil(v)         -> UnitV
    [] v.tag = "Some"   -> ThroughRhai(v.inner)
    [] v.tag = "List"   -> ListV(Each(ThroughRhai, v.items))
    [] v.tag = "Map"    -> MapV(Each(LAMBDA p : <<p[1], ThroughRhai(p[2])>>, v.pairs))
    [] v.tag = "Enum"   -> IF v.payload # <<>>
                           THEN EnumV(v.case, <<>>, Each(ThroughRhai, v.payload))
                           ELSE IF v.disc # <<>> THEN I64V(v.disc[1])
                           ELSE StringV(v.case)
    [] OTHER            -> v

-----------------------------------------------------------------------------
(***************************************************************************)
(* WebAssembly: script_to_val by the declared type, then val_to_script.    *)
(* A map is a list of pairs on the wire and stays one until the receiving  *)
(* side reshapes it by the declared type; unit, and options of it, have no *)
(* WIT type.  The payload of a case is a tuple, never a record.            *)
(***************************************************************************)
RECURSIVE ToVal(_, _)

OptionToVal(t, v) ==
  IF v.tag \in {"None", "Unit"} THEN Ok(NoneV)
  ELSE Then(ToVal(t.of, IF v.tag = "Some" THEN v.inner ELSE v),
            LAMBDA w : Ok(SomeV(w)))

ListToVal(t, v) ==
  CASE v.tag = "List" /\ t.kind \in {"list", "array"}
       /\ (t.kind = "array" => Len(v.items) = t.len) ->
         Then(Collect(Each(LAMBDA w : ToVal(t.of, w), v.items)),
              LAMBDA ws : Ok(ListV(ws)))
    [] v.tag = "Map" /\ t.kind = "map" ->
         Then(Collect(Each(LAMBDA p : ToVal(t.of, p[2]), v.pairs)),
              LAMBDA ws : Ok(ListV([i \in DOMAIN ws |->
                                      ListV(<<StringV(v.pairs[i][1]), ws[i]>>)])))
    [] v.tag = "List" /\ t.kind = "tuple" /\ Len(v.items) = Len(t.ofs) ->
         Then(Collect([i \in DOMAIN t.ofs |-> ToVal(t.ofs[i], v.items[i])]),
              LAMBDA ws : Ok(ListV(ws)))
    [] OTHER -> WrongShape

\* How the registry's enums declare a case of this name: a number and how many
\* values.  Names are those in WIT, which a case has in common with the same
\* case of other enums.
Declared(name) ==
  {[disc |-> IF name \in DOMAIN t.discs THEN <<t.discs[name]>> ELSE <<>>,
    arity |-> Len(t.cases[name])] : t \in {e \in Enums : name \in DOMAIN e.cases}}

\* A WIT enum has no payloads and takes a case by name or number too, by number
\* only if all enums declare the case alike.
UnitToVal(t, v) ==
  LET named == IF v.tag = "I64"
               THEN {c \in DOMAIN t.cases : {d.disc : d \in Declared(c)} = {<<v.int>>}}
               ELSE DOMAIN t.cases \cap {IF v.tag = "Enum" THEN v.case ELSE v.str}
  IN IF v.tag \notin {"Enum", "String", "I64"} THEN WrongShape
     ELSE IF named = {} THEN WrongValue
     ELSE Ok(EnumV(CHOOSE c \in named : TRUE, <<>>, <<>>))

\* A WIT variant has one; it takes a case, or a map from its name to the value,
\* a list if there are several.
VariantV(name, vs) == [tag |-> "Variant", case |-> name, payload |-> vs]
IsVariant(t) == \E c \in DOMAIN t.cases : t.cases[c] # <<>>

VariantToVal(t, v) ==
  LET name == IF v.tag = "Enum" THEN v.case ELSE v.pairs[1][1]
      types == t.cases[name]
      whole == v.pairs[1][2]
      vs == CASE v.tag = "Enum" -> v.payload
              [] types = <<>> -> <<>>
              [] Len(types) = 1 \/ whole.tag # "List" -> <<whole>>
              [] OTHER -> whole.items
  IN IF ~(v.tag = "Enum" \/ (v.tag = "Map" /\ Len(v.pairs) = 1)) THEN WrongShape
     ELSE IF name \notin DOMAIN t.cases \/ Len(vs) # Len(types) THEN WrongValue
     ELSE Then(Collect([i \in DOMAIN vs |-> ToVal(types[i], vs[i])]),
               LAMBDA ws : Ok(VariantV(name, ws)))

ToVal(u, v) ==
  LET t == Descriptor(u)
      same == <<v.tag, t.kind>>
  IN CASE t.kind = "option" -> OptionToVal(t, v)
       [] t.kind = "enum"   -> IF IsVariant(t) THEN VariantToVal(t, v) ELSE UnitToVal(t, v)
       [] same = <<"I64", "int">> -> IF v.int \in t.lo .. t.hi THEN Ok(v)
                                     ELSE WrongValue
       [] same = <<"I64", "float">> -> Ok(F64V(NearestFloat(v.int)))
       [] same \in {<<"Bool", "bool">>, <<"I64", "u64">>, <<"F64", "float">>,
                    <<"Char", "char">>, <<"String", "string">>} -> Ok(v)
       [] OTHER -> ListToVal(t, v)

\* On the way back a case is looked up by name alone.  One that two enums
\* declare differently is refused, and so is one that no enum declares; as a
\* case of a variant it becomes a map from its name to what it carries.
RECURSIVE FromVal(_)

CaseFromVal(w) ==
  IF Cardinality(Declared(w.case)) # 1 THEN WrongValue
  ELSE Ok(EnumV(w.case, (CHOOSE d \in Declared(w.case) : TRUE).disc, <<>>))

VariantFromVal(w, vs) ==
  LET whole == CASE vs = <<>> -> UnitV [] Len(vs) = 1 -> vs[1] [] OTHER -> ListV(vs)
      declared == CHOOSE d \in Declared(w.case) : TRUE
  IN IF Cardinality(Declared(w.case)) = 1 /\ declared.arity = Len(vs)
     THEN EnumV(w.case, declared.disc, vs) ELSE MapV(<<<<w.case, whole>>>>)

FromVal(w) ==
  CASE w.tag = "List" -> Then(Collect(Each(FromVal, w.items)), LAMBDA vs : Ok(ListV(vs)))
    [] w.tag = "Some" -> Then(FromVal(w.inner), LAMBDA v : Ok(SomeV(v)))
    [] w.tag = "Enum" -> CaseFromVal(w)
    [] w.tag = "Variant" -> Then(Collect(Each(FromVal, w.payload)),
                                 LAMBDA vs : Ok(VariantFromVal(w, vs)))
    [] OTHER -> Ok(w)

ThroughWit(t, v) ==
  LET r == Then(ToVal(t, v), FromVal) IN IF r.ok THEN r.value ELSE NotCarried

\* reshape: the positions declared as maps become maps again.
IsPair(v) == v.tag = "List" /\ Len(v.items) = 2 /\ v.items[1].tag = "String"

RECURSIVE Reshape(_, _)
Reshape(u, v) ==
  LET t == Descriptor(u) IN
  CASE t.kind = "map" /\ v.tag = "List" ->
         IF \A i \in DOMAIN v.items : IsPair(v.items[i])
         THEN MapV(Each(LAMBDA p : <<p.items[1].str, Reshape(t.of, p.items[2])>>,
                        v.items))
         ELSE v
    [] t.kind \in {"list", "array"} /\ v.tag = "List" ->
         ListV(Each(LAMBDA w : Reshape(t.of, w), v.items))
    [] t.kind = "tuple" /\ v.tag = "List" ->
         ListV([i \in DOMAIN v.items |->
                  IF i \in DOMAIN t.ofs THEN Reshape(t.ofs[i], v.items[i])
                  ELSE v.items[i]])
    [] t.kind = "option" /\ v.tag = "Some" -> SomeV(Reshape(t.of, v.inner))
    [] OTHER -> v
=============================================================================
