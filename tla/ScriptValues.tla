---------------------------- MODULE ScriptValues ----------------------------
(***************************************************************************)
(* The value bridge of haphe-core: how a Rust value of a described type    *)
(* becomes a ScriptValue (From<T>), how one is read back (FromScript), and *)
(* how the resolver of dyn functions ranks a value against a declared type *)
(* (value_matches_descriptor).  All three are recursive over types, which  *)
(* is why this module and those above it are for TLC only.                 *)
(*                                                                         *)
(* A type is a record with a kind; a ScriptValue a record with a tag, the  *)
(* variant's name.  A Rust value is a number, a Boolean or a string; a     *)
(* sequence for lists, arrays, tuples, maps (of key-value pairs) and       *)
(* options (empty or of one element); a record for enum cases and          *)
(* SystemTime.  Bytes, userdata and callbacks are left out.                *)
(***************************************************************************)
EXTENDS Numbers, Sequences

CONSTANT Chars     \* the strings of exactly one character

-----------------------------------------------------------------------------
(* Types. *)

Bool   == [kind |-> "bool"]
Unit   == [kind |-> "unit"]
Float  == [kind |-> "float"]
Char   == [kind |-> "char"]
String == [kind |-> "string"]
Bits64 == [kind |-> "u64"]                    \* u64 and usize
Ranged(lo, hi)   == [kind |-> "int", lo |-> lo, hi |-> hi]
NonZero(t)    == [kind |-> "nonzero", of |-> t]
Option(t)     == [kind |-> "option", of |-> t]
List(t)       == [kind |-> "list", of |-> t]  \* Vec, VecDeque and the sets
Array(t, n)   == [kind |-> "array", of |-> t, len |-> n]
Tuple(ts)     == [kind |-> "tuple", ofs |-> ts]
Map(t)        == [kind |-> "map", of |-> t]   \* string keys
Duration      == [kind |-> "duration"]
SystemTime    == [kind |-> "time"]
\* cases: name -> types of the payload; discs: discriminants of the unit
\* cases of a numeric enum, no name at all for an enum carried by name.
Enum(cases, discs) == [kind |-> "enum", cases |-> cases, discs |-> discs]
\* A generic parameter that the substitution in use does not know.
Unbound == [kind |-> "unbound"]

IsNumeric(t) == DOMAIN t.discs # {}

SecsAndNanos(secs) == Tuple(<<secs, Ranged(0, 2 * Nanos - 1)>>)

\* HapheType::DESCRIPTOR, at the head of a type.
Descriptor(t) ==
  CASE t.kind = "nonzero"  -> t.of
    [] t.kind = "duration" -> SecsAndNanos(Bits64)
    [] t.kind = "time"     -> SecsAndNanos(Ranged(-Half, Half - 1))
    [] OTHER               -> t

-----------------------------------------------------------------------------
(* Script values. *)

UnitV      == [tag |-> "Unit"]
BoolV(b)   == [tag |-> "Bool", bool |-> b]
I64V(n)    == [tag |-> "I64", int |-> n]
F64V(x)    == [tag |-> "F64", float |-> x]
StringV(s) == [tag |-> "String", str |-> s]
CharV(c)   == [tag |-> "Char", chr |-> c]
ListV(vs)  == [tag |-> "List", items |-> vs]
MapV(ps)   == [tag |-> "Map", pairs |-> ps]
NoneV      == [tag |-> "None"]
SomeV(v)   == [tag |-> "Some", inner |-> v]
\* disc is empty or holds the discriminant
EnumV(c, disc, vs) ==
  [tag |-> "Enum", case |-> c, disc |-> disc, payload |-> vs]

Each(Op(_), s) == [i \in DOMAIN s |-> Op(s[i])]

-----------------------------------------------------------------------------
(* From<T> for ScriptValue. *)

RECURSIVE IntoScript(_, _)
IntoScript(t, x) ==
  CASE t.kind = "unit"    -> UnitV
    [] t.kind = "bool"    -> BoolV(x)
    [] t.kind = "int"     -> I64V(x)
    [] t.kind = "u64"     -> I64V(AsI64(x))
    [] t.kind = "nonzero" -> IntoScript(t.of, x)
    [] t.kind = "float"   -> F64V(x)
    [] t.kind = "char"    -> CharV(x)
    [] t.kind = "string"  -> StringV(x)
    [] t.kind \in {"list", "array"} ->
         ListV(Each(LAMBDA y : IntoScript(t.of, y), x))
    [] t.kind = "tuple"   -> ListV([i \in DOMAIN x |-> IntoScript(t.ofs[i], x[i])])
    [] t.kind = "map"     ->
         MapV(Each(LAMBDA p : <<p[1], IntoScript(t.of, p[2])>>, x))
    [] t.kind = "option"  -> IF x = <<>> THEN NoneV
                             ELSE SomeV(IntoScript(t.of, x[1]))
    [] t.kind = "enum"    ->
         EnumV(x.case,
               IF x.case \in DOMAIN t.discs THEN <<t.discs[x.case]>> ELSE <<>>,
               [i \in DOMAIN x.payload |->
                  IntoScript(t.cases[x.case][i], x.payload[i])])
    [] t.kind = "duration" -> IntoScript(SecsAndNanos(Bits64), x)
    [] t.kind = "time"     ->
         IntoScript(SecsAndNanos(Ranged(-Half, Half - 1)), PairOfInstant(x))

-----------------------------------------------------------------------------
(***************************************************************************)
(* FromScript.  A failure says what was wrong: the variant, or only the    *)
(* value (a number out of range, a length, a case that does not exist).    *)
(***************************************************************************)
Ok(x)      == [ok |-> TRUE, value |-> x]
WrongShape == [ok |-> FALSE, why |-> "shape"]
WrongValue == [ok |-> FALSE, why |-> "value"]

\* The first failure among rs, or the sequence of their values.
Collect(rs) ==
  LET failed == {i \in DOMAIN rs : ~rs[i].ok} IN
  IF failed = {} THEN Ok([i \in DOMAIN rs |-> rs[i].value])
  ELSE rs[CHOOSE i \in failed : \A j \in failed : i <= j]

Then(r, Op(_)) == IF r.ok THEN Op(r.value) ELSE r

RECURSIVE FromScript(_, _)

\* The elements of a sequence, each read as type t.
EachFrom(t, vs) == Collect(Each(LAMBDA v : FromScript(t, v), vs))
\* As many elements as types, each read as its own.
ZipFrom(ts, vs) ==
  IF Len(ts) # Len(vs) THEN WrongValue
  ELSE Collect([i \in DOMAIN ts |-> FromScript(ts[i], vs[i])])

PairsFrom(t, ps) ==
  Then(EachFrom(t, Each(LAMBDA p : p[2], ps)),
       LAMBDA xs : Ok([i \in DOMAIN ps |-> <<ps[i][1], xs[i]>>]))

\* derive(Script) on an enum: the discriminant, the case or its name.
CaseFrom(t, name, payload) ==
  IF name \notin DOMAIN t.cases THEN WrongValue
  ELSE Then(ZipFrom(t.cases[name], payload),
            LAMBDA xs : Ok([case |-> name, payload |-> xs]))
EnumFrom(t, v) ==
  CASE v.tag = "I64" /\ IsNumeric(t) ->
         LET named == {c \in DOMAIN t.discs : t.discs[c] = v.int} IN
         IF named = {} THEN WrongValue
         ELSE Ok([case |-> CHOOSE c \in named : TRUE, payload |-> <<>>])
    [] v.tag = "Enum"   -> CaseFrom(t, v.case, v.payload)
    [] v.tag = "String" -> CaseFrom(t, v.str, <<>>)
    [] OTHER            -> WrongShape

\* `n as f64`: above the mantissa, here Half \div 2, odd numbers are rounded.
NearestFloat(n) ==
  IF n \in -(Half \div 2) .. Half \div 2 \/ n % 2 = 0 THEN n
  ELSE IF n > 0 THEN n + 1 ELSE n - 1

NumberFrom(t, v) ==
  CASE t.kind = "int"   -> IF v.tag # "I64" THEN WrongShape
                           ELSE IF v.int \in t.lo .. t.hi THEN Ok(v.int)
                           ELSE WrongValue
    [] t.kind = "u64"   -> IF v.tag = "I64" THEN Ok(AsU64(v.int)) ELSE WrongShape
    [] t.kind = "float" -> CASE v.tag = "F64" -> Ok(v.float)
                             [] v.tag = "I64" -> Ok(NearestFloat(v.int))
                             [] OTHER         -> WrongShape
    [] t.kind = "nonzero" ->
         Then(FromScript(t.of, v),
              LAMBDA n : IF n = 0 THEN WrongValue ELSE Ok(n))

\* Duration and SystemTime read a pair and check its nanoseconds.
TimeFrom(t, v) ==
  Then(FromScript(Descriptor(t), v),
       LAMBDA p : IF ~NanosInRange(p[2]) THEN WrongValue
                  ELSE IF t.kind = "duration" THEN Ok(p)
                  ELSE Ok(InstantOfPair(p[1], p[2])))

TextFrom(t, v) ==
  CASE v.tag = "Char" /\ t.kind = "char"     -> Ok(v.chr)
    [] v.tag = "String" /\ t.kind = "char"   -> IF v.str \in Chars THEN Ok(v.str)
                                                ELSE WrongValue
    [] v.tag = "String" /\ t.kind = "string" -> Ok(v.str)
    [] OTHER                                 -> WrongShape

\* Either empty shape converts to an empty list or map; arrays and tuples
\* have a length, and no empty map for it.
SequenceFrom(t, v) ==
  CASE v.tag = "List" /\ t.kind = "list" -> EachFrom(t.of, v.items)
    [] v.tag = "List" /\ t.kind = "map"  -> IF v.items = <<>> THEN Ok(<<>>)
                                            ELSE WrongShape
    [] v.tag = "Map" /\ t.kind = "map"   -> PairsFrom(t.of, v.pairs)
    [] v.tag = "Map" /\ t.kind = "list"  -> IF v.pairs = <<>> THEN Ok(<<>>)
                                            ELSE WrongShape
    [] v.tag = "List" /\ t.kind = "tuple" -> ZipFrom(t.ofs, v.items)
    [] v.tag = "List" /\ t.kind = "array" -> IF Len(v.items) # t.len THEN WrongValue
                                             ELSE EachFrom(t.of, v.items)
    [] OTHER -> WrongShape

OptionFrom(t, v) ==
  IF v.tag \in {"None", "Unit"} THEN Ok(<<>>)
  ELSE Then(FromScript(t.of, IF v.tag = "Some" THEN v.inner ELSE v),
            LAMBDA x : Ok(<<x>>))

FromScript(t, v) ==
  CASE t.kind = "unit"   -> IF v.tag = "Unit" THEN Ok(<<>>) ELSE WrongShape
    [] t.kind = "bool"   -> IF v.tag = "Bool" THEN Ok(v.bool) ELSE WrongShape
    [] t.kind \in {"int", "u64", "float", "nonzero"} -> NumberFrom(t, v)
    [] t.kind \in {"char", "string"}                 -> TextFrom(t, v)
    [] t.kind \in {"list", "array", "tuple", "map"}  -> SequenceFrom(t, v)
    [] t.kind \in {"duration", "time"}               -> TimeFrom(t, v)
    [] t.kind = "option" -> OptionFrom(t, v)
    [] t.kind = "enum"   -> EnumFrom(t, v)

-----------------------------------------------------------------------------
(***************************************************************************)
(* value_matches_descriptor: how well a value fits a declared type.        *)
(***************************************************************************)
No == 0
Coercible == 1
Exact == 2

Worst(qs) ==
  IF \E i \in DOMAIN qs : qs[i] = No THEN No
  ELSE IF \E i \in DOMAIN qs : qs[i] = Coercible THEN Coercible ELSE Exact

RECURSIVE Matches(_, _)

\* Containers are judged by their first element; empty ones are unknown.
MatchesFirst(vs, t) == IF vs = <<>> THEN Coercible ELSE Matches(vs[1], t)

MatchesOption(v, d) ==
  CASE v.tag = "None" -> Exact
    [] v.tag = "Some" -> Matches(v.inner, d.of)
    [] OTHER          -> Matches(v, d.of)

\* Mutant: a tuple is judged by its first element, like a list.
MatchesTupleFirst(vs, d) ==
  IF Len(vs) # Len(d.ofs) THEN No ELSE Matches(vs[1], d.ofs[1])

MatchesTuple(vs, d) ==
  IF Len(vs) # Len(d.ofs) THEN No
  ELSE Worst([i \in DOMAIN vs |-> Matches(vs[i], d.ofs[i])])

Matches(v, t) ==
  LET d == Descriptor(t)
      shapes == <<v.tag, d.kind>>
  IN CASE d.kind = "option" -> MatchesOption(v, d)
       [] shapes \in {<<"Unit", "unit">>, <<"Bool", "bool">>, <<"I64", "int">>,
                      <<"I64", "u64">>, <<"F64", "float">>,
                      <<"String", "string">>, <<"Char", "char">>} -> Exact
       [] shapes \in {<<"I64", "float">>, <<"Char", "string">>,
                      <<"Enum", "enum">>} -> Coercible
       [] shapes = <<"String", "char">>   -> IF v.str \in Chars THEN Coercible
                                             ELSE No
       [] shapes \in {<<"List", "list">>, <<"List", "array">>} ->
            MatchesFirst(v.items, d.of)
       [] shapes = <<"List", "tuple">> -> MatchesTuple(v.items, d)
       [] shapes = <<"Map", "map">>    ->
            MatchesFirst(Each(LAMBDA p : p[2], v.pairs), d.of)
       [] OTHER -> No
=============================================================================
