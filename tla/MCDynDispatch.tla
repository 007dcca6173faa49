---------------------------- MODULE MCDynDispatch ----------------------------
(***************************************************************************)
(* Calls of small dyn functions with values of the bridge.  Every argument *)
(* is a Rust value of some type that the host has given to the script (its *)
(* origin) and that the script passes on unchanged, or one that the bridge *)
(* does not know.  Integers are scaled down: an i64 has 3 bits.            *)
(***************************************************************************)
EXTENDS DynDispatch, Runtimes

I8  == Ranged(-2, 1)
I64T == Ranged(-Half, Half - 1)
Color == Enum([Red |-> <<>>, Blue |-> <<>>], <<>>)
Level == Enum([Low |-> <<>>, High |-> <<>>], [Low |-> 1, High |-> 3])
Shape == Enum([Dot |-> <<>>, Line |-> <<I8>>, Text |-> <<Option(I8), Char>>,
               Fill |-> <<Bool>>], <<>>)
\* Enums with cases of the same names: High, Dot and Line are declared alike.
Signal == Enum([Blue |-> <<>>, High |-> <<>>], [Blue |-> 0, High |-> 3])
Figure == Enum([Dot |-> <<>>, Line |-> <<Bool>>, Fill |-> <<Bool, I8>>], <<>>)
MCEnums == {Color, Level, Shape, Signal, Figure}

Case(name, payload) == [case |-> name, payload |-> payload]
Time(secs, nanos) == [sec |-> secs, nsec |-> nanos]

\* A type and a value of it.
Origins == <<
  <<I8, -2>>, <<I8, 1>>, <<I64T, 3>>, <<I64T, -Half>>, <<Bits64, 1>>,
  <<Bits64, 2 * Half - 1>>, <<NonZero(I8), -1>>, <<Float, 1>>, <<Bool, TRUE>>,
  <<Char, "a">>, <<String, "a">>, <<String, "Red">>, <<Unit, <<>>>>,
  <<Option(I8), <<>>>>, <<Option(I8), <<1>>>>, <<Option(Unit), <<<<>>>>>>,
  <<Option(Option(I8)), <<<<1>>>>>>,
  <<List(I8), <<>>>>, <<List(I8), <<1, -2>>>>, <<List(I64T), <<1, 3>>>>,
  <<List(Option(I8)), <<<<1>>, <<>>, <<1>>>>>>, <<List(String), <<"a">>>>,
  <<Array(Bool, 0), <<>>>>, <<Array(Bool, 2), <<TRUE, FALSE>>>>,
  <<Tuple(<<I8, Char>>), <<1, "a">>>>, <<Tuple(<<I8, I8>>), <<0, 1>>>>,
  <<Tuple(<<Option(I8), I8>>), <<<<>>, 1>>>>,
  <<Map(Bool), <<>>>>, <<Map(Bool), <<<<"k", TRUE>>>>>>,
  <<Map(Option(I8)), <<<<"j", <<>>>>, <<"k", <<1>>>>>>>>,
  <<Map(String), <<<<"case", "Red">>>>>>,
  <<Color, Case("Red", <<>>)>>, <<Level, Case("High", <<>>)>>,
  <<Shape, Case("Dot", <<>>)>>, <<Shape, Case("Line", <<1>>)>>,
  <<Color, Case("Blue", <<>>)>>, <<Signal, Case("Blue", <<>>)>>,
  <<Signal, Case("High", <<>>)>>, <<Shape, Case("Fill", <<TRUE>>)>>,
  <<Figure, Case("Dot", <<>>)>>, <<Figure, Case("Line", <<TRUE>>)>>,
  <<Figure, Case("Fill", <<TRUE, 1>>)>>, <<Option(Color), <<Case("Blue", <<>>)>>>>,
  <<Shape, Case("Text", <<<<>>, "a">>)>>, <<Shape, Case("Text", <<<<1>>, "a">>)>>,
  <<Duration, <<2 * Half - 1, 1>>>>,
  <<SystemTime, Time(Half - 1, 1)>>, <<SystemTime, Time(-1, 1)>>,
  <<SystemTime, Time(-2, 0)>>, <<SystemTime, Time(-Half, 1)>>
>>

\* An argument is an index into Origins, or 0 for a foreign value.
TypeOf(a)  == Origins[a][1]
ValueOf(a) == Origins[a][2]

(***************************************************************************)
(* The functions: for each candidate the types of its parameters.  In the  *)
(* last one the first parameter has a generic parameter of the self type.  *)
(***************************************************************************)
Single(ts) == [i \in DOMAIN ts |-> <<ts[i]>>]
Functions == <<
  Single(<<Level, Float, I8>>),
  Single(<<I8, I64T, Bits64, NonZero(I8)>>),
  Single(<<Char, Color, String>>),
  Single(<<List(I8), List(String), Map(Bool), Tuple(<<I8, I8>>), Array(Bool, 2)>>),
  Single(<<Option(Unit), Option(I8), Bool>>),
  Single(<<List(Option(I8)), Tuple(<<I8, Char>>), Tuple(<<Option(I8), I8>>),
           Map(Option(I8)), Option(Option(I8))>>),
  Single(<<Duration, SystemTime, List(I64T), Array(Bool, 0)>>),
  Single(<<Shape, Color, Map(String), Unit>>),
  Single(<<Figure, Signal, Shape, Map(Bool), Option(Color)>>),
  <<<<I8, List(I8)>>, <<String, List(String)>>>>,
  <<<<I8, Float>>, <<I8, I8>>, <<I8, String>>>>
>>
OfSelf(f, i) == f = Len(Functions) /\ i = 1

WithReceiver == {1, 11}    \* functions that are also methods

AllInputs == {<<a>> : a \in 0 .. Len(Origins)}
PairInputs == {<<2, 19>>, <<2, 3>>, <<2, 8>>, <<11, 22>>, <<11, 18>>, <<3, 2>>,
               <<2, 11>>, <<2, 0>>, <<2, 2>>}
\* Lua passes any number of arguments.
AnyNumber == {<<>>, <<2, 19>>, <<2, 2, 2>>}
InputsOf(f) == IF Len(Functions[f][1]) = 2 THEN PairInputs ELSE AllInputs

\* WebAssembly arguments have the types of the candidate whose case they
\* name; unit and empty arrays are not WIT types.
InWit(t) == t \notin {Unit, Option(Unit), Array(Bool, 0)}
TypedAs(input, types) ==
  \A i \in DOMAIN input : /\ input[i] # 0
                         /\ TypeOf(input[i]) = types[i]
                         /\ InWit(types[i])

\* choice: the candidate called under its own name or, in WebAssembly, named
\* by the variant case; 0 for all of them.
IsCall(k) ==
  /\ k.choice <= Len(Functions[k.function])
  /\ k.receiver = "none" \/ k.function \in WithReceiver
  /\ \/ k.input \in InputsOf(k.function)
     \/ k.runtime = "lua" /\ k.input \in AnyNumber
  /\ IF k.runtime # "wit" THEN k.dyn <=> k.choice = 0
     ELSE k.choice # 0 /\ TypedAs(k.input, Functions[k.function][k.choice])

MCCalls ==
  {k \in [runtime : {"lua", "rhai", "wit"}, function : 1 .. Len(Functions),
          receiver : {"none", "ref", "mut"}, dyn : BOOLEAN, choice : 0 .. 5,
          input : AllInputs \cup PairInputs \cup AnyNumber] : IsCall(k)}

-----------------------------------------------------------------------------
(* The parameters of DynDispatch. *)

MCCandidates(k) ==
  IF k.choice = 0 THEN 1 .. Len(Functions[k.function]) ELSE {k.choice}

MCParams(k, c) ==
  [i \in DOMAIN Functions[k.function][c] |->
     IF k.runtime = "rhai" /\ OfSelf(k.function, i) THEN Unbound
     ELSE Functions[k.function][c][i]]

Through(runtime, a) ==
  IF a = 0 THEN {NotCarried}
  ELSE LET v == IntoScript(TypeOf(a), ValueOf(a)) IN
       CASE runtime = "lua"  -> ThroughLua(v)
         [] runtime = "rhai" -> {ThroughRhai(v)}
         [] runtime = "wit"  -> {ThroughWit(TypeOf(a), v)}

MCUnliftable == <<NotCarried>>
MCLifted(k) ==
  LET ways == [i \in DOMAIN k.input |-> Through(k.runtime, k.input[i])]
      all  == UNION {ways[i] : i \in DOMAIN ways}
  IN {IF AnyFails(vs) THEN MCUnliftable ELSE vs
      : vs \in {ws \in [DOMAIN ways -> all] : \A i \in DOMAIN ways : ws[i] \in ways[i]}}

MCFit(v, t) == Matches(v, t)

\* The wrapper of candidate c; a missing argument reads as unit.
Reads(k, c, vs) ==
  LET types == Functions[k.function][c] IN
  Collect([i \in DOMAIN types |->
    LET v == IF i \in DOMAIN vs THEN vs[i] ELSE UnitV IN
    FromScript(types[i], IF k.runtime = "wit" THEN Reshape(types[i], v) ELSE v)])

MCAccepts(k, c, vs) == Reads(k, c, vs).ok

-----------------------------------------------------------------------------
(***************************************************************************)
(* What a runtime can represent of a value: in Lua and Rhai no nil inside  *)
(* an option, in Lua no nil inside a table, no map that looks like an enum *)
(* case and no array of length 0, in WebAssembly no enum case whose name   *)
(* another enum has for a case with another number or payload length.      *)
(***************************************************************************)
RECURSIVE Parts(_)
Parts(v) ==
  {v} \cup CASE v.tag = "Some" -> Parts(v.inner)
             [] v.tag = "List" -> UNION {Parts(v.items[i]) : i \in DOMAIN v.items}
             [] v.tag = "Map"  -> UNION {Parts(v.pairs[i][2]) : i \in DOMAIN v.pairs}
             [] v.tag = "Enum" -> UNION {Parts(v.payload[i]) : i \in DOMAIN v.payload}
             [] OTHER -> {}

HoldsNil(v) ==
  CASE v.tag = "List" -> \E i \in DOMAIN v.items : IsNil(v.items[i])
    [] v.tag = "Map"  -> \E i \in DOMAIN v.pairs : IsNil(v.pairs[i][2])
    [] v.tag = "Enum" -> \E i \in DOMAIN v.payload : IsNil(v.payload[i])
    [] OTHER -> FALSE
LooksLikeCase(v) == v.tag = "Map" /\ Len(v.pairs) = 1 /\ v.pairs[1][1] = "case"

\* Two enums declare a case of this name, and not alike.
SharedName(w) ==
  w.tag = "Enum" /\ \E e, f \in MCEnums :
    /\ w.case \in DOMAIN e.cases \cap DOMAIN f.cases
    /\ \/ Len(e.cases[w.case]) # Len(f.cases[w.case])
       \/ w.case \in DOMAIN e.discs /\ (w.case \notin DOMAIN f.discs
                                          \/ e.discs[w.case] # f.discs[w.case])

Representable(runtime, t, v) ==
  /\ runtime # "wit" => \A w \in Parts(v) : w.tag = "Some" => ~IsNil(w)
  /\ runtime = "lua" => /\ \A w \in Parts(v) : ~HoldsNil(w) /\ ~LooksLikeCase(w)
                        /\ t # Array(Bool, 0)
  /\ runtime = "wit" => \A w \in Parts(v) : ~SharedName(w)

(***************************************************************************)
(* A value that the host gave to a script and gets back unchanged, for a   *)
(* parameter of the same type, is the same value.                          *)
(***************************************************************************)
RoundTrip ==
  pc = "try" =>
    \A c \in Candidates(call) :
      LET types == Functions[call.function][c] IN
      /\ Len(call.input) = Len(types)
      /\ \A i \in DOMAIN types :
           /\ TypeOf(call.input[i]) = types[i]
           /\ Representable(call.runtime, types[i],
                            IntoScript(types[i], ValueOf(call.input[i])))
      => Reads(call, c, args) = Ok([i \in DOMAIN types |-> ValueOf(call.input[i])])

\* All elements are of the kind of the first, by which the matcher judges.
Uniform(v) ==
  v.tag = "List" => \A i \in DOMAIN v.items : v.items[i].tag = v.items[1].tag

(***************************************************************************)
(* What the matcher calls an exact fit can fail to convert only for its    *)
(* value, a number out of range or a wrong length, not for its shape.      *)
(***************************************************************************)
ExactFitsConvert ==
  pc = "try" =>
    \A c \in Candidates(call) :
      /\ FitsAt(call, c, args, Exact)
      /\ \A i \in DOMAIN args : Uniform(args[i])
      => Reads(call, c, args) # WrongShape
=============================================================================
