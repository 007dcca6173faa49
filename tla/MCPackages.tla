----------------------------- MODULE MCPackages -----------------------------
(***************************************************************************)
(* Declarations for Packages: one or two of every sort, small, chosen so   *)
(* that names meet (a field and a method, a nested module and a top-level  *)
(* one, a function and an enum's companion, two instantiations) and types  *)
(* mention each other across interfaces.                                   *)
(***************************************************************************)
EXTENDS LuaHost

U8 == Prim("u8")
S32 == Prim("s32")

D(sort, desc) == [sort |-> sort, desc |-> desc]

Generics(f, params, insts) == [f EXCEPT !.generics = params, !.insts = insts]
Dyn(f) == [f EXCEPT !.dyn = TRUE]
Fallible(f) == [f EXCEPT !.fallible = TRUE]
Async(f) == [f EXCEPT !.async = TRUE]

\* A record with traits and a computed property.
Point ==
  [Struct("point", "Point") EXCEPT
     !.fields = <<Named("x", S32)>>,
     !.properties = <<Named("norm", S32)>>,
     !.traits = <<Trait("PartialEq", <<>>), Trait("Eq", <<>>), Trait("Default", <<>>)>>]

\* A resource with everything a resource can have.  With more than one
\* constructor it is written by hand: the macros make one, `new`.
Counter ==
  [Struct("counter", "Counter") EXCEPT
     !.fields = <<Named("total", S32), ReadOnly("step", S32)>>,
     !.properties = <<Named("limit", OptionOf(S32))>>,
     !.constructors = <<Fallible(Function("parse", <<String>>, Ref("counter"))),
                        Function("make", <<>>, Ref("counter")),
                        Function("zero", <<>>, Ref("counter"))>>,
     !.methods = <<Method("get", "ref", <<>>, S32), Method("take", "own", <<>>, S32),
                   Dyn(Generics(Method("put", "mut", <<Param("T")>>, Unit), <<"T">>, <<<<U8>>, <<S32>>>>))>>,
     !.traits = <<Trait("Add", <<Ref("counter"), Ref("counter")>>),
                  Trait("Pow", <<U8, Ref("counter")>>), Trait("Default", <<>>),
                  Trait("Display", <<>>)>>]

\* A record with bit operators.
Mask ==
  [Struct("mask", "Mask") EXCEPT
     !.fields = <<Named("x", U8)>>,
     !.traits = <<Trait("BitAnd", <<Ref("mask"), Ref("mask")>>), Trait("BitOr", <<U8, Ref("mask")>>),
                  Trait("BitXor", <<U8, U8>>), Trait("Shl", <<U8, Ref("mask")>>),
                  Trait("Shr", <<U8, Ref("mask")>>), Trait("Not", <<Ref("mask")>>)>>]

\* A method spelled like the setter of a field.
Meter ==
  [Struct("meter", "Meter") EXCEPT
     !.fields = <<Named("total", S32)>>,
     !.methods = <<Method("set_total", "mut", <<S32>>, Unit)>>]

\* The same name in another case.
SameName == Alias("point2", "point", String)

Shape ==
  [Enum("shape", "Shape",
        <<Variant("dot", "unit", <<>>), Variant("line", "struct", <<Named("x", Ref("point"))>>)>>) EXCEPT
     !.methods = <<Method("get", "ref", <<>>, S32),
                   Dyn(Generics(Method("put", "ref", <<Param("T")>>, Unit), <<"T">>, <<<<U8>>>>))>>]

Labeled ==
  [Struct("labeled", "Labeled") EXCEPT
     !.generics = <<"T">>,
     !.fields = <<Named("x", Param("T"))>>,
     !.properties = <<ReadOnly("norm", Param("T"))>>,
     !.traits = <<Trait("Default", <<>>)>>]

\* A generic resource that returns itself.
Slot ==
  [Struct("slot", "Slot") EXCEPT
     !.generics = <<"T">>,
     !.constructors = <<Async(Function("new", <<Param("T")>>, Ref("slot")))>>,
     !.methods = <<Method("get", "ref", <<>>, ListOf(Param("T")))>>]

\* A method named like the monomorph of another one.
Gadget ==
  [Struct("gadget", "Gadget") EXCEPT
     !.methods = <<Method("put__u8", "mut", <<U8>>, Unit),
                   Generics(Method("put", "mut", <<Param("T")>>, Unit), <<"T">>, <<<<U8>>>>)>>]

\* Async methods named like a monomorph and like a method of a trait.
Widget ==
  [Struct("widget", "Widget") EXCEPT
     !.fields = <<Named("step", S32)>>,
     !.methods = <<Async(Method("put__u8", "ref", <<U8>>, Unit)),
                   Async(Method("hash", "ref", <<>>, S32)),
                   Method("get", "ref", <<>>, S32),
                   Generics(Method("put", "ref", <<Param("T")>>, Unit), <<"T">>,
                            <<<<U8>>, <<S32>>>>)>>,
     !.traits = <<Trait("Hash", <<>>)>>]

Points == Alias("points", "Points", ListOf(Ref("point")))

Logger ==
  Foreign("logger", "Logger",
    <<Function("get", <<String>>, Unit),
      Generics(Function("echo", <<Param("T")>>, Param("T")), <<"T">>, <<<<U8>>>>),
      Dyn(Generics(Function("put", <<Param("T")>>, Unit), <<"T">>, <<<<U8>>, <<String>>>>))>>)

Sink ==
  [Foreign("sink", "Sink", <<Function("put", <<Param("T")>>, Unit)>>) EXCEPT !.generics = <<"T">>]

\* Another one, whose name is the same in kebab-case.
Sunk ==
  [Foreign("sunk", "sink", <<Function("get", <<>>, Param("T"))>>) EXCEPT !.generics = <<"T">>]

\* Interfaces without functions, and with a keyword for a name.
Idle == Foreign("idle", "Idle", <<>>)
Record == Foreign("record", "Record", <<Function("get", <<>>, S32)>>)

\* A function named after an enum's companion.
Util ==
  [Module("util") EXCEPT
     !.functions = <<Function("shape_get", <<>>, S32)>>,
     !.types = <<"shape">>]

\* A function named like a keyword.
Shell == [Module("shell") EXCEPT !.functions = <<Function("list", <<S32>>, S32)>>]

Geo ==
  [Module("geo") EXCEPT
     !.functions = <<Function("get", <<Ref("point")>>, S32),
                     Dyn(Generics(Function("echo", <<Param("T")>>, Param("T")), <<"T">>, <<<<U8>>>>))>>,
     !.fnInsts = <<FnInst("echo", <<ListOf(U8)>>), FnInst("echo", <<U8>>)>>,
     !.constants = <<Named("limit", S32)>>,
     !.types = <<"point">>,
     !.submodules = <<[Module("util") EXCEPT !.types = <<"shape", "point">>,
                         !.functions = <<Function("make", <<>>, Ref("shape"))>>]>>]

\* A function named like a monomorph of another one; types whose members meet.
Kit ==
  [Module("kit") EXCEPT
     !.functions = <<Generics(Function("echo", <<Param("T")>>, Param("T")), <<"T">>, <<<<U8>>>>),
                     Function("echo__u8", <<U8>>, U8)>>,
     !.fnInsts = <<FnInst("echo", <<S32>>)>>,
     !.types = <<"gadget", "widget">>]

\* Types that have several instantiations, on one table each.
Box == [Module("box") EXCEPT !.types = <<"slot", "labeled">>]

\* Monomorphs named like a constant and a submodule, a function that only its
\* module instantiates, an enum with a case named like the constructor that
\* Default brings; a module named like the function that decodes errors.
Mode ==
  [Enum("mode", "Mode", <<Variant("default", "unit", <<>>), Variant("dot", "unit", <<>>)>>) EXCEPT
     !.traits = <<Trait("Default", <<>>)>>]

Depot ==
  [Module("depot") EXCEPT
     !.functions = <<Generics(Function("echo", <<Param("T")>>, Param("T")), <<"T">>, <<<<U8>>>>),
                     Generics(Function("put", <<Param("T")>>, Unit), <<"T">>, <<<<U8>>>>),
                     Dyn(Generics(Function("take", <<Param("T")>>, Unit), <<"T">>, <<>>))>>,
     !.fnInsts = <<FnInst("take", <<U8>>)>>,
     !.constants = <<Named("echo__u8", S32)>>,
     !.types = <<"mode">>,
     !.submodules = <<[Module("put__u8") EXCEPT !.functions = <<Function("get", <<>>, S32)>>]>>]

ErrorModule == [Module("haphe_error") EXCEPT !.constants = <<Named("limit", S32)>>]

GeoUtil == [Module("geo_util") EXCEPT !.functions = <<Function("get", <<>>, S32)>>]

MCPalette ==
  {D("struct", Point), D("struct", Counter), D("struct", Mask), D("struct", Meter), D("struct", Labeled),
   D("struct", Slot), D("enum", Shape), D("alias", Points), D("alias", SameName),
   D("foreign", Logger), D("foreign", Sink), D("foreign", Idle), D("foreign", Record),
   D("module", Util), D("module", Geo), D("module", GeoUtil), D("module", Shell),
   D("struct", Gadget), D("module", Box),
   D("inst", Inst("labeled", <<Ref("point")>>)), D("inst", Inst("labeled", <<U8>>)),
   D("inst", Inst("slot", <<OptionOf(U8)>>)),
   D("inst", Inst("sink", <<U8>>)), D("inst", Inst("sink", <<Ref("point")>>))}

\* A package with a bit of everything, and what a program may start from.
Whole ==
  [Empty EXCEPT
     !.structs = <<Point, Counter, Labeled, Slot>>, !.enums = <<Shape>>, !.aliases = <<Points>>,
     !.foreigns = <<Logger, Sink>>, !.modules = <<Geo>>,
     !.insts = <<Inst("labeled", <<Ref("point")>>), Inst("slot", <<OptionOf(U8)>>),
                 Inst("sink", <<U8>>)>>]

Small == [Empty EXCEPT !.structs = <<Point>>, !.enums = <<Shape>>, !.modules = <<Geo>>]
Records == [Empty EXCEPT !.structs = <<Point, Labeled>>, !.insts = <<Inst("labeled", <<Ref("point")>>)>>]
Resources == [Empty EXCEPT !.structs = <<Counter, Slot>>, !.insts = <<Inst("slot", <<OptionOf(U8)>>)>>]

Boxes ==
  [Empty EXCEPT
     !.structs = <<Labeled, Slot>>, !.modules = <<Box>>,
     !.insts = <<Inst("labeled", <<U8>>), Inst("slot", <<U8>>), Inst("slot", <<OptionOf(U8)>>)>>]
Kits == [Empty EXCEPT !.structs = <<Gadget, Widget>>, !.modules = <<Kit>>]

Clashes == [Empty EXCEPT !.enums = <<Mode>>, !.modules = <<Depot, ErrorModule>>]

Twins ==
  [Empty EXCEPT !.foreigns = <<Sink, Sunk>>,
                !.insts = <<Inst("sink", <<U8>>), Inst("sunk", <<U8>>)>>]

MCGiven == {Empty, Whole, Small, Records, Resources, Boxes, Kits, Twins, Clashes}

-----------------------------------------------------------------------------
\* Names as they are spelled.
MCSpelling ==
  [Point |-> <<"Point">>, point |-> <<"point">>, Counter |-> <<"Counter">>,
   Mask |-> <<"Mask">>, Meter |-> <<"Meter">>,
   Labeled |-> <<"Labeled">>, Slot |-> <<"Slot">>, Shape |-> <<"Shape">>, Points |-> <<"Points">>,
   Logger |-> <<"Logger">>, Sink |-> <<"Sink">>, sink |-> <<"sink">>, Idle |-> <<"Idle">>, Record |-> <<"Record">>,
   util |-> <<"util">>, shell |-> <<"shell">>, geo |-> <<"geo">>, geo_util |-> <<"geo", "_", "util">>, types |-> <<"types">>,
   x |-> <<"x">>, norm |-> <<"norm">>, total |-> <<"total">>, step |-> <<"step">>,
   limit |-> <<"limit">>, parse |-> <<"parse">>, make |-> <<"make">>, zero |-> <<"zero">>,
   get |-> <<"get">>, take |-> <<"take">>, put |-> <<"put">>, echo |-> <<"echo">>,
   Gadget |-> <<"Gadget">>, Widget |-> <<"Widget">>, kit |-> <<"kit">>, box |-> <<"box">>,
   new |-> <<"new">>, default |-> <<"default">>, hash |-> <<"hash">>,
   put__u8 |-> <<"put", "_", "_", "u8">>, echo__u8 |-> <<"echo", "_", "_", "u8">>,
   set_total |-> <<"set", "_", "total">>, shape_get |-> <<"shape", "_", "get">>,
   list |-> <<"list">>, dot |-> <<"dot">>, line |-> <<"line">>,
   Mode |-> <<"Mode">>, depot |-> <<"depot">>, haphe_error |-> <<"haphe", "_", "error">>]

MCCamel ==
  [Point |-> <<"point">>, Counter |-> <<"counter">>, Mask |-> <<"mask">>, Meter |-> <<"meter">>, Labeled |-> <<"labeled">>,
   Slot |-> <<"slot">>, Shape |-> <<"shape">>, Points |-> <<"points">>, Logger |-> <<"logger">>,
   Sink |-> <<"sink">>, Idle |-> <<"idle">>, Record |-> <<"record">>, Gadget |-> <<"gadget">>, Widget |-> <<"widget">>, Mode |-> <<"mode">>]
=============================================================================
